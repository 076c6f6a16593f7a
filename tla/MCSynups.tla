------------------------------- MODULE MCSynups -------------------------------
(* Two scores that play, one that SYNPLAY refuses, and a file of each kind *)
(* that is not a score.                                                    *)
EXTENDS SynupsPlayer

CONSTANTS s1, s2, refused, truncated, alien, unreadable

MCScores == {s1, s2, refused}
MCRefused == {refused}
MCTruncated == {truncated}
MCAlien == {alien}
MCUnreadable == {unreadable}
MCCodes == {s1, s2, refused, truncated, alien, unreadable}
===============================================================================
