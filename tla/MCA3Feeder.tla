------------------------------ MODULE MCA3Feeder ------------------------------
(* A3 with its own table; the rings scaled from 640/128/512 bytes to 5/1/4. *)
EXTENDS PhraseFeeder, ArtdinkTracks

MCSongs  == DOMAIN A3_tracks
MCCount  == [s \in MCSongs |-> A3_tracks[s].count]
MCRepeat == [s \in MCSongs |-> A3_tracks[s].loop]
MCCodes  == {1, 3, 10, 11, 37}
MCRoms   == {\h08b3, \h00b3, 0}
MCBroken == {<<11, 1>>}
MCDrain  == {}
===============================================================================
