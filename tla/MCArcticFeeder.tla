---------------------------- MODULE MCArcticFeeder ----------------------------
(* Arctic with its own table; the rings scaled from 640/128/512 to 5/1/4.  *)
EXTENDS PhraseFeeder, ArtdinkTracks

MCSongs  == DOMAIN Arctic_tracks
MCCount  == [s \in MCSongs |-> Arctic_tracks[s].count]
MCRepeat == [s \in MCSongs |-> Arctic_tracks[s].loop]
MCCodes  == {0, 2, 3, 5}
MCRoms   == {\h08b3, \h00b3}
===============================================================================
