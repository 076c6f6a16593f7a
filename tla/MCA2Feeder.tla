------------------------------ MODULE MCA2Feeder ------------------------------
(* The tunes of A2: the title, the effects and two music files, one of     *)
(* them not acceptable.  640/128/512 bytes are scaled to 5/1/4.            *)
EXTENDS A2Feeder

MCSongs  == 0 .. 5 \cup 10 .. 14
MCMusic  == [s \in 10 .. 14 |-> IF s = 13 THEN Bad ELSE s - 8]
MCCount  == [s \in MCSongs |-> CASE s = 0 -> 14
                                 [] s \in 1 .. 5 -> 1
                                 [] s = 13 -> 1
                                 [] OTHER -> MCMusic[s]]
MCRepeat == [s \in MCSongs |-> CASE s = 0 -> 1 [] s \in 1 .. 5 -> OneShot [] OTHER -> 0]
MCCodes  == {0, 2, 6, 10, 12, 13, 15}
MCRoms   == {\h08b3, \h00b3}
MCBroken == {<<12, 3>>}

ASSUME MCTablesAgree == A2Tables
===============================================================================
