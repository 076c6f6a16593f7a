----------------------------- MODULE MCFsmFeeder ------------------------------
(* The tunes of Far Side Moon as its native program lists them, for the    *)
(* promise to be checked against: 640/256/384 bytes scaled to 5/2/3.       *)
EXTENDS FsmFeeder

MCSongs  == 0 .. 27
MCCount  == [s \in MCSongs |-> CASE s = 0 -> 12 [] s = 1 -> 17 [] s = 2 -> 6 [] OTHER -> 1]
MCRepeat == [s \in MCSongs |-> CASE s = 0 -> 0 [] s = 1 -> 12 [] s = 2 -> 1 [] OTHER -> OneShot]
MCCodes  == {0, 1, 2, 3, 28}
MCRoms   == {\h08b3, \h00b3}
MCBroken == {<<2, 4>>}

ASSUME MCTablesAgree == FsmTables
===============================================================================
