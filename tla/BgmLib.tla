--------------------------------- MODULE BgmLib ---------------------------------
(***************************************************************************)
(* The player for BGMLIB and MASTERLIB data (bgml_98.c): main loads the    *)
(* file and waits; the handler of INT 7Fh stops the music, or selects and  *)
(* starts a tune that is repeated or not.  BGMLIB is not in the repository *)
(* and is modelled by what is asked of it.                                 *)
(***************************************************************************)
EXTENDS HootPort, Integers

CONSTANTS
  Tunes,     \* the numbers of the tunes in the file
  None       \* no tune

(* The bytes at ports 7e2h and 7e3h: what Codes are in this program. *)
TuneCodes == [num : Tunes, flag : {0, 1}]

VARIABLES
  pc,        \* where main is
  enabled,   \* interrupts are taken
  vector,    \* INT 7Fh is hoot_hook
  playing,   \* BGMLIB: the tune, or None
  repeat     \* BGMLIB: whether a tune is repeated

vars == <<hostVars, pc, enabled, vector, playing, repeat>>

Init ==
  /\ HostInit
  /\ pc = "start" /\ enabled = TRUE
  /\ vector = FALSE
  /\ playing = None /\ repeat \in BOOLEAN

_disable ==
  /\ pc = "start"
  /\ pc' = "init" /\ enabled' = FALSE
  /\ SetGate(HF_DISABLE)
  /\ UNCHANGED <<vector, playing, repeat>>

(* The buffer, the vector, the file's name and the file. *)
SetUp ==
  /\ pc = "init"
  /\ pc' = "enable" /\ vector' = TRUE
  /\ UNCHANGED <<hostVars, enabled, playing, repeat>>

_enable ==
  /\ pc = "enable"
  /\ pc' = "loop" /\ enabled' = TRUE
  /\ SetGate(HF_DISABLE)
  /\ UNCHANGED <<vector, playing, repeat>>

hoot_hook ==
  /\ enabled /\ Deliver
  /\ IF command = HP_PLAY
     THEN playing' = code.num /\ repeat' = (code.flag = 0)
     ELSE playing' = None /\ UNCHANGED repeat
  /\ UNCHANGED <<pc, enabled, vector>>

Main == _disable \/ SetUp \/ _enable
Request == HostRequest /\ UNCHANGED <<pc, enabled, vector, playing, repeat>>

Next == Main \/ hoot_hook \/ Request

(* main runs on until it waits, and hoot raises an interrupt it may raise. *)
Spec == Init /\ [][Next]_vars /\ WF_vars(Main) /\ WF_vars(hoot_hook)

(* Once main has said that hoot may call, a request reaches the handler.   *)
RequestsAreServed == (pc = "loop" /\ irq) ~> ~irq
================================================================================
