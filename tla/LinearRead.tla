------------------------------ MODULE LinearRead ------------------------------
(***************************************************************************)
(* What a read of consecutive data promises, without tracks, heads or      *)
(* records: the sectors of a disk form one line, a read starts at a place  *)
(* on it and takes sector after sector until it has what was wanted or a   *)
(* sector cannot be read; it never skips one, never goes back, and takes   *)
(* no more than was wanted.                                                *)
(***************************************************************************)
EXTENDS Integers

VARIABLES
  running,  \* a read is going on
  place,    \* where on the line its next sector is, 0 when none runs
  wanted,   \* the bytes asked for
  taken     \* the bytes taken

vars == <<running, place, wanted, taken>>

Init == ~running /\ place = 0 /\ wanted = 0 /\ taken = 0

Begin ==
  /\ ~running /\ running'
  /\ place' \in Int
  /\ wanted' \in Int
  /\ taken' = 0

Take ==
  /\ running /\ running'
  /\ place' = place + 1
  /\ taken' \in taken + 1 .. wanted
  /\ wanted' = wanted

Finish ==
  /\ running /\ ~running'
  /\ place' = 0
  /\ UNCHANGED <<wanted, taken>>

Next == Begin \/ Take \/ Finish

Spec == Init /\ [][Next]_vars
===============================================================================
