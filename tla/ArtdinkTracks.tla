----------------------------- MODULE ArtdinkTracks -----------------------------
(***************************************************************************)
(* The tracks tables of the two table-driven players: for every code, the  *)
(* offset of its first phrase pointers, its phrase count, its loop index   *)
(* and, in a3_98.asm, the channels it has pointers for (bits 0..2 FM,      *)
(* 3..5 PSG).                                                              *)
(***************************************************************************)
EXTENDS Integers

Track(base, count, loop, mask) ==
  [base |-> base, count |-> count, loop |-> loop, mask |-> mask]

Effect(base, mask) == Track(base, 1, \hffff, mask)

A3_tracks ==
  [s \in 0 .. 36 |->
     CASE s = 0  -> Track(\h7756, 6, 0, 63)
       [] s = 1  -> Track(\h7816, 2, 0, 63)
       [] s = 2  -> Track(\h77e6, 2, 0, 63)
       [] s = 3  -> Track(\h7846, 5, 0, 63)
       [] s = 4  -> Track(\h78be, 4, 0, 63)
       [] s = 5  -> Track(\h791e, 3, 0, 63)
       [] s = 6  -> Track(\h7966, 13, 0, 63)
       [] s = 7  -> Track(\h7aaa, 2, 0, 63)
       [] s = 8  -> Effect(\h7a9e, 56)
       [] s \in 9 .. 11 -> Track(\h7ada, s - 8, \hffff, 1)
       [] s \in {12, 13, 14, 16} -> Effect(\h7ae6 + 4 * (s - 12), 2)
       [] s \in {15} \cup 17 .. 28 -> Effect(\h7ae6 + 4 * (s - 12), 4)
       [] s = 29 -> Effect(\h7b2a, 7)
       [] s = 30 -> Effect(\h7b36, 7)
       [] s \in 31 .. 35 -> Effect(\h7b42 + 4 * (s - 31), 2)
       [] s = 36 -> Effect(\h7b56, 56)]

(* The tracks table of arctc_98.asm, and the phrase of song 0 that the     *)
(* native program submits only when all channels are silent.               *)
Arctic_tracks ==
  [s \in 0 .. 4 |->
     CASE s = 0 -> [base |-> \h12de, count |-> 40, loop |-> 1]
       [] s = 1 -> [base |-> \h14be, count |-> 6, loop |-> \hffff]
       [] s = 2 -> [base |-> \h1506, count |-> 3, loop |-> \hffff]
       [] s = 3 -> [base |-> \h152a, count |-> 1, loop |-> \hffff]
       [] s = 4 -> [base |-> \h152e, count |-> 1, loop |-> \hffff]]

boundary == {<<0, 9>>}
===============================================================================
