------------------------------- MODULE LzwSizes -------------------------------
(* The sizes the LZW decoder is written with, and what it is run on. The   *)
(* powers of two are stated, since the prover has no exponentiation; a     *)
(* token lies within three bytes, wherever in the first it begins.         *)
EXTENDS Integers, Sequences

CONSTANTS
  BITS,      \* bits of a byte: 8 in the code
  MAXBITS,   \* bits of the longest token: 12
  WORD,      \* values of a guint16: 2^16
  HOLE,      \* what is in memory nothing was written to
  Inputs     \* the runs: a stream and the length its header gives

ASSUME LzwDecodeAssumption ==
  /\ BITS \in Nat \ {0} /\ MAXBITS \in BITS + 1 .. 2 * BITS + 1
  /\ 2^0 = 1 /\ \A k \in 0 .. 3 * BITS : 2^k \in Nat \ {0} /\ 2^(k + 1) = 2 * 2^k
  /\ WORD \in Nat \ {0, 1}
  /\ HOLE \notin 0 .. 2^BITS - 1
  /\ \A x \in Inputs : x.src \in Seq(0 .. 2^BITS - 1) /\ x.length \in 0 .. WORD - 1
===============================================================================
