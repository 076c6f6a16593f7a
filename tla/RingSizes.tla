------------------------------- MODULE RingSizes -------------------------------
(* The sizes the ring decoders are written with, and what they are run on. *)
(* The powers of two are stated, since the prover has no exponentiation.   *)
EXTENDS Integers, Sequences

CONSTANTS
  FLAGS,     \* bits of a flag byte: 8 in the code
  NIBBLE,    \* values of half a byte: 16
  HEAD,      \* bytes of the header: 4
  UINT,      \* values of an unsigned int: 2^32
  Archives   \* the runs: a program, the file it is given, and what was packed in it

BYTE == NIBBLE * NIBBLE

ASSUME RingLzAssumption ==
  /\ FLAGS \in Nat \ {0} /\ NIBBLE \in Nat \ {0, 1} /\ HEAD \in Nat \ {0}
  /\ UINT \in Nat \ {0}
  /\ 2^0 = 1 /\ \A b \in 0 .. FLAGS : 2^b \in Nat \ {0} /\ 2^(b + 1) = 2 * 2^b
  /\ \A x \in Archives : x.file \in Seq(0 .. BYTE - 1)
================================================================================
