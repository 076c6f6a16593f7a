----------------------------- MODULE OrangeDecode -----------------------------
(***************************************************************************)
(* moexdec and caratdec, the routine they share: bytes and copies of what  *)
(* was decoded, told apart by bits that come first bit highest in flag     *)
(* bytes among them. The flag byte is fetched when its first bit is        *)
(* wanted, so also behind the last byte of the file.                       *)
(*                                                                         *)
(* Scaled: a byte has BITS bits, LONG values of a word's length field.     *)
(***************************************************************************)
EXTENDS Integers, Sequences

CONSTANTS
  BITS,    \* bits of a byte: 8 in the code
  LONG,    \* lengths in a word: 8; 0 stands for a length in a byte of its own
  Inputs   \* the runs: the file, what was packed in it, and whether the build
           \* evaluates the right side of the copy's assignment last

BYTE == 2 ^ BITS

VARIABLES
  input, pc,
  pos, insize,        \* the bytes _src has passed, those that are left
  flag, flag_remain,
  copylen, offset, dst

source == <<pos, insize>>
flags == <<flag, flag_remain>>
vars == <<input, pc, source, flags, copylen, offset, dst>>

Init ==
  /\ input \in Inputs
  /\ pc = "next" /\ pos = 0 /\ insize = Len(input.src)
  /\ flag = 0 /\ flag_remain = 1
  /\ copylen = 0 /\ offset = -1 /\ dst = <<>>

-------------------------------------------------------------------------------
(* Behind the file is whatever the memory holds.                           *)
At(k) == IF k < Len(input.src) THEN {input.src[k + 1]} ELSE 0 .. BYTE - 1

TopBit == flag \div (BYTE \div 2)

(* Mutant: one bit too many is taken from a flag byte.                     *)
NineBits ==
  IF flag_remain - 1 <= 0
  THEN /\ flag' \in At(pos) /\ flag_remain' = BITS + 1
       /\ pos' = pos + 1 /\ insize' = insize - 1
  ELSE flag' = (flag * 2) % BYTE /\ flag_remain' = flag_remain - 1 /\ UNCHANGED source

flag_update ==
  IF flag_remain - 1 <= 0
  THEN /\ flag' \in At(pos) /\ flag_remain' = BITS
       /\ pos' = pos + 1 /\ insize' = insize - 1
  ELSE flag' = (flag * 2) % BYTE /\ flag_remain' = flag_remain - 1 /\ UNCHANGED source

Token ==
  /\ pc = "next"
  /\ flag_update
  /\ pc' = IF insize' > 0 THEN "token" ELSE "done"
  /\ UNCHANGED <<input, copylen, offset, dst>>

Literal ==
  /\ pc = "token" /\ TopBit = 1
  /\ \E b \in At(pos) : dst' = Append(dst, b)
  /\ pos' = pos + 1 /\ insize' = insize - 1
  /\ pc' = "next"
  /\ UNCHANGED <<input, flags, copylen, offset>>

Second ==
  /\ pc = "token" /\ TopBit = 0
  /\ copylen' = 0
  /\ flag_update
  /\ pc' = "kind"
  /\ UNCHANGED <<input, offset, dst>>

(* A word, its upper bits a negative number, and the length in its lower   *)
(* bits or in the byte behind it. Mutant: that byte is not counted.        *)
FarTwoBytes ==
  /\ pc = "kind" /\ TopBit = 1
  /\ \E hi \in At(pos), lo \in At(pos + 1), more \in At(pos + 2) :
       LET word == hi * BYTE + lo
           len == word % LONG
       IN  /\ offset' = (word - BYTE * BYTE) \div LONG
           /\ insize' = insize - 2
           /\ IF len # 0 THEN copylen' = len + 2 /\ pos' = pos + 2 ELSE copylen' = more + 1 /\ pos' = pos + 3
  /\ pc' = "copy"
  /\ UNCHANGED <<input, flags, dst>>

Far ==
  /\ pc = "kind" /\ TopBit = 1
  /\ \E hi \in At(pos), lo \in At(pos + 1), more \in At(pos + 2) :
       LET word == hi * BYTE + lo
           len == word % LONG
       IN  /\ offset' = (word - BYTE * BYTE) \div LONG
           /\ IF len # 0
              THEN copylen' = len + 2 /\ pos' = pos + 2 /\ insize' = insize - 2
              ELSE copylen' = more + 1 /\ pos' = pos + 3 /\ insize' = insize - 3
  /\ pc' = "copy"
  /\ UNCHANGED <<input, flags, dst>>

(* Two bits more are the length of a copy from near.                       *)
LengthBit ==
  /\ \/ pc = "kind" /\ TopBit = 0 /\ pc' = "first"
     \/ pc = "first" /\ pc' = "last"
  /\ flag_update
  /\ copylen' = copylen * 2 + flag' \div (BYTE \div 2)
  /\ UNCHANGED <<input, offset, dst>>

(* Mutant: the lengths of near copies begin at one.                        *)
NearShort ==
  /\ pc = "last"
  /\ \E b \in At(pos) : offset' = b - BYTE
  /\ pos' = pos + 1 /\ insize' = insize - 1
  /\ copylen' = copylen + 1
  /\ pc' = "copy"
  /\ UNCHANGED <<input, flags, dst>>

Near ==
  /\ pc = "last"
  /\ \E b \in At(pos) : offset' = b - BYTE
  /\ pos' = pos + 1 /\ insize' = insize - 1
  /\ copylen' = copylen + 2
  /\ pc' = "copy"
  /\ UNCHANGED <<input, flags, dst>>

(* Whether _dst has moved on when the byte is read is the compiler's       *)
(* choice, the same for every copy; the buffer was filled with zeroes.     *)
CopyByte ==
  /\ pc = "copy" /\ copylen > 0
  /\ LET from == Len(dst) + 1 + offset + (IF input.late THEN 1 ELSE 0)
     IN  \E b \in IF from \in DOMAIN dst THEN {dst[from]} ELSE IF from > Len(dst) THEN {0} ELSE 0 .. BYTE - 1 :
           dst' = Append(dst, b)
  /\ copylen' = copylen - 1
  /\ UNCHANGED <<input, pc, source, flags, offset>>

Copied ==
  /\ pc = "copy" /\ copylen = 0
  /\ pc' = "next"
  /\ UNCHANGED <<input, source, flags, copylen, offset, dst>>

Next == Token \/ Literal \/ Second \/ Far \/ LengthBit \/ Near \/ CopyByte \/ Copied

Spec == Init /\ [][Next]_vars

-------------------------------------------------------------------------------
(* Properties. *)

TypeOK ==
  /\ pc \in {"next", "token", "kind", "first", "last", "copy", "done"}
  /\ pos \in Nat /\ insize \in Int
  /\ flag \in 0 .. BYTE - 1 /\ flag_remain \in 1 .. BITS
  /\ copylen \in 0 .. BYTE + LONG /\ offset \in -(BYTE * BYTE) .. -1
  /\ dst \in Seq(0 .. BYTE - 1)

(* The count of bytes left, that ends the decoding, follows the pointer    *)
(* through every kind of token, and passes the end by one flag byte only.  *)
CountFollowsPointer == insize = Len(input.src) - pos /\ insize >= -1

(* What is decoded is what was packed, to its last byte and no further, if *)
(* the byte a copy takes is read before _dst moves on.                     *)
DecodesThePacked == pc = "done" /\ ~input.late => dst = input.plain

(* Where decoding ends.                                                    *)
Finished == pc = "done"
===============================================================================
