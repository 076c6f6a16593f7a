----------------------------- MODULE RingLzProofs -----------------------------
(* The ring decoders' ring is the end of what they have written, for every
   size of byte and ring and every file. *)
EXTENDS RingLz, TLAPS

Bytes == 0 .. BYTE - 1
Decoding == pc \in {"while", "token", "copy", "decoded"}

Types ==
  /\ input \in Archives
  /\ rb \in Seq(Bytes) /\ Len(rb) = 2
  /\ dic \in [0 .. DICT - 1 -> Bytes]
  /\ dic_pos \in 0 .. DICT - 1
  /\ at \in Nat
  /\ decode_byte \in Nat
  /\ decode_startaddr \in Int
  /\ decode_length \in Int
  /\ j \in Int
  /\ out \in Seq(Bytes)

IInv == Types /\ RingIsHistory

-------------------------------------------------------------------------------
(* Places in a ring. *)

LEMMA Sizes == BYTE \in Nat \ {0} /\ DICT \in Nat \ {0} /\ Start \in 0 .. DICT - 1
<1>1. NIBBLE \in Nat /\ NIBBLE >= 2
  BY RingLzAssumption
<1>2. BYTE \in Nat /\ BYTE >= 2 * NIBBLE
  BY <1>1 DEF BYTE
<1>3. DICT \in Nat /\ DICT >= 2 * BYTE
  BY <1>1, <1>2 DEF DICT
<1>4. NIBBLE + 2 <= DICT
  BY <1>1, <1>2, <1>3
<1> QED
  BY <1>1, <1>2, <1>3, <1>4 DEF Start

LEMMA ModSmall == ASSUME NEW D \in Nat \ {0}, NEW a \in 0 .. D - 1 PROVE a % D = a
  BY SMT

LEMMA ModBelow == ASSUME NEW D \in Nat \ {0}, NEW a \in 0 .. D - 1 PROVE (a - D) % D = a
  BY SMT

LEMMA ModRange == ASSUME NEW D \in Nat \ {0}, NEW a \in Int PROVE a % D \in 0 .. D - 1
  BY SMT

(* So many places before a place of a ring, in cases.                      *)
LEMMA Before ==
  ASSUME NEW D \in Nat \ {0}, NEW p \in 0 .. D - 1, NEW n \in 0 .. D
  PROVE (p - n) % D = IF n <= p THEN p - n ELSE p - n + D
<1>1. CASE n <= p
  <2>1. p - n \in 0 .. D - 1
    BY <1>1
  <2> QED
    BY <1>1, <2>1, ModSmall
<1>2. CASE n > p
  <2>1. p - n + D \in 0 .. D - 1
    BY <1>2
  <2>2. (p - n + D) - D = p - n
    BY <1>2
  <2> QED
    BY <1>2, <2>1, <2>2, ModBelow
<1> QED
  BY <1>1, <1>2

(* The next place of a ring, in cases.                                     *)
LEMMA Following ==
  ASSUME NEW D \in Nat \ {0}, NEW p \in 0 .. D - 1
  PROVE (p + 1) % D = IF p + 1 < D THEN p + 1 ELSE 0
<1>1. CASE p + 1 < D
  BY <1>1, ModSmall
<1>2. CASE p + 1 = D
  BY <1>2, SMT
<1> QED
  BY <1>1, <1>2

-------------------------------------------------------------------------------
(* A byte that is written goes into the ring. *)

LEMMA EmitKeeps ==
  ASSUME Types, RingIsHistory, Decoding, NEW b \in Bytes, Emit(b)
  PROVE  /\ dic' \in [0 .. DICT - 1 -> Bytes] /\ dic_pos' \in 0 .. DICT - 1
         /\ decode_byte' \in Nat /\ out' \in Seq(Bytes)
         /\ RingIsHistory'
<1> USE Sizes
<1>1. decode_byte = Len(out) /\ \A n \in 1 .. DICT : dic[(dic_pos - n) % DICT] = Ago(n)
  BY DEF RingIsHistory, Decoding
<1>2. dic' = [dic EXCEPT ![dic_pos] = b] /\ out' = Append(out, b)
      /\ dic_pos' = (dic_pos + 1) % DICT /\ decode_byte' = decode_byte + 1
  BY DEF Emit
<1>3. dic_pos' = IF dic_pos + 1 < DICT THEN dic_pos + 1 ELSE 0
  BY <1>2, Following DEF Types
<1>4. dic_pos' \in 0 .. DICT - 1
  BY <1>3 DEF Types
<1>5. dic' \in [0 .. DICT - 1 -> Bytes] /\ decode_byte' \in Nat /\ out' \in Seq(Bytes)
  BY <1>2 DEF Types
<1>6. decode_byte' = Len(out')
  BY <1>1, <1>2 DEF Types
<1>7. ASSUME NEW n \in 1 .. DICT PROVE dic'[(dic_pos' - n) % DICT] = Ago(n)'
  <2>1. (dic_pos' - n) % DICT = IF n <= dic_pos' THEN dic_pos' - n ELSE dic_pos' - n + DICT
    BY <1>4, Before
  <2>2. CASE n = 1
    <3>1. (dic_pos' - n) % DICT = dic_pos
      BY <2>1, <2>2, <1>3 DEF Types
    <3>2. dic'[dic_pos] = b
      BY <1>2 DEF Types
    <3>3. Ago(n)' = out'[decode_byte']
      <4>1. n <= decode_byte' /\ decode_byte' + 1 - n = decode_byte'
        BY <2>2, <1>2 DEF Types
      <4> QED
        BY <4>1 DEF Ago
    <3>4. out'[decode_byte'] = b
      BY <1>1, <1>2 DEF Types
    <3> QED
      BY <3>1, <3>2, <3>3, <3>4
  <2>3. CASE n > 1
    <3>1. n - 1 \in 1 .. DICT /\ n - 1 < DICT
      BY <2>3
    <3> DEFINE k == n - 1
    <3>0. k \in 0 .. DICT /\ dic_pos \in 0 .. DICT - 1 /\ DICT \in Nat \ {0} /\ dic_pos - k \in Int
      BY <3>1 DEF Types
    <3>2. (dic_pos - k) % DICT
            = IF k <= dic_pos THEN dic_pos - k ELSE dic_pos - k + DICT
      <4> HIDE DEF k
      <4> QED
        BY <3>0, Before
    <3>3. (dic_pos' - n) % DICT = (dic_pos - k) % DICT
      BY <2>1, <2>3, <3>1, <3>2, <1>3 DEF Types
    <3>4. (dic_pos - k) % DICT # dic_pos
      BY <3>1, <3>2 DEF Types
    <3>5. (dic_pos - k) % DICT \in 0 .. DICT - 1
      <4> HIDE DEF k
      <4> QED
        BY <3>0, ModRange
    <3>6. dic'[(dic_pos' - n) % DICT] = Ago(n - 1)
      BY <1>1, <1>2, <3>1, <3>3, <3>4, <3>5 DEF Types
    <3>7. Ago(n)' = Ago(n - 1)
      BY <1>1, <1>2, <3>1 DEF Ago, Types
    <3> QED
      BY <3>6, <3>7
  <2> QED
    BY <2>2, <2>3
<1> QED
  BY <1>4, <1>5, <1>6, <1>7 DEF RingIsHistory

LEMMA Element == ASSUME NEW S, NEW s \in Seq(S), NEW k \in 1 .. Len(s) PROVE s[k] \in S
  BY SMT

LEMMA ReadsBytes ==
  ASSUME Types, NEW n \in {1, 2} PROVE Fread(rb, n) \in Seq(Bytes) /\ Len(Fread(rb, n)) = 2
<1>1. file \in Seq(Bytes)
  BY RingLzAssumption DEF Types, file, Bytes
<1>2. Len(rb) = 2 /\ rb[1] \in Bytes /\ rb[2] \in Bytes
  <2>1. rb \in Seq(Bytes) /\ Len(rb) = 2
    BY DEF Types
  <2>2. rb[1] \in Bytes
    BY <2>1
  <2>3. rb[2] \in Bytes
    <3>1. 2 \in 1 .. Len(rb)
      BY <2>1
    <3> QED
      BY <2>1, <3>1, Element
  <2> QED
    BY <2>1, <2>2, <2>3
<1>3. ASSUME NEW k \in 1 .. 2
      PROVE (IF k <= n /\ at + k <= Len(file) THEN file[at + k] ELSE rb[k]) \in Bytes
  <2>1. at + k <= Len(file) => at + k \in 1 .. Len(file)
    BY <1>1 DEF Types
  <2>2. rb[k] \in Bytes
    BY <1>2
  <2> QED
    BY <1>1, <2>1, <2>2
<1>4. Fread(rb, n) = [k \in 1 .. 2 |-> IF k <= n /\ at + k <= Len(file) THEN file[at + k] ELSE rb[k]]
  BY <1>2 DEF Fread
<1> QED
  BY <1>3, <1>4

LEMMA AfterIsPlace == ASSUME Types, NEW n \in Nat PROVE After(n) \in Nat
<1>1. Len(file) \in Nat
  BY RingLzAssumption DEF Types, file
<1> QED
  BY <1>1 DEF After, Types

-------------------------------------------------------------------------------
(* The steps. *)

LEMMA InitHolds == Init => IInv
<1> SUFFICES ASSUME Init PROVE IInv
  OBVIOUS
<1>1. 0 \in Bytes
  BY Sizes DEF Bytes
<1>2. <<0, 0>> \in Seq(Bytes) /\ Len(<<0, 0>>) = 2 /\ <<>> \in Seq(Bytes)
  BY <1>1
<1>3. Types
  BY <1>1, <1>2, Sizes DEF Init, Types
<1>4. RingIsHistory
  BY DEF Init, RingIsHistory
<1> QED
  BY <1>3, <1>4 DEF IInv

(* A decoding begins with a ring of zeroes and nothing written, wherever   *)
(* its first byte goes.                                                    *)
LEMMA BeginHolds == ASSUME IInv, NEW n, Begin(n) PROVE IInv'
<1> USE Sizes
<1>1. Types /\ HEAD \in Nat
  BY RingLzAssumption DEF IInv
<1>2. 0 \in Bytes
  BY DEF Bytes
<1>3. Types'
  BY <1>1, <1>2, AfterIsPlace DEF Begin, Types, copying
<1>4. ASSUME NEW k \in 1 .. DICT PROVE dic'[(dic_pos' - k) % DICT] = Ago(k)'
  <2>1. Ago(k)' = 0
    BY DEF Begin, Ago
  <2>2. dic_pos' - k \in Int
    BY <1>3 DEF Types
  <2>3. (dic_pos' - k) % DICT \in 0 .. DICT - 1
    BY <2>2, ModRange
  <2> QED
    BY <2>1, <2>3 DEF Begin
<1>5. decode_byte' = Len(out')
  BY DEF Begin
<1> QED
  BY <1>3, <1>4, <1>5 DEF IInv, RingIsHistory

(* A step that writes nothing of the window, and decodes no more than it   *)
(* did, keeps the invariant if it keeps the types.                         *)
LEMMA QuietHolds ==
  ASSUME IInv, Types', window' = window, Decoding' => Decoding PROVE IInv'
<1>1. CASE ~Decoding'
  BY <1>1 DEF IInv, RingIsHistory, Decoding
<1>2. CASE Decoding
  <2>1. decode_byte = Len(out) /\ \A n \in 1 .. DICT : dic[(dic_pos - n) % DICT] = Ago(n)
    BY <1>2 DEF IInv, RingIsHistory, Decoding
  <2>2. dic' = dic /\ dic_pos' = dic_pos /\ decode_byte' = decode_byte /\ out' = out
    BY DEF window
  <2>3. \A n \in 1 .. DICT : Ago(n)' = Ago(n)
    BY <2>2 DEF Ago
  <2> QED
    BY <2>1, <2>2, <2>3 DEF IInv, RingIsHistory
<1> QED
  BY <1>1, <1>2

LEMMA LiteralHolds == ASSUME IInv, Literal PROVE IInv'
<1>1. Types /\ RingIsHistory /\ Decoding
  BY DEF IInv, Literal, Decoding
<1>2. rb' \in Seq(Bytes) /\ Len(rb') = 2 /\ at' \in Nat
  BY <1>1, ReadsBytes, AfterIsPlace DEF Literal
<1>3. rb'[1] \in Bytes
  BY <1>2
<1>4. Emit(rb'[1])
  BY DEF Literal
<1>5. /\ dic' \in [0 .. DICT - 1 -> Bytes] /\ dic_pos' \in 0 .. DICT - 1
      /\ decode_byte' \in Nat /\ out' \in Seq(Bytes)
      /\ RingIsHistory'
  BY <1>1, <1>3, <1>4, EmitKeeps
<1>6. Types'
  BY <1>1, <1>2, <1>5 DEF Literal, Types, copying
<1> QED
  BY <1>5, <1>6 DEF IInv

LEMMA CopyByteHolds == ASSUME IInv, CopyByte PROVE IInv'
<1> USE Sizes
<1>1. Types /\ RingIsHistory /\ Decoding
  BY DEF IInv, CopyByte, Decoding
<1>2. Source \in 0 .. DICT - 1
  <2>1. dic_pos - (decode_startaddr + 1) \in Int /\ decode_startaddr + j \in Int
    BY <1>1 DEF Types
  <2>2. (dic_pos - (decode_startaddr + 1)) % DICT \in 0 .. DICT - 1
    BY <2>1, ModRange
  <2>3. (decode_startaddr + j) % DICT \in 0 .. DICT - 1
    BY <2>1, ModRange
  <2> QED
    BY <2>2, <2>3 DEF Source
<1>3. dic[Source] \in Bytes
  BY <1>1, <1>2 DEF Types
<1>4. Emit(dic[Source])
  BY DEF CopyByte
<1>5. /\ dic' \in [0 .. DICT - 1 -> Bytes] /\ dic_pos' \in 0 .. DICT - 1
      /\ decode_byte' \in Nat /\ out' \in Seq(Bytes)
      /\ RingIsHistory'
  BY <1>1, <1>3, <1>4, EmitKeeps
<1>6. decode_length \in Int => j' \in Int
  BY <1>1 DEF CopyByte, Types
<1>7. Types'
  BY <1>1, <1>5, <1>6 DEF CopyByte, Types, main
<1> QED
  BY <1>5, <1>7 DEF IInv

(* The address of a copy is a number, whatever its bytes.                  *)
LEMMA CopyHolds == ASSUME IInv, Copy PROVE IInv'
<1> USE Sizes
<1>1. Types /\ Decoding /\ NIBBLE \in Nat \ {0}
  BY RingLzAssumption DEF IInv, Copy, Decoding
<1>2. rb' \in Seq(Bytes) /\ Len(rb') = 2 /\ at' \in Nat
  BY <1>1, ReadsBytes, AfterIsPlace DEF Copy
<1>3. rb'[1] \in Int /\ rb'[2] \in Nat
  <2>1. rb'[1] \in Bytes
    BY <1>2
  <2>2. rb'[2] \in Bytes
    BY <1>2
  <2> QED
    BY <2>1, <2>2 DEF Bytes
<1>4. rb'[2] \div NIBBLE \in Int
  BY <1>1, <1>3
<1>5. decode_startaddr' \in Int /\ j' \in Int
  BY <1>3, <1>4 DEF Copy
<1>6. decode_length' \in Int
  BY <1>1, <1>3 DEF Copy
<1>7. Types'
  BY <1>1, <1>2, <1>5, <1>6 DEF Copy, Types, window
<1> QED
  BY <1>1, <1>7, QuietHolds DEF Copy

LEMMA StepHolds == IInv /\ [Next]_vars => IInv'
<1> SUFFICES ASSUME IInv, [Next]_vars PROVE IInv'
  OBVIOUS
<1> USE DEF Locals, copying
<1>1. Types
  BY DEF IInv
<1>2. CASE Open
  <2>1. Types' /\ window' = window /\ ~Decoding'
    BY <1>1, <1>2 DEF Open, Types, window, Decoding
  <2> QED
    BY <2>1, QuietHolds
<1>3. CASE DecodeOne
  BY <1>3, BeginHolds DEF DecodeOne
<1>4. CASE DecodeMember
  BY <1>4, BeginHolds DEF DecodeMember
<1>5. CASE NoMember
  <2>1. at' \in Nat
    BY <1>1, <1>5, AfterIsPlace, RingLzAssumption DEF NoMember, Types
  <2>2. out' \in Seq(Bytes)
    <3>1. out' = out \/ out' = <<>>
      BY <1>5 DEF NoMember
    <3>2. <<>> \in Seq(Bytes) /\ out \in Seq(Bytes)
      BY <1>1 DEF Types
    <3> QED
      BY <3>1, <3>2
  <2>3. Types' /\ ~Decoding'
    BY <1>1, <1>5, <2>1, <2>2 DEF NoMember, Types, Decoding
  <2> QED
    BY <2>3 DEF IInv, RingIsHistory, Decoding
<1>6. CASE CannotWrite
  <2>1. Types' /\ window' = window /\ ~Decoding'
    BY <1>1, <1>6 DEF CannotWrite, Types, window, Decoding
  <2> QED
    BY <2>1, QuietHolds
<1>7. CASE Decoded
  <2>1. Types' /\ window' = window /\ ~Decoding'
    BY <1>1, <1>7 DEF Decoded, Types, window, Decoding
  <2> QED
    BY <2>1, QuietHolds
<1>8. CASE Rename
  <2>1. Types' /\ window' = window /\ ~Decoding'
    BY <1>1, <1>8 DEF Rename, Types, window, Decoding
  <2> QED
    BY <2>1, QuietHolds
<1>9. CASE ReadFlag
  <2>1. rb' \in Seq(Bytes) /\ Len(rb') = 2 /\ at' \in Nat
    BY <1>1, <1>9, ReadsBytes, AfterIsPlace DEF ReadFlag
  <2>2. Types' /\ window' = window /\ Decoding
    BY <1>1, <1>9, <2>1 DEF ReadFlag, Types, window, Decoding
  <2> QED
    BY <2>2, QuietHolds
<1>10. CASE Ended
  <2>1. Types' /\ window' = window /\ Decoding
    BY <1>1, <1>10 DEF Ended, Types, window, Decoding
  <2> QED
    BY <2>1, QuietHolds
<1>11. CASE Literal
  BY <1>11, LiteralHolds
<1>12. CASE Copy
  BY <1>12, CopyHolds
<1>13. CASE CopyByte
  BY <1>13, CopyByteHolds
<1>14. CASE Copied
  <2>1. Types' /\ window' = window /\ Decoding
    BY <1>1, <1>14 DEF Copied, Types, window, Decoding
  <2> QED
    BY <2>1, QuietHolds
<1>15. CASE UNCHANGED vars
  <2>1. Types' /\ window' = window /\ (Decoding' => Decoding)
    BY <1>1, <1>15 DEF vars, main, Types, window, Decoding
  <2> QED
    BY <2>1, QuietHolds
<1> QED
  BY <1>2, <1>3, <1>4, <1>5, <1>6, <1>7, <1>8, <1>9, <1>10, <1>11, <1>12, <1>13, <1>14, <1>15 DEF Next

(* decodeLZ's ring holds the last bytes it has written, in their order,    *)
(* whatever the file, through every wrap and every copy that runs into     *)
(* what it writes.                                                         *)
THEOREM RingIsTheHistory == Spec => []RingIsHistory
<1>1. IInv => RingIsHistory
  BY DEF IInv
<1> QED
  BY InitHolds, StepHolds, <1>1, PTL DEF Spec

-------------------------------------------------------------------------------
(* What is packed. *)

LEMMA QuotientIs ==
  ASSUME NEW c \in Nat \ {0}, NEW q \in Int, NEW r \in 0 .. c - 1
  PROVE  (c * q + r) \div c = q /\ (c * q + r) % c = r
<1> DEFINE a == c * q + r
           d == a \div c
           e == a % c
<1>1. a \in Int /\ c * q \in Int
  OBVIOUS
<1>2. d \in Int /\ e \in 0 .. c - 1 /\ a = c * d + e
  <2> HIDE DEF a
  <2>1. QED
    BY <1>1
<1> HIDE DEF d, e
<1>3. c * d \in Int
  BY <1>2
<1>4. d = q
  <2>1. CASE d < q
    <3>1. c * q >= c * (d + 1)
      BY <1>2, <2>1
    <3>2. c * (d + 1) = c * d + c
      BY <1>2
    <3>3. QED
      BY <1>1, <1>2, <1>3, <3>1, <3>2
  <2>2. CASE d > q
    <3>1. c * d >= c * (q + 1)
      BY <1>2, <2>2
    <3>2. c * (q + 1) = c * q + c
      OBVIOUS
    <3>3. QED
      BY <1>1, <1>2, <1>3, <3>1, <3>2
  <2>3. QED
    BY <1>2, <2>1, <2>2
<1>5. QED
  BY <1>1, <1>2, <1>3, <1>4 DEF d, e

LEMMA Division ==
  ASSUME NEW c \in Nat \ {0}, NEW a \in Int
  PROVE  a \div c \in Int /\ a % c \in 0 .. c - 1 /\ a = c * (a \div c) + (a % c)
OBVIOUS

(* Whole turns of a ring make no difference.                               *)
LEMMA Turns ==
  ASSUME NEW c \in Nat \ {0}, NEW a \in Int, NEW q \in Int
  PROVE  (a + c * q) % c = a % c
<1> DEFINE d == a \div c
           e == a % c
<1>1. d \in Int /\ e \in 0 .. c - 1 /\ a = c * d + e
  BY Division
<1> HIDE DEF d, e
<1>2. a + c * q = c * (d + q) + e
  <2>1. c * (d + q) = c * d + c * q /\ c * d \in Int /\ c * q \in Int
    BY <1>1
  <2>2. QED
    BY <1>1, <2>1
<1>3. (c * (d + q) + e) % c = e
  BY <1>1, QuotientIs
<1>4. QED
  BY <1>2, <1>3 DEF e

(* Place by place around a ring. *)
LEMMA StepAround ==
  ASSUME NEW c \in Nat \ {0}, NEW a \in Int, NEW b \in Int
  PROVE  ((a % c) + b) % c = (a + b) % c
<1> DEFINE d == a \div c
           e == a % c
<1>1. d \in Int /\ e \in 0 .. c - 1 /\ a = c * d + e
  BY Division
<1> HIDE DEF d, e
<1>2. c * d \in Int /\ a + b = (e + b) + c * d
  BY <1>1
<1>3. ((e + b) + c * d) % c = (e + b) % c
  <2>1. e + b \in Int
    BY <1>1
  <2>2. QED
    BY <1>1, <2>1, Turns
<1>4. QED
  BY <1>2, <1>3 DEF e

(* The tokens behind a flag. *)
LEMMA NextGroup ==
  ASSUME NEW k \in Nat \ {0}
  PROVE  /\ Group(k) \in 0 .. FLAGS - 1
         /\ Group(k + 1) = IF Group(k) + 1 = FLAGS THEN 0 ELSE Group(k) + 1
<1>1. FLAGS \in Nat \ {0}
  BY RingLzAssumption
<1> DEFINE g == (k - 1) % FLAGS
<1>2. g \in 0 .. FLAGS - 1
  BY <1>1
<1>3. (g + 1) % FLAGS = ((k - 1) + 1) % FLAGS
  <2> DEFINE a == k - 1
  <2>1. a \in Int /\ 1 \in Int
    OBVIOUS
  <2> HIDE DEF a
  <2>2. ((a % FLAGS) + 1) % FLAGS = (a + 1) % FLAGS
    BY <1>1, <2>1, StepAround
  <2>3. QED
    BY <2>2 DEF a
<1>4. (k - 1) + 1 = (k + 1) - 1
  OBVIOUS
<1> HIDE DEF g
<1>5. (g + 1) % FLAGS = IF g + 1 < FLAGS THEN g + 1 ELSE 0
  BY <1>1, <1>2, Following
<1>6. QED
  BY <1>1, <1>2, <1>3, <1>4, <1>5 DEF g, Group

(* A flag is shifted bit by bit. *)
LEMMA Halved ==
  ASSUME NEW f \in Nat, NEW c \in Nat \ {0}
  PROVE  (f \div c) \div 2 = f \div (2 * c)
<1> DEFINE d == f \div c
           e == f % c
           h == d \div 2
           o == d % 2
<1>1. d \in Int /\ e \in 0 .. c - 1 /\ f = c * d + e
  BY Division
<1> HIDE DEF d, e
<1>2. h \in Int /\ o \in 0 .. 1 /\ d = 2 * h + o
  BY <1>1
<1> HIDE DEF h, o
<1>3. 2 * c \in Nat \ {0} /\ c * o + e \in 0 .. 2 * c - 1
  <2>1. CASE o = 0
    BY <1>1, <2>1
  <2>2. CASE o = 1
    BY <1>1, <2>2
  <2>3. QED
    BY <1>2, <2>1, <2>2
<1>4. f = (2 * c) * h + (c * o + e)
  <2>1. c * (2 * h + o) = (2 * c) * h + c * o
    BY <1>2
  <2>2. (2 * c) * h \in Int /\ c * o \in Int
    BY <1>2
  <2>3. QED
    BY <1>1, <1>2, <2>1, <2>2
<1>5. f \div (2 * c) = h
  BY <1>2, <1>3, <1>4, QuotientIs
<1>6. QED
  BY <1>5 DEF d, h

LEMMA NextShift ==
  ASSUME NEW f \in Nat, NEW g \in 0 .. FLAGS
  PROVE  (f \div 2^g) \div 2 = f \div 2^(g + 1)
BY Halved, RingLzAssumption

(* The two bytes of a copy give its address and its length.                *)
LEMMA CopyIs ==
  ASSUME NEW addr \in 0 .. DICT - 1, NEW len \in 3 .. NIBBLE + 2,
         NEW b \in Int, NEW c \in Int,
         b = addr % BYTE, c = (addr \div BYTE) * NIBBLE + len - 3
  PROVE  (c % NIBBLE) + 3 = len /\ (c \div NIBBLE) * BYTE + b = addr
<1>1. NIBBLE \in Nat \ {0} /\ BYTE \in Nat \ {0} /\ DICT \in Nat
  BY Sizes, RingLzAssumption
<1> DEFINE q == addr \div BYTE
<1>2. q \in Int /\ addr = BYTE * q + b
  BY <1>1, Division
<1> HIDE DEF q
<1>3. len - 3 \in 0 .. NIBBLE - 1
  BY <1>1
<1>4. c = NIBBLE * q + (len - 3)
  <2>1. q * NIBBLE = NIBBLE * q /\ NIBBLE * q \in Int
    BY <1>1, <1>2
  <2>2. QED
    BY <1>1, <1>3, <2>1 DEF q
<1>5. c \div NIBBLE = q /\ c % NIBBLE = len - 3
  <2> DEFINE r == len - 3
  <2> HIDE DEF q, r
  <2>1. r \in 0 .. NIBBLE - 1 /\ c = NIBBLE * q + r
    BY <1>3, <1>4 DEF r
  <2>2. (NIBBLE * q + r) \div NIBBLE = q /\ (NIBBLE * q + r) % NIBBLE = r
    BY <1>1, <1>2, <2>1, QuotientIs, Zenon
  <2>3. QED
    BY <2>1, <2>2, Zenon DEF r
<1>6. q * BYTE = BYTE * q
  BY <1>1, <1>2
<1>7. QED
  BY <1>1, <1>2, <1>5, <1>6

-------------------------------------------------------------------------------
(* Where a decoding of the archive p packs stands. *)

Exact == input.whole /\ ~Program.several
Plain == input.plain[1]

AsPlain == \A m \in 1 .. Len(out) : m <= Len(Plain) => out[m] = Plain[m]

(* All of the text is written; of an archive that is whole and alone, no   *)
(* more than that.                                                         *)
All ==
  /\ Len(out) >= Len(Plain)
  /\ Exact => pc \in {"while", "decoded"} /\ Len(out) = Len(Plain)

(* The flag as the tokens before the k-th leave it.                        *)
Shifted(p, k) == i = Group(k) /\ flag = FlagByte(input, p, k) \div 2^Group(k)

(* The k-th token is the next to be read, or a copy and being carried out. *)
At(p, k) ==
  /\ readed_byte = at - HEAD
  /\ \/ pc = "while" /\ Group(k) = 0 /\ at = p.at[k] /\ Len(out) = p.to[k]
     \/ pc = "token" /\ Shifted(p, k) /\ at = Place(p, k) /\ Len(out) = p.to[k]
     \/ /\ pc = "copy" /\ Shifted(p, k) /\ at = p.at[k + 1]
        /\ p.text[k].kind = "copy"
        /\ decode_startaddr = p.text[k].addr /\ decode_length = p.text[k].len
        /\ j \in 0 .. p.text[k].len /\ Len(out) = p.to[k] + j

Underway(p) ==
  /\ in_size = Len(file) - HEAD /\ out_size = HeaderAt(input, 0)
  /\ dic_pos = (Start + Len(out)) % DICT
  /\ AsPlain
  /\ All \/ \E k \in 1 .. Len(p.text) : At(p, k)

FirstOf(p) ==
  /\ pc \in {"start", "open"} => at = 0
  /\ pc = "open" => filesize = Len(file)
  /\ Decoding => Underway(p)

TextInv ==
  /\ members \in Seq(Seq(Bytes))
  /\ \E p : Packs(input, p) /\ (members = <<>> => FirstOf(p))
  /\ DecodesWhatIsThere

-------------------------------------------------------------------------------
(* A packing in numbers. *)

LEMMA InputFile == ASSUME Types PROVE file \in Seq(Bytes) /\ file = input.file /\ Len(file) \in Nat
BY RingLzAssumption DEF Types, file, Bytes

LEMMA PackedTokens ==
  ASSUME Types, NEW p, Packs(input, p)
  PROVE  /\ Len(p.text) \in Nat
         /\ \A k \in 1 .. Len(p.text) + 1 : p.at[k] \in Nat /\ p.to[k] \in Nat
         /\ p.at[1] = HEAD /\ p.to[1] = 0
         /\ Plain \in Seq(Bytes) /\ Len(Plain) = p.to[Len(p.text) + 1] /\ Len(Plain) \in Nat
         /\ HEAD <= Len(file) /\ Len(file) - HEAD < UINT
         /\ HeaderAt(input, 0) \in Nat /\ HeaderAt(input, 0) >= Len(Plain)
         /\ Exact => Len(file) = p.at[Len(p.text) + 1] /\ HeaderAt(input, 0) = Len(Plain)
<1> DEFINE n == Len(p.text)
<1>1. n \in Nat
  <2>1. p.text \in Seq(Tokens)
    BY DEF Packs
  <2>2. QED
    BY <2>1
<1>2. /\ p.at \in [1 .. n + 1 -> Nat] /\ p.to \in [1 .. n + 1 -> Nat]
      /\ p.at[1] = HEAD /\ p.to[1] = 0
      /\ Plain \in Seq(Bytes) /\ Len(Plain) = p.to[n + 1]
      /\ Len(file) \in HEAD .. HEAD + UINT - 1
      /\ HeaderAt(input, 0) \in Nat /\ HeaderAt(input, 0) >= p.to[n + 1]
      /\ Exact => Len(file) = p.at[n + 1] /\ HeaderAt(input, 0) = p.to[n + 1]
  BY DEF Packs, Plain, Bytes, file, Exact, Program, prog
<1>3. Len(Plain) \in Nat
  BY <1>2
<1>4. Len(file) \in Nat /\ HEAD \in Nat /\ UINT \in Nat
  BY InputFile, RingLzAssumption
<1> HIDE DEF n
<1>5. QED
  BY <1>1, <1>2, <1>3, <1>4 DEF n

(* Every token lies in the file and stands for something.                  *)
LEMMA PackedToken ==
  ASSUME Types, NEW p, Packs(input, p), NEW k \in 1 .. Len(p.text)
  PROVE  /\ k \in Nat \ {0} /\ k + 1 \in 1 .. Len(p.text) + 1
         /\ p.at[k] \in Nat /\ p.at[k + 1] \in Nat /\ p.to[k] \in Nat /\ p.to[k + 1] \in Nat
         /\ Place(p, k) \in Nat /\ p.at[k] <= Place(p, k) /\ Place(p, k) < p.at[k + 1]
         /\ Group(k) = 0 => Place(p, k) = p.at[k] + 1
         /\ Group(k) # 0 => Place(p, k) = p.at[k]
         /\ p.at[k + 1] <= Len(file)
         /\ p.to[k] < p.to[k + 1] /\ p.to[k + 1] <= Len(Plain)
         /\ p.text[k] \in Tokens
         /\ p.text[k].kind = "byte" => PacksByte(input, p, k)
         /\ p.text[k].kind = "copy" => PacksCopy(input, p, k)
         /\ p.text[k].kind \in {"byte", "copy"}
<1>1. /\ Len(p.text) \in Nat
      /\ \A m \in 1 .. Len(p.text) + 1 : p.at[m] \in Nat /\ p.to[m] \in Nat
  BY PackedTokens
<1>2. k \in Nat \ {0} /\ k + 1 \in 1 .. Len(p.text) + 1 /\ k \in 1 .. Len(p.text) + 1
  BY <1>1
<1>3. p.text[k] \in Tokens
  <2>1. p.text \in Seq(Tokens)
    BY DEF Packs
  <2>2. QED
    BY <2>1, Element
<1>4. p.text[k].kind \in {"byte", "copy"}
  BY <1>3 DEF Tokens
<1>5. /\ IF p.text[k].kind = "byte" THEN PacksByte(input, p, k) ELSE PacksCopy(input, p, k)
      /\ p.at[k + 1] <= Len(file) /\ p.to[k + 1] <= Len(Plain)
  BY DEF Packs, file, Plain
<1>6. Place(p, k) = IF Group(k) = 0 THEN p.at[k] + 1 ELSE p.at[k]
  BY DEF Place
<1>7. p.at[k] \in Nat /\ p.at[k + 1] \in Nat /\ p.to[k] \in Nat /\ p.to[k + 1] \in Nat
  BY <1>1, <1>2, Zenon
<1>8. p.text[k].kind = "byte" => PacksByte(input, p, k)
  BY <1>5
<1>9. p.text[k].kind = "copy" => PacksCopy(input, p, k)
  BY <1>5
<1>10. Place(p, k) \in Nat /\ p.at[k] <= Place(p, k)
  BY <1>6, <1>7
<1>11. Place(p, k) < p.at[k + 1] /\ p.to[k] < p.to[k + 1]
  <2>1. CASE p.text[k].kind = "byte"
    <3>1. p.at[k + 1] = Place(p, k) + 1 /\ p.to[k + 1] = p.to[k] + 1
      BY <1>8, <2>1 DEF PacksByte
    <3>2. QED
      BY <1>7, <1>10, <3>1
  <2>2. CASE p.text[k].kind = "copy"
    <3>1. p.at[k + 1] = Place(p, k) + 2 /\ p.to[k + 1] = p.to[k] + p.text[k].len
      BY <1>9, <2>2 DEF PacksCopy
    <3>2. p.text[k].len \in Int /\ p.text[k].len >= 3
      <4>1. p.text[k].len \in 3 .. NIBBLE + 2
        BY <1>3, <2>2 DEF Tokens
      <4>2. QED
        BY <4>1, RingLzAssumption
    <3>3. QED
      BY <1>7, <1>10, <3>1, <3>2
  <2>3. QED
    BY <1>4, <2>1, <2>2
<1>12. QED
  BY <1>2, <1>3, <1>4, <1>5, <1>6, <1>7, <1>8, <1>9, <1>10, <1>11, Zenon

(* While tokens are to come there is more to read and to write.            *)
LEMMA MoreToCome ==
  ASSUME Types, NEW p, Packs(input, p), NEW k \in 1 .. Len(p.text),
         in_size = Len(file) - HEAD, out_size = HeaderAt(input, 0)
  PROVE  /\ p.at[k] - HEAD < in_size /\ p.to[k] < out_size
         /\ in_size \in Nat /\ out_size \in Nat
<1>1. /\ HEAD <= Len(file) /\ Len(Plain) \in Nat
      /\ HeaderAt(input, 0) \in Nat /\ HeaderAt(input, 0) >= Len(Plain)
  BY PackedTokens
<1>2. /\ p.at[k] \in Nat /\ p.at[k + 1] \in Nat /\ p.to[k] \in Nat /\ p.to[k + 1] \in Nat
      /\ Place(p, k) \in Nat /\ p.at[k] <= Place(p, k) /\ Place(p, k) < p.at[k + 1]
      /\ p.at[k + 1] <= Len(file)
      /\ p.to[k] < p.to[k + 1] /\ p.to[k + 1] <= Len(Plain)
  BY PackedToken
<1>3. Len(file) \in Nat /\ HEAD \in Nat
  BY InputFile, RingLzAssumption
<1>4. in_size \in Nat /\ out_size \in Nat
  BY <1>1, <1>3
<1>5. p.at[k] < Len(file)
  BY <1>2, <1>3
<1>6. p.to[k] < Len(Plain)
  BY <1>1, <1>2
<1>7. out_size >= Len(Plain)
  BY <1>1
<1>8. p.at[k] - HEAD < in_size
  BY <1>2, <1>3, <1>5
<1>9. p.to[k] < out_size
  BY <1>1, <1>2, <1>4, <1>6, <1>7
<1>10. QED
  BY <1>4, <1>8, <1>9

(* What fread delivers where the bytes are.                                *)
LEMMA ReadsWhatIsThere ==
  ASSUME Types, NEW n \in {1, 2}, at + n <= Len(file)
  PROVE  /\ After(n) = at + n
         /\ \A k \in 1 .. n : Fread(rb, n)[k] = file[at + k]
<1>1. Len(file) \in Nat /\ at \in Nat /\ Len(rb) = 2
  BY InputFile DEF Types
<1>2. \A k \in 1 .. n : k \in 1 .. 2 /\ at + k <= Len(file)
  BY <1>1
<1>3. Fread(rb, n) = [k \in 1 .. 2 |-> IF k <= n /\ at + k <= Len(file) THEN file[at + k] ELSE rb[k]]
  BY <1>1 DEF Fread
<1>4. QED
  BY <1>1, <1>2, <1>3 DEF After

(* A byte more. *)
LEMMA OneByteMore ==
  ASSUME Types, RingIsHistory, Decoding, NEW b \in Bytes, Emit(b),
         dic_pos = (Start + Len(out)) % DICT
  PROVE  /\ Len(out) \in Nat /\ Len(out') = Len(out) + 1 /\ decode_byte' = Len(out')
         /\ \A m \in 1 .. Len(out) : out'[m] = out[m]
         /\ out'[Len(out) + 1] = b
         /\ dic_pos' = (Start + Len(out')) % DICT
<1>1. out \in Seq(Bytes) /\ out' = Append(out, b) /\ decode_byte = Len(out)
  BY DEF Types, Emit, RingIsHistory, Decoding
<1>2. /\ Len(out) \in Nat /\ Len(out') = Len(out) + 1
      /\ \A m \in 1 .. Len(out) : out'[m] = out[m]
      /\ out'[Len(out) + 1] = b
  BY <1>1
<1>3. decode_byte' = Len(out')
  BY <1>1, <1>2 DEF Emit
<1>4. dic_pos' = (Start + Len(out')) % DICT
  <2> DEFINE a == Start + Len(out)
  <2>1. a \in Int /\ 1 \in Int /\ DICT \in Nat \ {0} /\ a + 1 = Start + Len(out')
    BY <1>2, Sizes
  <2> HIDE DEF a
  <2>2. ((a % DICT) + 1) % DICT = (a + 1) % DICT
    BY <2>1, StepAround
  <2>3. dic_pos' = (dic_pos + 1) % DICT
    BY DEF Emit
  <2>4. QED
    BY <2>1, <2>2, <2>3 DEF a
<1>5. QED
  BY <1>2, <1>3, <1>4

(* What is written stays the text when its next byte is the text's.        *)
LEMMA StaysPlain ==
  ASSUME Types, NEW p, Packs(input, p), AsPlain, input' = input, NEW b,
         Len(out) \in Nat, Len(out') = Len(out) + 1,
         \A m \in 1 .. Len(out) : out'[m] = out[m], out'[Len(out) + 1] = b,
         Len(out) < Len(Plain) => b = Plain[Len(out) + 1]
  PROVE  AsPlain'
<1>1. Plain' = Plain /\ Len(Plain) \in Nat
  BY PackedTokens DEF Plain
<1>2. SUFFICES ASSUME NEW m \in 1 .. Len(out) + 1, m <= Len(Plain) PROVE out'[m] = Plain[m]
  BY <1>1 DEF AsPlain
<1>3. CASE m \in 1 .. Len(out)
  BY <1>2, <1>3 DEF AsPlain
<1>4. CASE m = Len(out) + 1
  BY <1>1, <1>2, <1>4
<1>5. QED
  BY <1>3, <1>4

LEMMA GroupWithin == ASSUME NEW k \in Nat \ {0} PROVE Group(k) \in 0 .. k - 1
<1> DEFINE a == k - 1
<1>1. a \in Nat /\ FLAGS \in Nat \ {0}
  BY RingLzAssumption
<1> HIDE DEF a
<1>2. a % FLAGS \in Nat /\ a % FLAGS <= a
  BY <1>1
<1>3. QED
  BY <1>1, <1>2 DEF a, Group

(* The flag byte of a token is in the file.                                *)
LEMMA FlagByteIs ==
  ASSUME Types, NEW p, Packs(input, p), NEW k \in 1 .. Len(p.text)
  PROVE  FlagByte(input, p, k) \in Nat
<1> DEFINE g == k - Group(k)
<1>1. Len(p.text) \in Nat /\ k \in Nat \ {0} /\ Group(k) \in 0 .. k - 1
  BY PackedTokens, PackedToken, GroupWithin
<1>2. g \in 1 .. Len(p.text)
  BY <1>1
<1> HIDE DEF g
<1>3. p.at[g] \in Nat /\ p.at[g] < p.at[g + 1] /\ p.at[g + 1] <= Len(file) /\ p.at[g + 1] \in Nat
  <2>1. /\ p.at[g] \in Nat /\ p.at[g + 1] \in Nat /\ Place(p, g) \in Nat
        /\ p.at[g] <= Place(p, g) /\ Place(p, g) < p.at[g + 1] /\ p.at[g + 1] <= Len(file)
    BY <1>2, PackedToken
  <2>2. QED
    BY <2>1
<1>4. p.at[g] + 1 \in 1 .. Len(file)
  BY <1>3, InputFile
<1>5. file[p.at[g] + 1] \in Bytes
  BY <1>4, InputFile, Element
<1>6. FlagByte(input, p, k) = file[p.at[g] + 1]
  BY DEF FlagByte, file, g
<1>7. Bytes \subseteq Nat
  BY Sizes DEF Bytes
<1>8. QED
  BY <1>5, <1>6, <1>7

(* The flag is what its byte says of the next token.                       *)
LEMMA FlagTells ==
  ASSUME Types, NEW p, Packs(input, p), NEW k \in 1 .. Len(p.text), Shifted(p, k)
  PROVE  /\ flag % 2 = 1 => p.text[k].kind = "byte"
         /\ flag % 2 = 0 => p.text[k].kind = "copy"
<1>1. flag % 2 = FlagBit(input, p, k)
  BY DEF Shifted, FlagBit
<1>2. p.text[k].kind = "byte" => FlagBit(input, p, k) = 1
  BY PackedToken DEF PacksByte
<1>3. p.text[k].kind = "copy" => FlagBit(input, p, k) = 0
  BY PackedToken DEF PacksCopy
<1>4. p.text[k].kind \in {"byte", "copy"}
  BY PackedToken
<1>5. QED
  BY <1>1, <1>2, <1>3, <1>4

(* Behind a token comes the next one, or the next flag, or the end.        *)
LEMMA TokenDone ==
  ASSUME Types, NEW p, Packs(input, p), NEW k \in 1 .. Len(p.text),
         input' = input, in_size = Len(file) - HEAD, out_size = HeaderAt(input, 0),
         Shifted(p, k), NextBit(readed_byte'), readed_byte' = at' - HEAD,
         at' = p.at[k + 1], Len(out') = p.to[k + 1]
  PROVE  All' \/ \E m \in 1 .. Len(p.text) : At(p, m)'
<1> DEFINE n == Len(p.text)
<1>1. /\ n \in Nat /\ k \in Nat \ {0} /\ k + 1 \in 1 .. n + 1
      /\ Plain' = Plain /\ Exact' = Exact /\ Len(Plain) = p.to[n + 1]
      /\ Exact => Len(file) = p.at[n + 1]
      /\ FLAGS \in Nat \ {0} /\ HEAD \in Nat /\ Len(file) \in Nat
      /\ p.at[k + 1] \in Nat /\ Len(Plain) \in Nat
  BY PackedTokens, PackedToken, InputFile, RingLzAssumption DEF Plain, Exact, Program, prog
<1>2. /\ flag' = flag \div 2 /\ i' = i + 1
      /\ pc' = IF readed_byte' >= in_size \/ i + 1 = FLAGS THEN "while" ELSE "token"
  BY DEF NextBit
<1>3. CASE k = n
  <2>1. Len(out') = Len(Plain)
    BY <1>1, <1>3
  <2>2. Exact => pc' = "while"
    BY <1>1, <1>2, <1>3
  <2>3. QED
    BY <1>1, <2>1, <2>2 DEF All
<1>4. CASE k # n
  <2> DEFINE m == k + 1
  <2>1. m \in 1 .. n
    BY <1>1, <1>4
  <2>2. readed_byte' < in_size /\ in_size \in Nat /\ readed_byte' \in Int
    <3>1. p.at[m] - HEAD < in_size /\ in_size \in Nat
      BY <2>1, MoreToCome
    <3>2. QED
      BY <1>1, <3>1
  <2>3. Group(k) \in 0 .. FLAGS - 1 /\ Group(m) = IF Group(k) + 1 = FLAGS THEN 0 ELSE Group(k) + 1
    BY <1>1, NextGroup
  <2>4. pc' = IF Group(k) + 1 = FLAGS THEN "while" ELSE "token"
    BY <1>2, <2>2 DEF Shifted
  <2>5. CASE Group(k) + 1 = FLAGS
    BY <2>1, <2>3, <2>4, <2>5 DEF At
  <2>6. CASE Group(k) + 1 # FLAGS
    <3>1. pc' = "token" /\ Group(m) = Group(k) + 1 /\ Group(m) # 0
      BY <2>3, <2>4, <2>6
    <3>2. Place(p, m) = p.at[m]
      BY <3>1 DEF Place
    <3>3. FlagByte(input, p, m) = FlagByte(input, p, k)
      <4>1. m - Group(m) = k - Group(k)
        BY <1>1, <2>3, <3>1
      <4>2. QED
        BY <4>1 DEF FlagByte
    <3>4. flag' = FlagByte(input, p, k) \div 2^(Group(k) + 1)
      <4>1. Group(k) \in 0 .. FLAGS /\ FlagByte(input, p, k) \in Nat
        BY <1>1, <2>3, FlagByteIs
      <4>2. QED
        BY <1>2, <4>1, NextShift DEF Shifted
    <3>5. Shifted(p, m)'
      <4>1. i' = Group(m)
        BY <1>2, <3>1 DEF Shifted
      <4>2. QED
        BY <3>1, <3>3, <3>4, <4>1 DEF Shifted
    <3>6. QED
      BY <2>1, <3>1, <3>2, <3>5 DEF At
  <2>7. QED
    BY <2>5, <2>6
<1>5. QED
  BY <1>3, <1>4

(* Behind the text anything may come, unless the archive is whole and      *)
(* alone.                                                                  *)
LEMMA MoreThanAll ==
  ASSUME Types, NEW p, Packs(input, p), input' = input, All, ~Exact, Len(out) \in Nat,
         Len(out') \in Nat, Len(out') >= Len(out)
  PROVE  All'
<1>1. Plain' = Plain /\ Exact' = Exact /\ Len(Plain) \in Nat
  BY PackedTokens DEF Plain, Exact, Program, prog
<1>2. QED
  BY <1>1 DEF All

(* A flag is read. *)
LEMMA ReadFlagUnderway ==
  ASSUME IInv, NEW p, Packs(input, p), Underway(p), ReadFlag
  PROVE  Underway(p)'
<1>1. Types /\ decode_byte = Len(out) /\ Len(out) \in Nat /\ input' = input /\ out' = out
  BY DEF IInv, RingIsHistory, ReadFlag, Types, window
<1>2. /\ in_size' = Len(file') - HEAD /\ out_size' = HeaderAt(input', 0)
      /\ dic_pos' = (Start' + Len(out')) % DICT
      /\ AsPlain'
  BY <1>1 DEF Underway, ReadFlag, window, file, Start, Program, prog, AsPlain, Plain
<1>3. CASE All
  <2>1. ~Exact
    <3>1. SUFFICES ASSUME Exact PROVE FALSE
      OBVIOUS
    <3>2. out_size = Len(Plain) /\ Len(out) = Len(Plain) /\ Len(Plain) \in Nat
      BY <1>1, <1>3, <3>1, PackedTokens DEF All, Underway
    <3>3. decode_byte < out_size
      BY DEF ReadFlag
    <3>4. QED
      BY <1>1, <3>2, <3>3
  <2>2. QED
    BY <1>1, <1>2, <1>3, <2>1, MoreThanAll DEF Underway
<1>4. ASSUME NEW k \in 1 .. Len(p.text), At(p, k) PROVE At(p, k)'
  <2>1. Group(k) = 0 /\ at = p.at[k] /\ Len(out) = p.to[k] /\ readed_byte = at - HEAD
    BY <1>4 DEF At, ReadFlag
  <2>2. /\ k \in Nat /\ p.at[k] \in Nat /\ p.at[k + 1] \in Nat /\ Place(p, k) = p.at[k] + 1
        /\ Place(p, k) < p.at[k + 1] /\ p.at[k + 1] <= Len(file)
    BY <1>1, <2>1, PackedToken
  <2>3. at + 1 <= Len(file) /\ Len(file) \in Nat
    BY <1>1, <2>1, <2>2, InputFile
  <2>4. After(1) = at + 1 /\ Fread(rb, 1)[1] = file[at + 1]
    BY <1>1, <2>3, ReadsWhatIsThere
  <2>5. /\ pc' = "token" /\ i' = 0 /\ at' = at + 1 /\ flag' = file[at + 1]
        /\ readed_byte' = readed_byte + 1
    BY <2>4 DEF ReadFlag
  <2>6. FlagByte(input, p, k) = file[at + 1]
    BY <2>1, <2>2 DEF FlagByte, file
  <2>7. FlagByte(input, p, k) \div 2^0 = FlagByte(input, p, k)
    <3>1. FlagByte(input, p, k) \in Nat
      BY <1>1, FlagByteIs
    <3>2. QED
      BY <3>1, RingLzAssumption
  <2>8. Shifted(p, k)'
    BY <1>1, <2>1, <2>5, <2>6, <2>7 DEF Shifted
  <2>9. readed_byte' = at' - HEAD
    BY <1>1, <2>1, <2>2, <2>5, RingLzAssumption
  <2>10. QED
    BY <1>1, <2>1, <2>2, <2>5, <2>8, <2>9 DEF At
<1>5. QED
  BY <1>2, <1>3, <1>4 DEF Underway

(* The loop ends when all is written, and not before.                      *)
LEMMA EndedUnderway ==
  ASSUME IInv, NEW p, Packs(input, p), Underway(p), Ended
  PROVE  Underway(p)'
<1>1. Types /\ decode_byte = Len(out) /\ input' = input /\ out' = out /\ Exact' = Exact /\ Plain' = Plain
  BY DEF IInv, RingIsHistory, Ended, window, Exact, Plain, Program, prog
<1>2. /\ in_size' = Len(file') - HEAD /\ out_size' = HeaderAt(input', 0)
      /\ dic_pos' = (Start' + Len(out')) % DICT
      /\ AsPlain'
  BY <1>1 DEF Underway, Ended, window, file, Start, Program, prog, AsPlain
<1>3. ASSUME NEW k \in 1 .. Len(p.text), At(p, k) PROVE FALSE
  <2>1. at = p.at[k] /\ Len(out) = p.to[k] /\ readed_byte = at - HEAD
    BY <1>3 DEF At, Ended
  <2>2. p.at[k] - HEAD < in_size /\ p.to[k] < out_size /\ in_size \in Nat /\ out_size \in Nat
    BY <1>1, MoreToCome DEF Underway
  <2>3. p.at[k] \in Nat /\ p.to[k] \in Nat /\ HEAD \in Nat
    BY <1>1, PackedToken, RingLzAssumption
  <2>4. readed_byte <= in_size /\ decode_byte < out_size
    BY <1>1, <2>1, <2>2, <2>3
  <2>5. QED
    BY <2>4 DEF Ended
<1>4. All'
  BY <1>1, <1>3 DEF Underway, All, Ended
<1>5. QED
  BY <1>2, <1>4 DEF Underway

(* A byte of the text is written. *)
LEMMA LiteralUnderway ==
  ASSUME IInv, NEW p, Packs(input, p), Underway(p), Literal
  PROVE  Underway(p)'
<1> DEFINE b == Fread(rb, 1)[1]
<1>1. /\ Types /\ RingIsHistory /\ Decoding /\ input' = input /\ Exact' = Exact /\ Plain' = Plain
      /\ file' = file
  BY DEF IInv, Literal, Decoding, Exact, Plain, Program, prog, file
<1>2. b \in Bytes /\ Emit(b)
  <2>1. Fread(rb, 1) \in Seq(Bytes) /\ Len(Fread(rb, 1)) = 2
    BY <1>1, ReadsBytes
  <2>2. 1 \in 1 .. Len(Fread(rb, 1))
    BY <2>1
  <2>3. b \in Bytes
    BY <2>1, <2>2, Element
  <2>4. QED
    BY <2>3 DEF Literal
<1> HIDE DEF b
<1>3. /\ Len(out) \in Nat /\ Len(out') = Len(out) + 1 /\ decode_byte' = Len(out')
      /\ \A m \in 1 .. Len(out) : out'[m] = out[m]
      /\ out'[Len(out) + 1] = b
      /\ dic_pos' = (Start + Len(out')) % DICT
  BY <1>1, <1>2, OneByteMore DEF Underway
<1>4. /\ in_size' = Len(file') - HEAD /\ out_size' = HeaderAt(input', 0)
      /\ dic_pos' = (Start' + Len(out')) % DICT
  BY <1>1, <1>3 DEF Underway, Literal, Start, Program, prog
<1>5. Len(Plain) \in Nat /\ HeaderAt(input, 0) \in Nat /\ HeaderAt(input, 0) >= Len(Plain)
  BY <1>1, PackedTokens
<1>6. CASE All
  <2>1. ~Exact
    BY <1>6 DEF All, Literal
  <2>2. All'
    BY <1>1, <1>3, <1>6, <2>1, MoreThanAll
  <2>3. Len(out) >= Len(Plain)
    BY <1>6 DEF All
  <2>4. AsPlain'
    BY <1>1, <1>3, <1>5, <2>3, StaysPlain DEF Underway
  <2>5. QED
    BY <1>4, <2>2, <2>4 DEF Underway
<1>7. ASSUME NEW k \in 1 .. Len(p.text), At(p, k) PROVE Underway(p)'
  <2>1. Shifted(p, k) /\ at = Place(p, k) /\ Len(out) = p.to[k] /\ readed_byte = at - HEAD
    BY <1>7 DEF At, Literal
  <2>2. PacksByte(input, p, k)
    BY <1>1, <2>1, FlagTells, PackedToken DEF Literal
  <2>3. /\ Place(p, k) \in Nat /\ p.at[k + 1] = Place(p, k) + 1 /\ p.at[k + 1] <= Len(file)
        /\ p.to[k] \in Nat /\ p.to[k + 1] = p.to[k] + 1
        /\ file[Place(p, k) + 1] = Plain[p.to[k] + 1]
    BY <1>1, <2>2, PackedToken DEF PacksByte, file, Plain
  <2>4. at + 1 <= Len(file)
    BY <2>1, <2>3
  <2>5. After(1) = at + 1 /\ b = file[at + 1]
    BY <1>1, <2>4, ReadsWhatIsThere DEF b
  <2>6. AsPlain'
    BY <1>1, <1>3, <2>1, <2>3, <2>5, StaysPlain DEF Underway
  <2>7. at' = p.at[k + 1] /\ Len(out') = p.to[k + 1] /\ readed_byte' = at' - HEAD
    <3>1. at' = at + 1 /\ readed_byte' = readed_byte + 1
      BY <2>5 DEF Literal
    <3>2. QED
      BY <1>1, <1>3, <2>1, <2>3, <3>1, RingLzAssumption
  <2>8. CASE Program.several /\ decode_byte' >= out_size
    <3>1. ~Exact' /\ Len(out') >= Len(Plain)
      BY <1>1, <1>3, <1>5, <2>8 DEF Exact, Underway
    <3>2. QED
      BY <1>1, <1>4, <2>6, <3>1 DEF Underway, All
  <2>9. CASE ~(Program.several /\ decode_byte' >= out_size)
    <3>1. NextBit(readed_byte')
      BY <2>9 DEF Literal
    <3>2. All' \/ \E m \in 1 .. Len(p.text) : At(p, m)'
      BY <1>1, <2>1, <2>7, <3>1, TokenDone DEF Underway
    <3>3. QED
      BY <1>4, <2>6, <3>2 DEF Underway
  <2>10. QED
    BY <2>8, <2>9
<1>8. QED
  BY <1>6, <1>7 DEF Underway

(* The two bytes of a copy are read. *)
LEMMA CopyUnderway ==
  ASSUME IInv, NEW p, Packs(input, p), Underway(p), Copy
  PROVE  Underway(p)'
<1>1. /\ Types /\ Len(out) \in Nat /\ input' = input /\ out' = out /\ Exact' = Exact
      /\ Plain' = Plain /\ file' = file
  BY DEF IInv, Types, Copy, window, Exact, Plain, Program, prog, file
<1>2. /\ in_size' = Len(file') - HEAD /\ out_size' = HeaderAt(input', 0)
      /\ dic_pos' = (Start' + Len(out')) % DICT
      /\ AsPlain'
  BY <1>1 DEF Underway, Copy, window, Start, Program, prog, AsPlain
<1>3. CASE All
  <2>1. ~Exact
    BY <1>3 DEF All, Copy
  <2>2. QED
    BY <1>1, <1>2, <1>3, <2>1, MoreThanAll DEF Underway
<1>4. ASSUME NEW k \in 1 .. Len(p.text), At(p, k) PROVE At(p, k)'
  <2>1. Shifted(p, k) /\ at = Place(p, k) /\ Len(out) = p.to[k] /\ readed_byte = at - HEAD
    BY <1>4 DEF At, Copy
  <2>2. p.text[k].kind = "copy" /\ p.text[k] \in Tokens /\ PacksCopy(input, p, k)
    BY <1>1, <2>1, FlagTells, PackedToken DEF Copy
  <2>3. p.text[k].addr \in 0 .. DICT - 1 /\ p.text[k].len \in 3 .. NIBBLE + 2
    BY <2>2 DEF Tokens
  <2>4. /\ Place(p, k) \in Nat /\ p.at[k + 1] = Place(p, k) + 2 /\ p.at[k + 1] <= Len(file)
        /\ file[Place(p, k) + 1] = p.text[k].addr % BYTE
        /\ file[Place(p, k) + 2] = (p.text[k].addr \div BYTE) * NIBBLE + p.text[k].len - 3
    BY <1>1, <2>2, PackedToken DEF PacksCopy, file
  <2>5. at + 2 <= Len(file)
    BY <2>1, <2>4
  <2>6. /\ After(2) = at + 2
        /\ Fread(rb, 2)[1] = file[at + 1] /\ Fread(rb, 2)[2] = file[at + 2]
    BY <1>1, <2>5, ReadsWhatIsThere
  <2> DEFINE b == Fread(rb, 2)[1]
             c == Fread(rb, 2)[2]
  <2>7. b \in Int /\ c \in Int
    <3> DEFINE f == Fread(rb, 2)
    <3>1. f \in Seq(Bytes) /\ Len(f) = 2
      BY <1>1, ReadsBytes
    <3> HIDE DEF f
    <3>2. 1 \in 1 .. Len(f) /\ 2 \in 1 .. Len(f)
      BY <3>1
    <3>3. f[1] \in Bytes /\ f[2] \in Bytes
      BY <3>1, <3>2, Element
    <3>4. QED
      BY <3>3, Sizes DEF Bytes, f
  <2>8. b = p.text[k].addr % BYTE /\ c = (p.text[k].addr \div BYTE) * NIBBLE + p.text[k].len - 3
    BY <2>1, <2>4, <2>6
  <2>9. /\ pc' = "copy" /\ at' = at + 2 /\ j' = 0 /\ readed_byte' = readed_byte + 2
        /\ decode_length' = (c % NIBBLE) + 3
        /\ decode_startaddr' = (c \div NIBBLE) * BYTE + b
        /\ flag' = flag /\ i' = i
    BY <2>6 DEF Copy
  <2> HIDE DEF b, c
  <2>10. (c % NIBBLE) + 3 = p.text[k].len /\ (c \div NIBBLE) * BYTE + b = p.text[k].addr
    <3> DEFINE addr == p.text[k].addr
               len == p.text[k].len
    <3>1. /\ addr \in 0 .. DICT - 1 /\ len \in 3 .. NIBBLE + 2
          /\ b = addr % BYTE /\ c = (addr \div BYTE) * NIBBLE + len - 3
      BY <2>3, <2>8
    <3> HIDE DEF addr, len
    <3>2. (c % NIBBLE) + 3 = len /\ (c \div NIBBLE) * BYTE + b = addr
      BY <2>7, <3>1, CopyIs
    <3>3. QED
      BY <3>2 DEF addr, len
  <2>11. decode_length' = p.text[k].len /\ decode_startaddr' = p.text[k].addr
    BY <2>9, <2>10, Zenon
  <2>12. Shifted(p, k)'
    BY <1>1, <2>1, <2>9 DEF Shifted
  <2>13. at' = p.at[k + 1] /\ readed_byte' = at' - HEAD
    BY <1>1, <2>1, <2>4, <2>9, RingLzAssumption
  <2>14. j' \in 0 .. p.text[k].len /\ Len(out') = p.to[k] + j'
    <3>1. p.to[k] \in Nat /\ NIBBLE \in Nat
      BY <1>1, PackedToken, RingLzAssumption
    <3>2. QED
      BY <1>1, <2>1, <2>3, <2>9, <3>1
  <2>15. QED
    BY <2>2, <2>9, <2>11, <2>12, <2>13, <2>14 DEF At
<1>5. QED
  BY <1>2, <1>3, <1>4 DEF Underway

(* The place a copy takes its next byte from lies as far back as it says,  *)
(* whether it says so or names a place of the ring.                        *)
LEMMA SourceIsBack ==
  ASSUME Types, NEW p, Packs(input, p), NEW k \in 1 .. Len(p.text), p.text[k].kind = "copy",
         decode_startaddr = p.text[k].addr, Len(out) = p.to[k] + j,
         dic_pos = (Start + Len(out)) % DICT
  PROVE  Back(input, p, k) \in 1 .. DICT /\ Source = (dic_pos - Back(input, p, k)) % DICT
<1> DEFINE addr == p.text[k].addr
           to == p.to[k]
           back == Back(input, p, k)
<1>1. addr \in 0 .. DICT - 1 /\ to \in Nat /\ j \in Int /\ dic_pos \in 0 .. DICT - 1
      /\ DICT \in Nat \ {0} /\ NIBBLE \in Nat
  <2>1. p.text[k] \in Tokens /\ to \in Nat
    BY PackedToken
  <2>2. addr \in 0 .. DICT - 1
    BY <2>1 DEF Tokens
  <2>3. QED
    BY <2>1, <2>2, Sizes, RingLzAssumption DEF Types
<1>2. CASE Program.relative
  <2>1. back = addr + 1 /\ Source = (dic_pos - (addr + 1)) % DICT
    BY <1>2 DEF Back, Source, Program, prog
  <2>2. QED
    BY <1>1, <2>1
<1>3. CASE ~Program.relative
  <2> DEFINE u == DICT - (NIBBLE + 2) + to - addr
             d == u % DICT
             q == u \div DICT
             v == Start + Len(out)
             r == v \div DICT
             z == IF d = 0 THEN 1 ELSE 0
  <2>1. u \in Int /\ v \in Int /\ v = u + addr + j
    <3>1. Start = DICT - (NIBBLE + 2) /\ Len(out) = to + j
      BY <1>3 DEF Start
    <3> HIDE DEF addr, to
    <3>2. QED
      BY <1>1, <3>1
  <2> HIDE DEF u, v
  <2>2. d \in 0 .. DICT - 1 /\ q \in Int /\ u = DICT * q + d
    BY <1>1, <2>1, Division
  <2>3. r \in Int /\ v = DICT * r + dic_pos
    BY <1>1, <2>1, Division DEF v
  <2>4. back = IF d = 0 THEN DICT ELSE d
    BY <1>3 DEF Back, Program, prog, u
  <2>5. Source = (addr + j) % DICT
    BY <1>3 DEF Source
  <2> HIDE DEF d, q, r, addr, to, back
  <2>6. back = DICT * z + d /\ z \in Int /\ back \in 1 .. DICT
    BY <1>1, <2>2, <2>4
  <2> HIDE DEF z
  <2>7. dic_pos - back = (addr + j) + DICT * (q - r - z)
    <3>1. DICT * (q - r - z) = DICT * q - DICT * r - DICT * z
      BY <1>1, <2>2, <2>3, <2>6
    <3>2. DICT * q \in Int /\ DICT * r \in Int /\ DICT * z \in Int
      BY <1>1, <2>2, <2>3, <2>6
    <3>3. QED
      BY <1>1, <2>1, <2>2, <2>3, <2>6, <3>1, <3>2
  <2>8. ((addr + j) + DICT * (q - r - z)) % DICT = (addr + j) % DICT
    <3> DEFINE a == addr + j
               t == q - r - z
    <3>1. a \in Int /\ t \in Int
      BY <1>1, <2>2, <2>3, <2>6
    <3> HIDE DEF a, t
    <3>2. (a + DICT * t) % DICT = a % DICT
      BY <1>1, <3>1, Turns
    <3>3. QED
      BY <3>2 DEF a, t
  <2>9. QED
    BY <2>5, <2>6, <2>7, <2>8 DEF back
<1>4. QED
  BY <1>2, <1>3

(* A byte of a copy is written: the one so far back, which is the text's,  *)
(* also where the copy runs into what it writes.                           *)
LEMMA CopyByteUnderway ==
  ASSUME IInv, NEW p, Packs(input, p), Underway(p), CopyByte
  PROVE  Underway(p)'
<1> DEFINE b == dic[Source]
<1>1. /\ Types /\ RingIsHistory /\ Decoding /\ input' = input /\ Exact' = Exact /\ Plain' = Plain
      /\ file' = file /\ at' = at /\ readed_byte' = readed_byte /\ pc' = pc /\ flag' = flag /\ i' = i
      /\ in_size' = in_size /\ out_size' = out_size
      /\ decode_startaddr' = decode_startaddr /\ decode_length' = decode_length
  BY DEF IInv, CopyByte, Decoding, Exact, Plain, Program, prog, file, main
<1>2. b \in Bytes /\ Emit(b)
  <2>1. dic_pos - (decode_startaddr + 1) \in Int /\ decode_startaddr + j \in Int
    BY <1>1 DEF Types
  <2>2. (dic_pos - (decode_startaddr + 1)) % DICT \in 0 .. DICT - 1
    BY <2>1, ModRange, Sizes
  <2>3. (decode_startaddr + j) % DICT \in 0 .. DICT - 1
    BY <2>1, ModRange, Sizes
  <2>4. b \in Bytes
    BY <1>1, <2>2, <2>3 DEF Source, Types
  <2>5. QED
    BY <2>4 DEF CopyByte
<1> HIDE DEF b
<1>3. /\ Len(out) \in Nat /\ Len(out') = Len(out) + 1 /\ decode_byte' = Len(out')
      /\ \A m \in 1 .. Len(out) : out'[m] = out[m]
      /\ out'[Len(out) + 1] = b
      /\ dic_pos' = (Start + Len(out')) % DICT
  BY <1>1, <1>2, OneByteMore DEF Underway
<1>4. /\ in_size' = Len(file') - HEAD /\ out_size' = HeaderAt(input', 0)
      /\ dic_pos' = (Start' + Len(out')) % DICT
  BY <1>1, <1>3 DEF Underway, Start, Program, prog
<1>5. Len(Plain) \in Nat /\ HeaderAt(input, 0) \in Nat /\ HeaderAt(input, 0) >= Len(Plain)
  BY <1>1, PackedTokens
<1>6. CASE All
  <2>1. ~Exact
    BY <1>6 DEF All, CopyByte
  <2>2. All'
    BY <1>1, <1>3, <1>6, <2>1, MoreThanAll
  <2>3. Len(out) >= Len(Plain)
    BY <1>6 DEF All
  <2>4. AsPlain'
    BY <1>1, <1>3, <1>5, <2>3, StaysPlain DEF Underway
  <2>5. QED
    BY <1>4, <2>2, <2>4 DEF Underway
<1>7. ASSUME NEW k \in 1 .. Len(p.text), At(p, k) PROVE Underway(p)'
  <2> DEFINE back == Back(input, p, k)
  <2>1. /\ Shifted(p, k) /\ at = p.at[k + 1] /\ readed_byte = at - HEAD
        /\ p.text[k].kind = "copy"
        /\ decode_startaddr = p.text[k].addr /\ decode_length = p.text[k].len
        /\ j \in 0 .. p.text[k].len /\ Len(out) = p.to[k] + j /\ pc = "copy"
        /\ j < p.text[k].len
    BY <1>7 DEF At, CopyByte
  <2>2. /\ p.to[k] \in Nat /\ p.to[k + 1] = p.to[k] + p.text[k].len
        /\ p.text[k].len \in Nat /\ p.to[k + 1] <= Len(Plain)
        /\ \A m \in Nat : p.to[k] <= m /\ m < p.to[k + 1] =>
             Plain[m + 1] = IF back <= m THEN Plain[m + 1 - back] ELSE 0
    <3>1. PacksCopy(input, p, k) /\ p.to[k] \in Nat /\ p.text[k] \in Tokens /\ p.to[k + 1] <= Len(Plain)
      BY <1>1, <2>1, PackedToken
    <3>2. p.text[k].len \in 3 .. NIBBLE + 2
      BY <2>1, <3>1 DEF Tokens
    <3>3. QED
      BY <3>1, <3>2, RingLzAssumption DEF PacksCopy, Plain
  <2> DEFINE len == p.text[k].len
             to == p.to[k]
  <2>0. len \in Nat /\ to \in Nat /\ j \in 0 .. len /\ j < len /\ Len(out) = to + j
    BY <2>1, <2>2
  <2>3. p.to[k] <= Len(out) /\ Len(out) < p.to[k + 1] /\ Len(out) < Len(Plain)
    <3>1. p.to[k + 1] = to + len
      BY <2>2
    <3> HIDE DEF len, to
    <3>2. to <= Len(out) /\ Len(out) < to + len
      BY <2>0
    <3>3. to + len <= Len(Plain)
      BY <2>2, <3>1
    <3>4. Len(out) < Len(Plain)
      BY <1>3, <1>5, <2>0, <3>2, <3>3
    <3>5. QED
      BY <3>1, <3>2, <3>4 DEF to
  <2>4. back \in 1 .. DICT /\ Source = (dic_pos - back) % DICT
    BY <1>1, <2>1, SourceIsBack DEF Underway
  <2> HIDE DEF back
  <2>5. b = IF back <= Len(out) THEN out[Len(out) + 1 - back] ELSE 0
    BY <1>1, <2>4 DEF b, RingIsHistory, Decoding, Ago
  <2>6. b = Plain[Len(out) + 1]
    <3>1. Plain[Len(out) + 1] = IF back <= Len(out) THEN Plain[Len(out) + 1 - back] ELSE 0
      BY <1>3, <2>2, <2>3
    <3>2. CASE back <= Len(out)
      <4> DEFINE m == Len(out) + 1 - back
      <4>1. m \in 1 .. Len(out) /\ m <= Len(Plain)
        BY <1>3, <1>5, <2>3, <2>4, <3>2, Sizes
      <4>2. out[m] = Plain[m]
        BY <4>1 DEF Underway, AsPlain
      <4>3. QED
        BY <2>5, <3>1, <3>2, <4>2
    <3>3. QED
      BY <2>5, <3>1, <3>2
  <2>7. AsPlain'
    BY <1>1, <1>3, <2>6, StaysPlain DEF Underway
  <2>8. CASE Program.several /\ decode_byte' >= out_size
    <3>1. ~Exact' /\ Len(out') >= Len(Plain)
      BY <1>1, <1>3, <1>5, <2>8 DEF Exact, Underway
    <3>2. QED
      BY <1>1, <1>4, <2>7, <3>1 DEF Underway, All
  <2>9. CASE ~(Program.several /\ decode_byte' >= out_size)
    <3>1. j' = j + 1
      BY <2>9 DEF CopyByte
    <3>2. j' \in 0 .. p.text[k].len /\ Len(out') = p.to[k] + j'
      <4> HIDE DEF len, to
      <4>1. j' \in 0 .. len /\ Len(out') = to + j'
        BY <1>3, <2>0, <3>1
      <4>2. QED
        BY <4>1 DEF len, to
    <3>3. Shifted(p, k)'
      BY <1>1, <2>1 DEF Shifted
    <3>4. At(p, k)'
      BY <1>1, <2>1, <3>2, <3>3 DEF At
    <3>5. QED
      BY <1>4, <2>7, <3>4 DEF Underway
  <2>10. QED
    BY <2>8, <2>9
<1>8. QED
  BY <1>6, <1>7 DEF Underway

(* A copy is done. *)
LEMMA CopiedUnderway ==
  ASSUME IInv, NEW p, Packs(input, p), Underway(p), Copied
  PROVE  Underway(p)'
<1>1. /\ Types /\ Len(out) \in Nat /\ input' = input /\ out' = out /\ at' = at
      /\ readed_byte' = readed_byte /\ NextBit(readed_byte')
  BY DEF IInv, Types, Copied, window
<1>2. /\ in_size' = Len(file') - HEAD /\ out_size' = HeaderAt(input', 0)
      /\ dic_pos' = (Start' + Len(out')) % DICT
      /\ AsPlain'
  BY <1>1 DEF Underway, Copied, window, Start, Program, prog, AsPlain, Plain, file
<1>3. CASE All
  <2>1. ~Exact
    BY <1>3 DEF All, Copied
  <2>2. QED
    BY <1>1, <1>2, <1>3, <2>1, MoreThanAll DEF Underway
<1>4. ASSUME NEW k \in 1 .. Len(p.text), At(p, k)
      PROVE  All' \/ \E m \in 1 .. Len(p.text) : At(p, m)'
  <2>1. /\ Shifted(p, k) /\ at = p.at[k + 1] /\ readed_byte = at - HEAD
        /\ p.text[k].kind = "copy" /\ decode_length = p.text[k].len
        /\ j \in 0 .. p.text[k].len /\ Len(out) = p.to[k] + j /\ j >= decode_length
    BY <1>4 DEF At, Copied
  <2>2. p.to[k + 1] = p.to[k] + p.text[k].len /\ p.text[k].len \in Int
    <3>1. PacksCopy(input, p, k) /\ p.text[k] \in Tokens
      BY <1>1, <2>1, PackedToken
    <3>2. p.text[k].len \in 3 .. NIBBLE + 2
      BY <2>1, <3>1 DEF Tokens
    <3>3. QED
      BY <3>1, <3>2, RingLzAssumption DEF PacksCopy
  <2>3. Len(out') = p.to[k + 1]
    BY <1>1, <2>1, <2>2
  <2>4. QED
    BY <1>1, <2>1, <2>3, TokenDone DEF Underway
<1>5. QED
  BY <1>2, <1>3, <1>4 DEF Underway

(* A decoding begins with the first flag, or with everything written.      *)
LEMMA BeginUnderway ==
  ASSUME Types, NEW p, Packs(input, p), at = 0, NEW insize, insize = Len(file) - HEAD, Begin(insize)
  PROVE  Underway(p)'
<1>1. /\ Len(p.text) \in Nat /\ p.at[1] = HEAD /\ p.to[1] = 0
      /\ Len(Plain) \in Nat /\ Len(Plain) = p.to[Len(p.text) + 1]
      /\ HEAD <= Len(file) /\ HEAD \in Nat /\ Len(file) \in Nat
  BY PackedTokens, InputFile, RingLzAssumption
<1>2. After(HEAD) = HEAD
  BY <1>1 DEF After
<1>3. /\ input' = input /\ file' = file /\ Plain' = Plain /\ Exact' = Exact /\ Start' = Start
      /\ pc' = "while" /\ at' = HEAD /\ out' = <<>> /\ dic_pos' = Start /\ readed_byte' = 0
      /\ in_size' = Len(file) - HEAD /\ out_size' = HeaderAt(input, 0)
  BY <1>2 DEF Begin, file, Plain, Exact, Start, Program, prog, Header
<1>4. Len(out') = 0
  BY <1>3
<1>5. dic_pos' = (Start' + Len(out')) % DICT
  <2>1. Start \in 0 .. DICT - 1 /\ DICT \in Nat \ {0}
    BY Sizes
  <2>2. Start % DICT = Start
    BY <2>1, ModSmall
  <2>3. Start + 0 = Start
    BY <2>1
  <2>4. QED
    BY <1>3, <1>4, <2>2, <2>3
<1>6. AsPlain'
  BY <1>3, <1>4 DEF AsPlain
<1>7. CASE Len(p.text) = 0
  <2>1. Len(Plain) = 0
    BY <1>1, <1>7
  <2>2. All'
    BY <1>3, <1>4, <2>1 DEF All
  <2>3. QED
    BY <1>3, <1>5, <1>6, <2>2 DEF Underway
<1>8. CASE Len(p.text) # 0
  <2>1. 1 \in 1 .. Len(p.text)
    BY <1>1, <1>8
  <2>2. Group(1) = 0
    <3>1. 1 - 1 = 0 /\ FLAGS \in Nat \ {0}
      BY RingLzAssumption
    <3>2. 0 % FLAGS = 0
      BY <3>1
    <3>3. QED
      BY <3>1, <3>2 DEF Group
  <2>3. readed_byte' = at' - HEAD
    BY <1>1, <1>3
  <2>4. At(p, 1)'
    BY <1>1, <1>3, <1>4, <2>2, <2>3 DEF At
  <2>5. QED
    BY <1>3, <1>5, <1>6, <2>1, <2>4 DEF Underway
<1>9. QED
  BY <1>7, <1>8

(* The file that is written is what was packed in the archive.             *)
LEMMA WrittenIsPacked ==
  ASSUME IInv, NEW p, Packs(input, p), Underway(p), pc = "decoded"
  PROVE  /\ IsPrefix(Plain, out)
         /\ Exact => out = Plain
<1>1. out \in Seq(Bytes) /\ Plain \in Seq(Bytes) /\ Len(out) \in Nat /\ Len(Plain) \in Nat
  BY PackedTokens DEF IInv, Types
<1>2. All
  BY DEF Underway, At
<1>3. \A m \in 1 .. Len(Plain) : m \in 1 .. Len(out) /\ out[m] = Plain[m]
  BY <1>1, <1>2 DEF All, Underway, AsPlain
<1>4. SubSeq(Plain, 1, Len(Plain)) = SubSeq(out, 1, Len(Plain))
  <2>1. SubSeq(Plain, 1, Len(Plain)) = [m \in 1 .. Len(Plain) |-> Plain[m]]
    BY <1>1
  <2>2. SubSeq(out, 1, Len(Plain)) = [m \in 1 .. Len(Plain) |-> out[m]]
    BY <1>1, <1>2 DEF All
  <2>3. QED
    BY <1>3, <2>1, <2>2
<1>5. IsPrefix(Plain, out)
  BY <1>2, <1>4 DEF All, IsPrefix
<1>6. ASSUME Exact PROVE out = Plain
  <2>1. Len(out) = Len(Plain)
    BY <1>2, <1>6 DEF All
  <2>2. QED
    BY <1>1, <1>3, <2>1
<1>7. QED
  BY <1>5, <1>6

(* A step that leaves the files that are written and the input keeps what  *)
(* it keeps of the first decoding.                                         *)
LEMMA FirstKept ==
  ASSUME IInv, TextInv, input' = input, members' = members,
         \A p : Packs(input, p) /\ members = <<>> /\ FirstOf(p) => FirstOf(p)'
  PROVE  TextInv'
<1>1. PICK p : Packs(input, p) /\ (members = <<>> => FirstOf(p))
  BY DEF TextInv
<1>2. Packs(input', p) /\ (members' = <<>> => FirstOf(p)')
  BY <1>1
<1>3. DecodesWhatIsThere'
  BY DEF TextInv, DecodesWhatIsThere, Program, prog
<1>4. QED
  BY <1>2, <1>3 DEF TextInv

LEMMA InitText == ASSUME ArchivesArePacked, Init PROVE TextInv
<1>1. \E p : Packs(input, p)
  BY DEF ArchivesArePacked, Init
<1>2. \A p : FirstOf(p)
  BY DEF Init, FirstOf, Decoding
<1>3. members = <<>>
  BY DEF Init
<1>4. QED
  BY <1>1, <1>2, <1>3 DEF TextInv, DecodesWhatIsThere

LEMMA NextText == IInv /\ TextInv /\ [Next]_vars => TextInv'
<1> SUFFICES ASSUME IInv, TextInv, [Next]_vars PROVE TextInv'
  OBVIOUS
<1>1. Types
  BY DEF IInv
<1>2. CASE Open
  BY <1>2, FirstKept DEF Open, FirstOf, Decoding, file
<1>3. CASE DecodeOne
  <2>1. input' = input /\ members' = members /\ pc = "open" /\ pc' = "while"
    BY <1>3 DEF DecodeOne, Begin
  <2>2. ASSUME NEW p, Packs(input, p), FirstOf(p) PROVE FirstOf(p)'
    <3>1. at = 0 /\ filesize = Len(file)
      BY <2>1, <2>2 DEF FirstOf
    <3>2. (filesize - HEAD) % UINT = Len(file) - HEAD
      <4>1. Len(file) - HEAD \in 0 .. UINT - 1 /\ UINT \in Nat \ {0}
        BY <1>1, <2>2, PackedTokens, InputFile, RingLzAssumption
      <4>2. QED
        BY <3>1, <4>1, ModSmall
    <3>3. Underway(p)'
      BY <1>1, <1>3, <2>2, <3>1, <3>2, BeginUnderway DEF DecodeOne
    <3>4. QED
      BY <2>1, <3>3 DEF FirstOf
  <2>3. QED
    BY <2>1, <2>2, FirstKept
<1>4. CASE DecodeMember
  <2>1. input' = input /\ members' = members /\ pc = "open" /\ pc' = "while"
    BY <1>4 DEF DecodeMember, Begin
  <2>2. ASSUME NEW p, Packs(input, p), FirstOf(p) PROVE FirstOf(p)'
    <3>1. at = 0 /\ filesize = Len(file)
      BY <2>1, <2>2 DEF FirstOf
    <3>2. Underway(p)'
      BY <1>1, <1>4, <2>2, <3>1, BeginUnderway DEF DecodeMember
    <3>3. QED
      BY <2>1, <3>2 DEF FirstOf
  <2>3. QED
    BY <2>1, <2>2, FirstKept
<1>5. CASE NoMember
  BY <1>5, FirstKept DEF NoMember, FirstOf, Decoding
<1>6. CASE CannotWrite
  BY <1>6, FirstKept DEF CannotWrite, FirstOf, Decoding
<1>7. CASE Decoded
  <2>1. /\ members' = Append(members, out) /\ input' = input /\ pc = "decoded"
        /\ pc' \in {"open", "error"} /\ out \in Seq(Bytes) /\ members \in Seq(Seq(Bytes))
    BY <1>1, <1>7 DEF Decoded, Types, TextInv
  <2>2. members' \in Seq(Seq(Bytes)) /\ members' # <<>>
    BY <2>1
  <2>3. PICK p : Packs(input, p) /\ (members = <<>> => FirstOf(p))
    BY DEF TextInv
  <2>4. DecodesWhatIsThere'
    <3>1. CASE members = <<>>
      <4>1. members'[1] = out
        BY <2>1, <3>1
      <4>2. Underway(p)
        BY <2>1, <2>3, <3>1 DEF FirstOf, Decoding
      <4>3. IsPrefix(Plain, out) /\ (Exact => out = Plain)
        BY <2>1, <2>3, <4>2, WrittenIsPacked
      <4>4. QED
        BY <2>1, <4>1, <4>3 DEF DecodesWhatIsThere, Plain, Exact, Program, prog
    <3>2. CASE members # <<>>
      <4>1. members'[1] = members[1]
        BY <2>1, <3>2
      <4>2. QED
        BY <2>1, <3>2, <4>1 DEF TextInv, DecodesWhatIsThere, Program, prog
    <3>3. QED
      BY <3>1, <3>2
  <2>5. QED
    BY <2>1, <2>2, <2>3, <2>4 DEF TextInv
<1>8. CASE Rename
  BY <1>8, FirstKept DEF Rename, Locals, FirstOf, Decoding
<1>9. CASE ReadFlag
  BY <1>9, ReadFlagUnderway, FirstKept DEF ReadFlag, FirstOf, Decoding
<1>10. CASE Ended
  BY <1>10, EndedUnderway, FirstKept DEF Ended, FirstOf, Decoding
<1>11. CASE Literal
  <2>1. /\ input' = input /\ members' = members
        /\ pc = "token" /\ pc' \in {"while", "token"}
    BY <1>11 DEF Literal, NextBit
  <2>2. QED
    BY <1>11, <2>1, LiteralUnderway, FirstKept DEF FirstOf, Decoding
<1>12. CASE Copy
  BY <1>12, CopyUnderway, FirstKept DEF Copy, FirstOf, Decoding
<1>13. CASE CopyByte
  BY <1>13, CopyByteUnderway, FirstKept DEF CopyByte, main, FirstOf, Decoding
<1>14. CASE Copied
  <2>1. /\ input' = input /\ members' = members
        /\ pc = "copy" /\ pc' \in {"while", "token"}
    BY <1>14 DEF Copied, NextBit
  <2>2. QED
    BY <1>14, <2>1, CopiedUnderway, FirstKept DEF FirstOf, Decoding
<1>15. CASE UNCHANGED vars
  <2>1. \A p : FirstOf(p) => FirstOf(p)'
    BY <1>15 DEF vars, main, window, copying, FirstOf, Decoding, Underway, All, At, Shifted,
                 AsPlain, Exact, Plain, Program, prog, file, Start
  <2>2. QED
    BY <1>15, <2>1, FirstKept DEF vars, main
<1>16. QED
  BY <1>2, <1>3, <1>4, <1>5, <1>6, <1>7, <1>8, <1>9, <1>10, <1>11, <1>12, <1>13, <1>14, <1>15
  DEF Next

(***************************************************************************)
(* Whatever text is packed in an archive, however its tokens fall on flag  *)
(* bytes, wrap around the ring and overlap what they write, and whichever  *)
(* of the five programs decodes it, the file that is written is the text;  *)
(* of an archive that is cut short it begins with the tokens that are      *)
(* there, and so does the first file of several archives.                  *)
(***************************************************************************)
THEOREM DecodesThePackedText ==
  ASSUME ArchivesArePacked
  PROVE  Spec => []DecodesWhatIsThere
<1>1. Init => IInv /\ TextInv
  BY InitHolds, InitText
<1>2. IInv /\ TextInv /\ [Next]_vars => (IInv /\ TextInv)'
  BY StepHolds, NextText
<1>3. IInv /\ TextInv => DecodesWhatIsThere
  BY DEF TextInv
<1>4. QED
  BY <1>1, <1>2, <1>3, PTL DEF Spec
===============================================================================
