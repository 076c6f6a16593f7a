------------------------------- MODULE LzwProofs -------------------------------
(***************************************************************************)
(* What holds of the LZW decoder for every stream and any lengths of bytes *)
(* and tokens: the types, that tokens are always long enough for the texts *)
(* there are, that a link is to what has been written before it, and that  *)
(* what is written for a packed stream is the text it was packed from.     *)
(***************************************************************************)
EXTENDS LzwDecode, NaturalsInduction, WellFoundedInduction, TLAPS

Texts == [at : 0 .. WORD - 1, len : 0 .. WORD - 1]

Types ==
  /\ input \in Inputs
  /\ pc \in {"token", "tail", "end"}
  /\ bitlen \in BITS + 1 .. MAXBITS
  /\ bitctr \in 0 .. BITS - 1 /\ bytectr \in 0 .. WORD - 1
  /\ entries \in Seq(Texts)
  /\ tokenlastlength \in 0 .. WORD - 1
  /\ destctr \in 0 .. WORD - 1
  /\ dest \in [0 .. length - 1 -> 0 .. BYTE - 1 \cup {HOLE}]
  /\ i \in Nat

(* Where there is room, a text and the last one lie in what is written.    *)
Lies(e, d, l) == d >= l \/ (e.at < d /\ e.len <= d) \/ (d = 0 /\ e.at = 0 /\ e.len = 0)
AllLie == \A n \in DOMAIN entries : Lies(entries[n], destctr, length)
LastLies ==
  pc = "token" => \/ destctr >= length
                  \/ (1 <= tokenlastlength /\ tokenlastlength <= destctr)
                  \/ (destctr = 0 /\ tokenlastlength = 0)

IInv ==
  /\ Types
  /\ WidthsSuffice
  /\ length < WORD - 1 => LastLies /\ AllLie

(* The bits of a byte and of a token.                                      *)
LEMMA Powers ==
  /\ BYTE \in Nat /\ BYTE >= 2
  /\ \A k \in 0 .. MAXBITS : 2^k \in Nat \ {0} /\ 2^(k + 1) = 2 * 2^k
  /\ 2^(BITS + 1) = 2 * BYTE
<1>1. /\ BITS - 1 \in 0 .. 3 * BITS /\ (BITS - 1) + 1 = BITS /\ BITS \in 0 .. 3 * BITS
      /\ MAXBITS <= 3 * BITS /\ MAXBITS \in Nat
  BY LzwDecodeAssumption
<1>2. 2^BITS = 2 * 2^(BITS - 1) /\ 2^(BITS - 1) \in Nat \ {0} /\ 2^BITS \in Nat
  BY <1>1, LzwDecodeAssumption
<1>3. 2^(BITS + 1) = 2 * 2^BITS
  BY <1>1, LzwDecodeAssumption
<1> QED
  BY <1>1, <1>2, <1>3, LzwDecodeAssumption DEF BYTE

(* What Register does to the widths and the texts.                         *)
LEMMA Registered ==
  ASSUME Types, WidthsSuffice, NEW at \in Int, NEW len \in 0 .. WORD - 1, Register(at, len)
  PROVE  /\ bitlen' \in BITS + 1 .. MAXBITS
         /\ entries' \in Seq(Texts)
         /\ WidthsSuffice'
         /\ \A n \in DOMAIN entries' :
              entries'[n] = Entry(at, len) \/ (n \in DOMAIN entries /\ entries'[n] = entries[n])
<1>0. /\ BYTE \in Nat /\ bitlen \in 0 .. MAXBITS /\ 2^bitlen \in Nat /\ 2^(bitlen + 1) = 2 * 2^bitlen
      /\ 2^bitlen >= 1
  BY Powers, LzwDecodeAssumption DEF Types
<1>1. Entry(at, len) \in Texts
  BY LzwDecodeAssumption DEF Entry, Texts
<1>2. Len(entries) \in Nat
  BY DEF Types
<1>3. CASE Full
  <2>1. bitlen' = bitlen /\ entries' = entries
    BY <1>3 DEF Register
  <2> QED
    BY <2>1 DEF Types, WidthsSuffice, tokenctr
<1>4. CASE ~Full
  <2>1. /\ bitlen' = IF tokenctr = 2^bitlen THEN bitlen + 1 ELSE bitlen
        /\ entries' = Append(entries, Entry(at, len))
    BY <1>4 DEF Register
  <2>2. entries' \in Seq(Texts) /\ Len(entries') = Len(entries) + 1
    BY <1>1, <2>1 DEF Types
  <2>3. \A n \in DOMAIN entries' :
          entries'[n] = Entry(at, len) \/ (n \in DOMAIN entries /\ entries'[n] = entries[n])
    BY <1>1, <2>1 DEF Types
  <2>4. bitlen' \in BITS + 1 .. MAXBITS
    BY <1>4, <2>1, LzwDecodeAssumption DEF Full, Types
  <2>5. tokenctr' = tokenctr + 1 /\ tokenctr \in Nat
    BY <1>0, <1>2, <2>2 DEF tokenctr, FIRST
  <2>6. WidthsSuffice'
    <3>1. CASE tokenctr = 2^bitlen
      BY <1>0, <2>1, <2>5, <3>1 DEF WidthsSuffice
    <3>2. CASE tokenctr # 2^bitlen
      BY <1>0, <2>1, <2>5, <3>2 DEF WidthsSuffice
    <3> QED
      BY <3>1, <3>2
  <2> QED
    BY <2>2, <2>3, <2>4, <2>6
<1> QED
  BY <1>3, <1>4

(* Reading a token leaves its place a place.                               *)
LEMMA Consumed ==
  ASSUME Types, Consume
  PROVE  bitctr' \in 0 .. BITS - 1 /\ bytectr' \in 0 .. WORD - 1
<1>1. bitctr + bitlen \in Nat /\ BITS \in Nat \ {0} /\ WORD \in Nat \ {0}
  BY LzwDecodeAssumption DEF Types
<1>2. (bitctr + bitlen) % BITS \in 0 .. BITS - 1 /\ (bitctr + bitlen) \div BITS \in Int
  BY <1>1
<1>3. (bytectr + (bitctr + bitlen) \div BITS) % WORD \in 0 .. WORD - 1
  BY <1>1, <1>2 DEF Types
<1> QED
  BY <1>2, <1>3 DEF Consume

(* What is in memory is a byte or nothing.                                 *)
LEMMA Cells ==
  ASSUME Types, NEW k
  PROVE  Cell(k) \in 0 .. BYTE - 1 \cup {HOLE}
  BY DEF Types, Cell

LEMMA Sizes == ASSUME Types PROVE length \in 0 .. WORD - 1
  BY LzwDecodeAssumption DEF Types, length

THEOREM Start == Init => IInv
<1> SUFFICES ASSUME Init PROVE IInv
  OBVIOUS
<1>1. length \in 0 .. WORD - 1
  BY LzwDecodeAssumption DEF Init, length
<1>2. Types
  BY <1>1, LzwDecodeAssumption DEF Init, Types
<1>3. WidthsSuffice
  <2>1. Len(entries) = 0
    BY DEF Init
  <2> QED
    BY <2>1, Powers DEF Init, WidthsSuffice, tokenctr, FIRST
<1>4. LastLies /\ AllLie
  BY DEF Init, LastLies, AllLie
<1> QED
  BY <1>2, <1>3, <1>4 DEF IInv

(* A token is a number, whatever the stream.                               *)
LEMMA Tokens == ASSUME Types PROVE token \in Nat
<1>1. BYTE \in Nat /\ 2^bitctr \in Nat \ {0} /\ 2^bitlen \in Nat \ {0}
  <2>1. bitctr \in 0 .. MAXBITS /\ bitlen \in 0 .. MAXBITS
    BY LzwDecodeAssumption DEF Types
  <2> QED
    BY <2>1, Powers
<1>2. ASSUME NEW k \in Nat PROVE SrcAt(k) \in Nat
  <2>1. src \in Seq(0 .. BYTE - 1)
    BY LzwDecodeAssumption DEF Types, src, BYTE
  <2> QED
    BY <1>1, <2>1 DEF SrcAt, complength
<1>3. bytectr \in Nat /\ (bytectr + 1) % WORD \in Nat
  BY LzwDecodeAssumption DEF Types
<1>4. tokenmaker \in Nat
  <2> DEFINE x == SrcAt(bytectr)
             y == SrcAt((bytectr + 1) % WORD)
             z == SrcAt(((bytectr + 1) % WORD) + 1)
  <2>1. x \in Nat /\ y \in Nat /\ z \in Nat
    BY <1>2, <1>3
  <2>2. y * BYTE \in Nat /\ z * BYTE \in Nat
    BY <1>1, <2>1
  <2>3. z * BYTE * BYTE \in Nat
    BY <1>1, <2>2
  <2>4. tokenmaker = x + y * BYTE + z * BYTE * BYTE
    BY DEF tokenmaker
  <2> HIDE DEF x, y, z
  <2> QED
    BY <2>1, <2>2, <2>3, <2>4
<1>5. tokenmaker \div 2^bitctr \in Nat
  BY <1>1, <1>4
<1> QED
  BY <1>1, <1>5 DEF token

(* Texts that lie in what is written do so when more is.                   *)
LEMMA StillLie ==
  ASSUME NEW e \in Texts, NEW l \in Nat, NEW c \in Nat, NEW d \in Nat, c <= d, Lies(e, c, l)
  PROVE  Lies(e, d, l)
  BY LzwDecodeAssumption DEF Lies, Texts

LEMMA LiteralStep == ASSUME IInv, Literal PROVE IInv'
<1>0. /\ Types /\ WidthsSuffice /\ length \in 0 .. WORD - 1 /\ length' = length /\ WORD \in Nat /\ WORD > 1
      /\ destctr \in 0 .. WORD - 1
  BY Sizes, LzwDecodeAssumption DEF IInv, Literal, length, Types
<1>1. bitctr' \in 0 .. BITS - 1 /\ bytectr' \in 0 .. WORD - 1
  BY <1>0, Consumed DEF Literal
<1>2. destctr' \in 0 .. WORD - 1 /\ (length < WORD - 1 => destctr' = IF destctr < length THEN destctr + 1 ELSE destctr)
  BY <1>0 DEF Literal
<1>3. dest' \in [0 .. length' - 1 -> 0 .. BYTE - 1 \cup {HOLE}]
  <2>1. CASE destctr < length
    <3>1. token \in 0 .. BYTE - 1
      BY <1>0, Powers, Tokens DEF Literal, RESET
    <3> QED
      BY <1>0, <2>1, <3>1 DEF Literal, Types
  <2>2. CASE ~(destctr < length)
    BY <1>0, <2>2 DEF Literal, Types
  <2> QED
    BY <2>1, <2>2
<1>4. destctr' - 1 \in Int /\ 1 \in 0 .. WORD - 1 /\ Register(destctr' - 1, 1)
  BY <1>0, <1>2 DEF Literal
<1>5. /\ bitlen' \in BITS + 1 .. MAXBITS /\ entries' \in Seq(Texts) /\ WidthsSuffice'
      /\ \A n \in DOMAIN entries' :
           entries'[n] = Entry(destctr' - 1, 1) \/ (n \in DOMAIN entries /\ entries'[n] = entries[n])
  BY <1>0, <1>4, Registered
<1>6. Types'
  BY <1>0, <1>1, <1>2, <1>3, <1>4, <1>5 DEF Types, Literal
<1>7. ASSUME length' < WORD - 1 PROVE LastLies' /\ AllLie'
  <2>1. length < WORD - 1 /\ AllLie
    BY <1>0, <1>7 DEF IInv
  <2>2. LastLies'
    BY <1>0, <1>2, <2>1 DEF LastLies, Literal
  <2>3. ASSUME NEW n \in DOMAIN entries' PROVE Lies(entries'[n], destctr', length)
    <3>1. CASE entries'[n] = Entry(destctr' - 1, 1)
      <4>1. CASE destctr < length
        <5>1. destctr' - 1 \in 0 .. WORD - 1 /\ (destctr' - 1) % WORD = destctr' - 1
          BY <1>0, <1>2, <2>1, <4>1
        <5> QED
          BY <1>0, <1>2, <2>1, <3>1, <4>1, <5>1 DEF Entry, Lies
      <4>2. CASE ~(destctr < length)
        BY <1>0, <1>2, <2>1, <4>2 DEF Lies
      <4> QED
        BY <4>1, <4>2
    <3>2. CASE n \in DOMAIN entries /\ entries'[n] = entries[n]
      <4>1. Lies(entries[n], destctr, length) /\ entries[n] \in Texts
        BY <2>1, <3>2, <1>0 DEF Types, AllLie
      <4> QED
        BY <1>0, <1>2, <2>1, <3>2, <4>1, StillLie
    <3> QED
      BY <1>5, <3>1, <3>2
  <2> QED
    BY <1>0, <2>2, <2>3 DEF AllLie
<1> QED
  BY <1>5, <1>6, <1>7 DEF IInv

LEMMA LinkStep == ASSUME IInv, Link PROVE IInv'
<1>0. /\ Types /\ WidthsSuffice /\ length \in 0 .. WORD - 1 /\ length' = length /\ WORD \in Nat /\ WORD > 1
      /\ destctr \in 0 .. WORD - 1 /\ linklength \in 0 .. WORD - 1 /\ Linked \in Texts
      /\ token - FIRST + 1 \in DOMAIN entries
  <2>1. token - FIRST + 1 \in DOMAIN entries /\ Len(entries) \in Nat
    BY Tokens, Powers DEF IInv, Types, Link, Known, tokenctr, FIRST
  <2>2. Linked \in Texts
    BY <2>1 DEF IInv, Types, Linked
  <2>3. (Linked.len + 1) % WORD \in 0 .. WORD - 1
    BY <2>2, LzwDecodeAssumption DEF Texts
  <2> QED
    BY <2>1, <2>2, <2>3, Sizes, LzwDecodeAssumption DEF IInv, Link, length, Types, linklength
<1>1. bitctr' \in 0 .. BITS - 1 /\ bytectr' \in 0 .. WORD - 1
  BY <1>0, Consumed DEF Link
<1>2. destctr + linklength <= length /\ destctr' = destctr + linklength
  BY <1>0 DEF Link, Fits
<1>3. dest' \in [0 .. length' - 1 -> 0 .. BYTE - 1 \cup {HOLE}]
  <2>1. \A k : Copied(k) \in 0 .. BYTE - 1 \cup {HOLE}
    BY <1>0, Cells DEF Copied
  <2>2. DOMAIN dest = 0 .. length - 1 /\ \A k \in DOMAIN dest : dest[k] \in 0 .. BYTE - 1 \cup {HOLE}
    BY <1>0 DEF Types
  <2>3. dest' = [k \in DOMAIN dest |->
                   IF k \in destctr .. destctr + linklength - 1 THEN Copied(Linked.at + k - destctr) ELSE dest[k]]
    BY DEF Link
  <2> QED
    BY <1>0, <2>1, <2>2, <2>3
<1>4. destctr' - linklength \in Int /\ destctr' - linklength = destctr /\ Register(destctr, linklength)
  <2>1. destctr' - linklength = destctr
    BY <1>0, <1>2
  <2>2. Register(destctr' - linklength, linklength)
    BY DEF Link
  <2> QED
    BY <1>0, <2>1, <2>2
<1>5. /\ bitlen' \in BITS + 1 .. MAXBITS /\ entries' \in Seq(Texts) /\ WidthsSuffice'
      /\ \A n \in DOMAIN entries' :
           entries'[n] = Entry(destctr, linklength) \/ (n \in DOMAIN entries /\ entries'[n] = entries[n])
  BY <1>0, <1>4, Registered
<1>6. Types'
  <2>1. /\ input' = input /\ pc' = pc /\ i' = i /\ tokenlastlength' = linklength
        /\ input \in Inputs /\ pc \in {"token", "tail", "end"} /\ i \in Nat
    BY <1>0 DEF Types, Link
  <2>2. destctr' \in 0 .. WORD - 1
    BY <1>0, <1>2
  <2> QED
    BY <1>0, <1>1, <1>3, <1>5, <2>1, <2>2 DEF Types
<1>7. ASSUME length' < WORD - 1 PROVE LastLies' /\ AllLie'
  <2>1. length < WORD - 1 /\ AllLie
    BY <1>0, <1>7 DEF IInv
  <2>2. destctr >= length \/ (linklength = Linked.len + 1 /\ linklength >= 1)
    <3>1. Lies(Linked, destctr, length)
      BY <1>0, <2>1 DEF AllLie, Linked
    <3>2. CASE destctr < length
      <4>1. Linked.len + 1 \in 0 .. WORD - 1
        BY <1>0, <2>1, <3>1, <3>2 DEF Lies, Texts
      <4> QED
        BY <1>0, <4>1 DEF linklength, Texts
    <3> QED
      BY <1>0, <3>2
  <2>3. LastLies'
    BY <1>0, <1>2, <2>2 DEF LastLies, Link
  <2>4. ASSUME NEW n \in DOMAIN entries' PROVE Lies(entries'[n], destctr', length)
    <3>1. CASE entries'[n] = Entry(destctr, linklength)
      <4>1. destctr % WORD = destctr
        BY <1>0
      <4> QED
        BY <1>0, <1>2, <2>2, <3>1, <4>1 DEF Entry, Lies
    <3>2. CASE n \in DOMAIN entries /\ entries'[n] = entries[n]
      <4>1. Lies(entries[n], destctr, length) /\ entries[n] \in Texts
        BY <2>1, <3>2, <1>0 DEF Types, AllLie
      <4> QED
        BY <1>0, <1>2, <3>2, <4>1, StillLie
    <3> QED
      BY <1>5, <3>1, <3>2
  <2> QED
    BY <1>0, <2>3, <2>4 DEF AllLie
<1> QED
  BY <1>5, <1>6, <1>7 DEF IInv

(* A text given where the last one lay: with no room, or to a token that   *)
(* is not known.                                                           *)
LEMMA RegisterLast ==
  ASSUME Types, WidthsSuffice, Consume, Register(destctr - tokenlastlength, tokenlastlength),
         UNCHANGED <<input, tokenlastlength, destctr, dest, i>>, pc' = "token",
         length < WORD - 1 => AllLie /\ (\/ destctr >= length
                                         \/ (1 <= tokenlastlength /\ tokenlastlength <= destctr)
                                         \/ (destctr = 0 /\ tokenlastlength = 0))
  PROVE  IInv'
<1>0. /\ length \in 0 .. WORD - 1 /\ length' = length /\ WORD \in Nat /\ WORD > 1
      /\ destctr \in 0 .. WORD - 1 /\ tokenlastlength \in 0 .. WORD - 1
  BY Sizes, LzwDecodeAssumption DEF Types, length
<1>1. bitctr' \in 0 .. BITS - 1 /\ bytectr' \in 0 .. WORD - 1
  BY Consumed
<1>2. /\ bitlen' \in BITS + 1 .. MAXBITS /\ entries' \in Seq(Texts) /\ WidthsSuffice'
      /\ \A n \in DOMAIN entries' :
           \/ entries'[n] = Entry(destctr - tokenlastlength, tokenlastlength)
           \/ (n \in DOMAIN entries /\ entries'[n] = entries[n])
  <2>1. destctr - tokenlastlength \in Int
    BY <1>0
  <2> QED
    BY <1>0, <2>1, Registered
<1>3. Types'
  BY <1>0, <1>1, <1>2 DEF Types, length
<1>4. ASSUME length' < WORD - 1 PROVE LastLies' /\ AllLie'
  <2>1. LastLies'
    BY <1>0, <1>4 DEF LastLies
  <2>2. ASSUME NEW n \in DOMAIN entries' PROVE Lies(entries'[n], destctr, length)
    <3>1. CASE entries'[n] = Entry(destctr - tokenlastlength, tokenlastlength)
      <4>1. CASE destctr < length
        <5>1. destctr - tokenlastlength \in 0 .. WORD - 1
          BY <1>0, <1>4, <4>1
        <5>2. (destctr - tokenlastlength) % WORD = destctr - tokenlastlength
          BY <1>0, <5>1
        <5> QED
          BY <1>0, <1>4, <3>1, <4>1, <5>2 DEF Entry, Lies
      <4>2. CASE ~(destctr < length)
        BY <1>0, <4>2 DEF Lies
      <4> QED
        BY <4>1, <4>2
    <3>2. CASE n \in DOMAIN entries /\ entries'[n] = entries[n]
      BY <1>0, <1>4, <3>2 DEF AllLie
    <3> QED
      BY <1>2, <3>1, <3>2
  <2> QED
    BY <1>0, <2>1, <2>2 DEF AllLie
<1> QED
  BY <1>2, <1>3, <1>4 DEF IInv

LEMMA TailStep == ASSUME IInv, TailByte PROVE IInv'
<1>0. /\ Types /\ WidthsSuffice /\ length \in 0 .. WORD - 1 /\ length' = length /\ WORD \in Nat /\ WORD > 1
      /\ destctr \in 0 .. WORD - 1 /\ destctr < length
  BY Sizes, LzwDecodeAssumption DEF IInv, TailByte, length, Types
<1>1. (destctr + 2) % WORD \in 0 .. WORD - 1
  BY <1>0
<1>2. dest' \in [0 .. length' - 1 -> 0 .. BYTE - 1 \cup {HOLE}]
  BY <1>0, Cells DEF TailByte, Types
<1>3. Types' /\ WidthsSuffice'
  BY <1>0, <1>1, <1>2 DEF TailByte, Types, WidthsSuffice, tokenctr, reading
<1>4. ASSUME length' < WORD - 1 PROVE LastLies' /\ AllLie'
  <2>1. AllLie /\ destctr' \in Nat /\ destctr <= destctr'
    BY <1>0, <1>4 DEF IInv, TailByte
  <2>2. ASSUME NEW n \in DOMAIN entries PROVE Lies(entries[n], destctr', length)
    BY <1>0, <2>1, StillLie DEF AllLie, Types
  <2> QED
    BY <1>0, <2>2 DEF AllLie, LastLies, TailByte
<1> QED
  BY <1>3, <1>4 DEF IInv

THEOREM Step == IInv /\ [Next]_vars => IInv'
<1> SUFFICES ASSUME IInv, [Next]_vars PROVE IInv'
  OBVIOUS
<1>0. Types /\ WidthsSuffice /\ (length < WORD - 1 => LastLies /\ AllLie)
  BY DEF IInv
<1>1. CASE Exhausted
  BY <1>0, <1>1 DEF Exhausted, IInv, Types, WidthsSuffice, LastLies, AllLie, tokenctr, length, reading
<1>2. CASE Terminate
  <2>1. bitctr' \in 0 .. BITS - 1 /\ bytectr' \in 0 .. WORD - 1
    BY <1>0, <1>2, Consumed DEF Terminate
  <2> QED
    BY <1>0, <1>2, <2>1 DEF Terminate, IInv, Types, WidthsSuffice, LastLies, AllLie, tokenctr, length
<1>3. CASE Reset
  <2>1. bitctr' \in 0 .. BITS - 1 /\ bytectr' \in 0 .. WORD - 1
    BY <1>0, <1>3, Consumed DEF Reset
  <2>2. WidthsSuffice'
    <3>1. Len(entries') = 0
      BY <1>3 DEF Reset
    <3> QED
      BY <1>3, <3>1, Powers DEF Reset, WidthsSuffice, tokenctr, FIRST
  <2>3. BITS + 1 \in BITS + 1 .. MAXBITS
    BY LzwDecodeAssumption
  <2>4. Types'
    BY <1>0, <1>3, <2>1, <2>3 DEF Reset, Types, length
  <2>5. AllLie'
    BY <1>3 DEF Reset, AllLie
  <2> QED
    BY <1>0, <1>3, <2>2, <2>4, <2>5 DEF Reset, IInv, LastLies, length
<1>4. CASE Literal
  BY <1>4, LiteralStep
<1>5. CASE Link
  BY <1>5, LinkStep
<1>6. CASE Overrun
  <2>1. linklength \in 0 .. WORD - 1
    <3>1. token - FIRST + 1 \in DOMAIN entries
      BY <1>0, <1>6, Tokens, Powers DEF Types, Overrun, Known, tokenctr, FIRST
    <3>2. Linked \in Texts
      BY <1>0, <3>1 DEF Types, Linked
    <3>3. Linked.len \in Int
      BY <3>2 DEF Texts
    <3> QED
      BY <3>3, LzwDecodeAssumption DEF linklength
  <2> QED
    BY <1>0, <1>6, <2>1 DEF Overrun, IInv, Types, WidthsSuffice, LastLies, AllLie, tokenctr, length, reading
<1>7. CASE TailByte
  BY <1>7, TailStep
<1>8. CASE TailDone
  <2>1. destctr >= length
    BY <1>8 DEF TailDone
  <2> QED
    BY <1>0, <1>8, <2>1, RegisterLast DEF TailDone
<1>9. CASE BadToken
  <2>1. pc = "token" /\ pc' = "token"
    BY <1>9 DEF BadToken, More
  <2> QED
    BY <1>0, <1>9, <2>1, RegisterLast DEF BadToken, LastLies
<1>10. CASE UNCHANGED vars
  BY <1>0, <1>10 DEF vars, IInv, Types, WidthsSuffice, LastLies, AllLie, tokenctr, length, reading
<1> QED
  BY <1>1, <1>2, <1>3, <1>4, <1>5, <1>6, <1>7, <1>8, <1>9, <1>10 DEF Next

(* The types hold for every stream: no token is longer than twelve bits,   *)
(* no counter leaves its word, nothing is written outside the output.      *)
THEOREM TypesHold == Spec => []TypeOK
<1>1. IInv => TypeOK
  <2> SUFFICES ASSUME IInv PROVE TypeOK
    OBVIOUS
  <2>1. \A n \in DOMAIN entries : entries[n] \in Texts
    BY DEF IInv, Types
  <2>2. \A n \in DOMAIN entries : entries[n].at \in 0 .. WORD - 1 /\ entries[n].len \in 0 .. WORD - 1
    BY <2>1 DEF Texts
  <2> QED
    BY <2>2 DEF IInv, Types, TypeOK
<1> QED
  BY <1>1, Start, Step, PTL DEF Spec

(* The bits of a token are enough for every text there is.                 *)
THEOREM WidthsHold == Spec => []WidthsSuffice
<1>1. IInv => WidthsSuffice
  BY DEF IInv
<1> QED
  BY <1>1, Start, Step, PTL DEF Spec

(* A link is to what has been written, as long as there is room for more:  *)
(* for every stream, whole or broken, and every length of the output.      *)
THEOREM LinksPointBack == Spec => []PointsBack
<1>1. IInv => PointsBack
  BY DEF IInv, PointsBack, AllLie, Lies
<1> QED
  BY <1>1, Start, Step, PTL DEF Spec

-------------------------------------------------------------------------------
(* Numbers and their bits. *)

LEMMA LeastOfNat ==
  ASSUME NEW T \in SUBSET Nat, T # {}
  PROVE  \E m \in T : \A x \in T : m <= x
<1> DEFINE Less == {ss \in Nat \X Nat : ss[1] < ss[2]}
<1>1. IsWellFoundedOn(Less, Nat)
  BY NatLessThanWellFounded DEF OpToRel
<1>2. \A x \in Nat, y \in Nat : <<x, y>> \in Less <=> x < y
  OBVIOUS
<1> HIDE DEF Less
<1>3. PICK m \in T : \A x \in T : ~(<<x, m>> \in Less)
  BY <1>1, WFMin
<1>4. ASSUME NEW x \in T PROVE m <= x
  <2>1. m \in Nat /\ x \in Nat
    OBVIOUS
  <2>2. ~(x < m)
    BY <1>2, <1>3, <2>1
  <2>3. QED
    BY <2>1, <2>2
<1>5. QED
  BY <1>4

(* What holds at 0, and one further on wherever it holds, holds up to n.   *)
LEMMA StepByStep ==
  ASSUME NEW n \in Nat, NEW S, 0 \in S, \A d \in 0 .. n - 1 : d \in S => d + 1 \in S
  PROVE  \A d \in 0 .. n : d \in S
<1> DEFINE T == {d \in 0 .. n : d \notin S}
<1>1. SUFFICES ASSUME T # {} PROVE FALSE
  OBVIOUS
<1>2. PICK m \in T : \A x \in T : m <= x
  <2>1. T \in SUBSET Nat
    OBVIOUS
  <2> HIDE DEF T
  <2>2. QED
    BY <1>1, <2>1, LeastOfNat
<1>3. m \in 0 .. n /\ m \notin S /\ m # 0
  OBVIOUS
<1>4. m - 1 \in 0 .. n - 1 /\ m - 1 \notin T /\ (m - 1) + 1 = m
  BY <1>2, <1>3
<1>5. m - 1 \in S
  BY <1>4
<1>6. QED
  BY <1>3, <1>4, <1>5

LEMMA Division ==
  ASSUME NEW c \in Nat \ {0}, NEW a \in Int
  PROVE  a \div c \in Int /\ a % c \in 0 .. c - 1 /\ a = c * (a \div c) + (a % c)
OBVIOUS

LEMMA InOrder ==
  ASSUME NEW c \in Nat \ {0}, NEW d \in Int, NEW q \in Int, c * d < c * q + c
  PROVE  d <= q
<1>1. SUFFICES ASSUME d > q PROVE FALSE
  OBVIOUS
<1>2. c * d >= c * (q + 1)
  BY <1>1
<1>3. c * (q + 1) = c * q + c /\ c * d \in Int /\ c * q \in Int
  OBVIOUS
<1>4. QED
  BY <1>2, <1>3

LEMMA QuotientIs ==
  ASSUME NEW c \in Nat \ {0}, NEW q \in Int, NEW r \in 0 .. c - 1
  PROVE  (c * q + r) \div c = q /\ (c * q + r) % c = r
<1> DEFINE d == (c * q + r) \div c
           e == (c * q + r) % c
<1>1. c * q \in Int
  OBVIOUS
<1>2. d \in Int /\ e \in 0 .. c - 1 /\ c * q + r = c * d + e
  BY <1>1, Division
<1> HIDE DEF d, e
<1>3. c * d \in Int
  BY <1>2
<1>4. c * d < c * q + c /\ c * q < c * d + c
  BY <1>1, <1>2, <1>3
<1>5. d <= q /\ q <= d
  BY <1>2, <1>4, InOrder
<1>6. d = q
  BY <1>2, <1>5
<1>7. QED
  BY <1>1, <1>2, <1>3, <1>6 DEF d, e

LEMMA Small ==
  ASSUME NEW c \in Nat \ {0}, NEW r \in 0 .. c - 1
  PROVE  r % c = r
<1>1. c * 0 + r = r
  OBVIOUS
<1>2. QED
  BY <1>1, QuotientIs

LEMMA InThree ==
  ASSUME NEW c \in Nat \ {0}, NEW n \in 0 .. 3 * c - 1
  PROVE  \E j \in 0 .. 2, r \in 0 .. c - 1 : n = c * j + r
<1>1. CASE n < c
  <2>1. n \in 0 .. c - 1 /\ n = c * 0 + n
    BY <1>1
  <2>2. QED
    BY <2>1
<1>2. CASE n >= c /\ n < 2 * c
  <2>1. n - c \in 0 .. c - 1 /\ n = c * 1 + (n - c)
    BY <1>2
  <2>2. QED
    BY <2>1
<1>3. CASE n >= 2 * c
  <2>1. n - 2 * c \in 0 .. c - 1 /\ n = c * 2 + (n - 2 * c)
    BY <1>3
  <2>2. QED
    BY <2>1
<1>4. QED
  BY <1>1, <1>2, <1>3

LEMMA Halved ==
  ASSUME NEW a \in Nat, NEW c \in Nat \ {0}
  PROVE  a \div (2 * c) = (a \div c) \div 2
<1> DEFINE q == a \div c
           r == a % c
           h == q \div 2
           b == q % 2
<1>1. q \in Int /\ r \in 0 .. c - 1 /\ a = c * q + r
  BY Division
<1> HIDE DEF q, r
<1>2. h \in Int /\ b \in 0 .. 1 /\ q = 2 * h + b
  BY <1>1
<1> HIDE DEF h, b
<1>3. c * q = 2 * (c * h) + c * b /\ c * h \in Int /\ c * b \in 0 .. c
  <2>1. c * h \in Int /\ c * b \in Int /\ c * (2 * h + b) = 2 * (c * h) + c * b
    BY <1>2
  <2>2. c * b \in 0 .. c
    BY <1>2
  <2>3. QED
    BY <1>2, <2>1, <2>2
<1>4. a = (2 * c) * h + (c * b + r) /\ c * b + r \in 0 .. 2 * c - 1 /\ 2 * c \in Nat \ {0}
  <2>1. (2 * c) * h = 2 * (c * h)
    BY <1>2
  <2>2. c * b = 0 \/ c * b = c
    BY <1>2
  <2>3. QED
    BY <1>1, <1>3, <2>1, <2>2
<1>5. a \div (2 * c) = h
  BY <1>2, <1>4, QuotientIs
<1>6. QED
  BY <1>5 DEF h, q

LEMMA DoubledRest ==
  ASSUME NEW a \in Nat, NEW m \in Nat \ {0}, NEW b \in 0 .. 1
  PROVE  (2 * a + b) % (2 * m) = 2 * (a % m) + b
<1> DEFINE q == a \div m
           r == a % m
<1>1. q \in Int /\ r \in 0 .. m - 1 /\ a = m * q + r
  BY Division
<1> HIDE DEF q, r
<1>2. m * q \in Int /\ (2 * m) * q = 2 * (m * q)
  BY <1>1
<1>3. 2 * a + b = (2 * m) * q + (2 * r + b) /\ 2 * r + b \in 0 .. 2 * m - 1 /\ 2 * m \in Nat \ {0}
  BY <1>1, <1>2
<1>4. (2 * a + b) % (2 * m) = 2 * r + b
  BY <1>1, <1>3, QuotientIs
<1>5. QED
  BY <1>4 DEF r

LEMMA Halves ==
  ASSUME NEW a \in Nat, NEW e \in 0 .. 3 * BITS
  PROVE  a \div 2^e \in Nat /\ a \div 2^(e + 1) = (a \div 2^e) \div 2
<1>1. 2^e \in Nat \ {0} /\ 2^(e + 1) = 2 * 2^e
  BY LzwDecodeAssumption
<1> DEFINE c == 2^e
<1> HIDE DEF c
<1>2. a \div c \in Nat /\ a \div (2 * c) = (a \div c) \div 2
  <2>1. c \in Nat \ {0}
    BY <1>1 DEF c
  <2>2. a \div (2 * c) = (a \div c) \div 2
    BY <2>1, Halved
  <2>3. a \div c \in Nat
    BY <2>1
  <2>4. QED
    BY <2>2, <2>3
<1>3. QED
  BY <1>1, <1>2 DEF c

-------------------------------------------------------------------------------
(* A number and the one above it, in one word.                             *)

LEMMA Shifted ==
  ASSUME NEW y \in Nat, NEW z \in Nat
  PROVE  \A e \in 0 .. BITS : (y + BYTE * z) \div 2^e = (y \div 2^e) + 2^(BITS - e) * z
<1> DEFINE t == y + BYTE * z
           S == {e \in 0 .. BITS : t \div 2^e = (y \div 2^e) + 2^(BITS - e) * z}
<1>1. t \in Nat /\ BITS \in Nat /\ BITS <= 3 * BITS
  BY Powers, LzwDecodeAssumption
<1>2. 0 \in S
  <2>1. 2^0 = 1 /\ BITS - 0 = BITS
    BY LzwDecodeAssumption
  <2>2. t \div 1 = t /\ y \div 1 = y
    <3> HIDE DEF t
    <3>1. QED
      BY <1>1
  <2>3. QED
    BY <1>1, <2>1, <2>2 DEF BYTE
<1>3. ASSUME NEW e \in 0 .. BITS - 1, e \in S PROVE e + 1 \in S
  <2> DEFINE Y == y \div 2^e
             w == 2^(BITS - (e + 1)) * z
  <2>1. e \in 0 .. 3 * BITS /\ Y \in Nat /\ y \div 2^(e + 1) = Y \div 2 /\ t \div 2^(e + 1) = (t \div 2^e) \div 2
    <3>1. e \in 0 .. 3 * BITS
      BY <1>1
    <3> HIDE DEF t
    <3>2. QED
      BY <1>1, <3>1, Halves
  <2>2. BITS - (e + 1) \in 0 .. 3 * BITS /\ (BITS - (e + 1)) + 1 = BITS - e
    BY <1>1
  <2>3. 2^(BITS - (e + 1)) \in Nat /\ 2^(BITS - e) = 2 * 2^(BITS - (e + 1))
    BY <2>2, LzwDecodeAssumption
  <2>4. w \in Nat /\ 2^(BITS - e) * z = 2 * w
    <3> DEFINE v == 2^(BITS - (e + 1))
    <3>1. v \in Nat /\ (2 * v) * z = 2 * (v * z) /\ v * z \in Nat
      BY <2>3
    <3>2. QED
      BY <2>3, <3>1
  <2>5. t \div 2^e = Y + 2 * w
    BY <1>3, <2>4
  <2> HIDE DEF t, Y, w
  <2>6. (Y + 2 * w) \div 2 = (Y \div 2) + w
    BY <2>1, <2>4
  <2>7. t \div 2^(e + 1) = (y \div 2^(e + 1)) + w
    BY <2>1, <2>5, <2>6
  <2>8. QED
    BY <1>1, <2>7 DEF w
<1>4. \A e \in 0 .. BITS : e \in S
  <2> HIDE DEF S
  <2>1. QED
    BY <1>1, <1>2, <1>3, StepByStep
<1>5. QED
  BY <1>4

LEMMA LowBit ==
  ASSUME NEW y \in Nat, NEW z \in Nat, NEW e \in 0 .. BITS - 1
  PROVE  ((y + BYTE * z) \div 2^e) % 2 = (y \div 2^e) % 2
<1>1. (y + BYTE * z) \div 2^e = (y \div 2^e) + 2^(BITS - e) * z /\ y \div 2^e \in Nat
  <2>1. e \in 0 .. BITS /\ e \in 0 .. 3 * BITS
    BY LzwDecodeAssumption
  <2>2. (y + BYTE * z) \div 2^e = (y \div 2^e) + 2^(BITS - e) * z
    BY <2>1, Shifted
  <2>3. QED
    BY <2>1, <2>2, Halves
<1> DEFINE v == 2^(BITS - e - 1)
           Y == y \div 2^e
<1>2. v \in Nat /\ 2^(BITS - e) = 2 * v
  <2>1. BITS - e - 1 \in 0 .. 3 * BITS /\ (BITS - e - 1) + 1 = BITS - e
    BY LzwDecodeAssumption
  <2>2. QED
    BY <2>1, LzwDecodeAssumption
<1> HIDE DEF v
<1>3. (2 * v) * z = 2 * (v * z) /\ v * z \in Nat
  BY <1>2
<1>4. (Y + 2 * (v * z)) % 2 = Y % 2
  <2> DEFINE u == v * z
  <2>1. u \in Nat /\ Y \in Nat
    BY <1>1, <1>3
  <2> HIDE DEF u, Y
  <2>2. (Y + 2 * u) % 2 = Y % 2
    BY <2>1
  <2>3. QED
    BY <2>2 DEF u
<1>5. QED
  BY <1>1, <1>2, <1>3, <1>4

LEMMA HighPart ==
  ASSUME NEW y \in 0 .. BYTE - 1, NEW z \in Nat
  PROVE  \A e \in 0 .. 2 * BITS : (y + BYTE * z) \div 2^(BITS + e) = z \div 2^e
<1> DEFINE t == y + BYTE * z
           S == {e \in 0 .. 2 * BITS : t \div 2^(BITS + e) = z \div 2^e}
<1>1. BYTE \in Nat \ {0} /\ y \in Nat /\ t \in Nat /\ BITS \in Nat /\ 2 * BITS \in Nat
  BY Powers, LzwDecodeAssumption
<1>2. 0 \in S
  <2>1. 2^0 = 1 /\ BITS + 0 = BITS /\ z \div 1 = z
    BY LzwDecodeAssumption
  <2>2. t = BYTE * z + y
    BY <1>1
  <2>3. t \div BYTE = z
    BY <1>1, <2>2, QuotientIs
  <2>4. QED
    BY <1>1, <2>1, <2>3 DEF BYTE
<1>3. ASSUME NEW e \in 0 .. 2 * BITS - 1, e \in S PROVE e + 1 \in S
  <2>1. BITS + e \in 0 .. 3 * BITS /\ e \in 0 .. 3 * BITS /\ (BITS + e) + 1 = BITS + (e + 1)
    BY <1>1
  <2>2. t \div 2^(BITS + (e + 1)) = (t \div 2^(BITS + e)) \div 2 /\ z \div 2^(e + 1) = (z \div 2^e) \div 2
    <3> HIDE DEF t
    <3>1. QED
      BY <1>1, <2>1, Halves
  <2>3. t \div 2^(BITS + e) = z \div 2^e
    BY <1>3
  <2>4. t \div 2^(BITS + (e + 1)) = z \div 2^(e + 1)
    BY <2>2, <2>3
  <2>5. e + 1 \in 0 .. 2 * BITS
    BY <1>1
  <2>6. QED
    BY <2>4, <2>5
<1>4. \A e \in 0 .. 2 * BITS : e \in S
  <2> HIDE DEF S
  <2>1. QED
    BY <1>1, <1>2, <1>3, StepByStep
<1>5. QED
  BY <1>4

(* The bits of three bytes. *)
LEMMA BitsOfThree ==
  ASSUME NEW x \in 0 .. BYTE - 1, NEW y \in 0 .. BYTE - 1, NEW z \in 0 .. BYTE - 1,
         NEW t, t = x + y * BYTE + z * BYTE * BYTE
  PROVE  /\ t \in Nat
         /\ \A e \in 0 .. BITS - 1 :
              /\ (t \div 2^e) % 2 = (x \div 2^e) % 2
              /\ (t \div 2^(BITS + e)) % 2 = (y \div 2^e) % 2
              /\ (t \div 2^(2 * BITS + e)) % 2 = (z \div 2^e) % 2
<1> DEFINE h == y + BYTE * z
<1>1. BYTE \in Nat /\ x \in Nat /\ y \in Nat /\ z \in Nat /\ BITS \in Nat
  BY Powers, LzwDecodeAssumption
<1>2. h \in Nat /\ t = x + BYTE * h /\ t \in Nat
  <2>1. BYTE * z \in Nat /\ y * BYTE \in Nat /\ y * BYTE = BYTE * y
    BY <1>1
  <2>2. z * BYTE * BYTE = BYTE * (BYTE * z) /\ BYTE * (BYTE * z) \in Nat
    BY <1>1, <2>1
  <2>3. BYTE * h = BYTE * y + BYTE * (BYTE * z)
    BY <1>1, <2>1
  <2>4. QED
    BY <1>1, <2>1, <2>2, <2>3
<1>3. ASSUME NEW e \in 0 .. BITS - 1
      PROVE  /\ (t \div 2^e) % 2 = (x \div 2^e) % 2
             /\ (t \div 2^(BITS + e)) % 2 = (y \div 2^e) % 2
             /\ (t \div 2^(2 * BITS + e)) % 2 = (z \div 2^e) % 2
  <2>1. (t \div 2^e) % 2 = (x \div 2^e) % 2
    <3> HIDE DEF h
    <3>1. ((x + BYTE * h) \div 2^e) % 2 = (x \div 2^e) % 2
      BY <1>1, <1>2, LowBit
    <3>2. QED
      BY <1>2, <3>1
  <2>2. e \in 0 .. 2 * BITS /\ BITS + e \in 0 .. 2 * BITS
    BY <1>1
  <2>3. t \div 2^(BITS + e) = h \div 2^e /\ t \div 2^(BITS + (BITS + e)) = h \div 2^(BITS + e)
    <3> HIDE DEF h
    <3>1. QED
      BY <1>2, <2>2, HighPart
  <2>4. (h \div 2^e) % 2 = (y \div 2^e) % 2
    BY <1>1, LowBit
  <2>5. h \div 2^(BITS + e) = z \div 2^e
    BY <1>1, <2>2, HighPart
  <2>6. BITS + (BITS + e) = 2 * BITS + e
    BY <1>1
  <2>7. QED
    BY <2>1, <2>3, <2>4, <2>5, <2>6
<1>4. QED
  BY <1>2, <1>3

(* A number whose bits stand in another one is what is read there.         *)
LEMMA ReadsTheBits ==
  ASSUME NEW t \in Nat, NEW c \in Nat, NEW w \in Nat, c + w <= 3 * BITS, NEW v \in 0 .. 2^w - 1,
         \A b \in 0 .. w - 1 : (t \div 2^(c + b)) % 2 = (v \div 2^b) % 2
  PROVE  (t \div 2^c) % 2^w = v
<1> DEFINE S == {j \in 0 .. w : (t \div 2^(c + (w - j))) % 2^j = v \div 2^(w - j)}
<1>1. w \in 0 .. 3 * BITS /\ 2^w \in Nat \ {0} /\ v \in Nat /\ 2^0 = 1
  <2>1. w \in 0 .. 3 * BITS /\ 2^0 = 1
    BY LzwDecodeAssumption
  <2>2. 2^w \in Nat \ {0}
    BY <2>1, LzwDecodeAssumption
  <2>3. QED
    BY <2>1, <2>2
<1>2. 0 \in S
  <2> DEFINE m == 2^w
             u == t \div 2^(c + w)
  <2>1. c + w \in 0 .. 3 * BITS /\ w - 0 = w
    BY LzwDecodeAssumption
  <2>2. u \in Nat
    BY <2>1, Halves
  <2>3. v \div m = 0
    <3>1. m \in Nat \ {0} /\ v \in 0 .. m - 1
      BY <1>1
    <3> HIDE DEF m
    <3>2. (m * 0 + v) \div m = 0 /\ m * 0 + v = v
      BY <3>1, QuotientIs
    <3>3. QED
      BY <3>2
  <2> HIDE DEF u
  <2>4. u % 1 = 0
    BY <2>2
  <2>5. QED
    BY <1>1, <2>1, <2>3, <2>4 DEF u
<1>3. ASSUME NEW j \in 0 .. w - 1, j \in S PROVE j + 1 \in S
  <2> DEFINE g == w - (j + 1)
             a == t \div 2^(c + g + 1)
             b == (t \div 2^(c + g)) % 2
             d == (v \div 2^g) % 2
  <2>1. /\ g \in 0 .. w - 1 /\ g + 1 = w - j /\ c + g \in 0 .. 3 * BITS /\ g \in 0 .. 3 * BITS
        /\ (c + g) + 1 = c + (w - j) /\ j \in 0 .. 3 * BITS
    BY <1>1, LzwDecodeAssumption
  <2> HIDE DEF g
  <2>2. /\ t \div 2^(c + g) \in Nat /\ a = (t \div 2^(c + g)) \div 2
        /\ v \div 2^g \in Nat /\ v \div 2^(g + 1) = (v \div 2^g) \div 2
    BY <1>1, <2>1, Halves
  <2>3. a \in Nat /\ b \in 0 .. 1 /\ t \div 2^(c + g) = 2 * a + b
    <3> DEFINE q == t \div 2^(c + g)
    <3>1. q \in Nat /\ a = q \div 2 /\ b = q % 2
      BY <2>2
    <3> HIDE DEF q, a, b
    <3>2. a \in Nat /\ b \in 0 .. 1 /\ q = 2 * a + b
      BY <3>1
    <3>3. QED
      BY <3>2 DEF q
  <2>4. v \div 2^g = 2 * (v \div 2^(g + 1)) + d
    <3> DEFINE q == v \div 2^g
    <3>1. q \in Nat /\ v \div 2^(g + 1) = q \div 2 /\ d = q % 2
      BY <2>2
    <3> HIDE DEF q, d
    <3>2. q = 2 * (v \div 2^(g + 1)) + d
      BY <3>1
    <3>3. QED
      BY <3>2 DEF q
  <2>5. b = d
    BY <2>1
  <2>6. a % 2^j = v \div 2^(g + 1)
    BY <1>3, <2>1
  <2>7. 2^j \in Nat \ {0} /\ 2^(j + 1) = 2 * 2^j
    BY <2>1, LzwDecodeAssumption
  <2> HIDE DEF a, b, d
  <2>8. (2 * a + b) % (2 * 2^j) = 2 * (a % 2^j) + b
    <3> DEFINE m == 2^j
    <3>1. m \in Nat \ {0}
      BY <2>7
    <3> HIDE DEF m
    <3>2. (2 * a + b) % (2 * m) = 2 * (a % m) + b
      BY <2>3, <3>1, DoubledRest
    <3>3. QED
      BY <3>2 DEF m
  <2>9. (t \div 2^(c + g)) % 2^(j + 1) = v \div 2^g
    BY <2>3, <2>4, <2>5, <2>6, <2>7, <2>8
  <2>10. j + 1 \in 0 .. w
    BY <1>3
  <2>11. QED
    BY <2>9, <2>10 DEF g
<1>4. \A j \in 0 .. w : j \in S
  <2> HIDE DEF S
  <2>1. QED
    BY <1>2, <1>3, StepByStep
<1>5. w \in S /\ w - w = 0 /\ c + 0 = c /\ v \div 1 = v
  <2>1. w \in S
    <3> HIDE DEF S
    <3>1. QED
      BY <1>1, <1>4
  <2>2. QED
    BY <1>1, <2>1
<1>6. QED
  BY <1>1, <1>5

LEMMA Ascending ==
  ASSUME NEW a \in Nat, NEW b \in Nat, a <= b, b <= 3 * BITS
  PROVE  2^a <= 2^b
<1> DEFINE S == {d \in 0 .. b - a : 2^a <= 2^(a + d)}
<1>1. \A k \in 0 .. b : 2^k \in Nat \ {0} /\ 2^(k + 1) = 2 * 2^k
  BY LzwDecodeAssumption
<1>2. 0 \in S
  BY <1>1
<1>3. ASSUME NEW d \in 0 .. (b - a) - 1, d \in S PROVE d + 1 \in S
  <2>1. a + d \in 0 .. b /\ a \in 0 .. b /\ (a + d) + 1 = a + (d + 1)
    OBVIOUS
  <2>2. 2^(a + d) \in Nat /\ 2^a \in Nat /\ 2^(a + (d + 1)) = 2 * 2^(a + d)
    BY <1>1, <2>1
  <2>3. 2^a <= 2^(a + d)
    BY <1>3
  <2>4. 2^a <= 2^(a + (d + 1))
    BY <2>2, <2>3
  <2>5. QED
    BY <2>4
<1>4. \A d \in 0 .. b - a : d \in S
  <2>1. b - a \in Nat
    OBVIOUS
  <2> HIDE DEF S
  <2>2. QED
    BY <1>2, <1>3, <2>1, StepByStep
<1>5. b - a \in 0 .. b - a /\ a + (b - a) = b
  OBVIOUS
<1>6. QED
  BY <1>4, <1>5

(* There is one least length for as many words.                            *)
LEMMA OneWidth ==
  ASSUME NEW words \in Nat, NEW u \in BITS + 1 .. MAXBITS, NEW v \in BITS + 1 .. MAXBITS,
         words <= 2^u, words <= 2^v,
         u > BITS + 1 => words > 2^(u - 1), v > BITS + 1 => words > 2^(v - 1)
  PROVE  u = v
<1>1. BITS \in Nat /\ MAXBITS \in Nat /\ MAXBITS <= 3 * BITS /\ u \in Nat /\ v \in Nat /\ u - 1 \in Nat /\ v - 1 \in Nat
  BY LzwDecodeAssumption
<1>2. \A k \in 0 .. MAXBITS : 2^k \in Nat
  BY Powers
<1>3. ~(u < v)
  <2>1. SUFFICES ASSUME u < v PROVE FALSE
    OBVIOUS
  <2>2. 2^u <= 2^(v - 1) /\ words > 2^(v - 1) /\ 2^u \in Nat /\ 2^(v - 1) \in Nat
    BY <1>1, <1>2, <2>1, Ascending
  <2>3. QED
    BY <2>2
<1>4. ~(v < u)
  <2>1. SUFFICES ASSUME v < u PROVE FALSE
    OBVIOUS
  <2>2. 2^v <= 2^(u - 1) /\ words > 2^(u - 1) /\ 2^v \in Nat /\ 2^(u - 1) \in Nat
    BY <1>1, <1>2, <2>1, Ascending
  <2>3. QED
    BY <2>2
<1>5. QED
  BY <1>1, <1>3, <1>4

-------------------------------------------------------------------------------
(* Where the decoding of a sound stream stands. *)

Plain == input.plain

AsPlain == \A c \in 0 .. destctr - 1 : dest[c] = Plain[c + 1]

(* The n-th text is that of the n-th token behind the reset, and lies in   *)
(* what is written.                                                        *)
TextsAre(p, k) ==
  /\ Len(entries) = Words(p, k)
  /\ \A n \in 1 .. Len(entries) :
       /\ entries[n] = [at |-> p.to[p.since[k] + n],
                        len |-> p.to[p.since[k] + n + 1] - p.to[p.since[k] + n]]
       /\ p.to[p.since[k] + n] < p.to[p.since[k] + n + 1]
       /\ p.to[p.since[k] + n + 1] <= p.to[k]

(* The k-th token is the next to be read. *)
At(p, k) ==
  /\ pc = "token"
  /\ bitlen = p.width[k] /\ BITS * bytectr + bitctr = p.bit[k]
  /\ p.since[k] < k
  /\ TextsAre(p, k)
  /\ destctr = p.to[k]

Done == pc = "end" /\ destctr = length

Underway(p) == AsPlain /\ (Done \/ \E k \in 1 .. Len(p.text) : At(p, k))

TextInv == input.sound => \E p : Packs(input, p) /\ Underway(p)

(* A packing in numbers. *)
LEMMA PackedNumbers ==
  ASSUME Types, NEW p, Packs(input, p)
  PROVE  /\ Len(p.text) \in Nat \ {0}
         /\ \A k \in 1 .. Len(p.text) :
              /\ p.text[k] \in Nat /\ p.to[k] \in Nat /\ p.since[k] \in Nat
              /\ p.bit[k] \in Nat /\ p.bit[k + 1] \in Nat
              /\ p.width[k] \in BITS + 1 .. MAXBITS /\ PacksBits(input, p, k)
         /\ src \in Seq(0 .. BYTE - 1) /\ complength \in Nat /\ complength < WORD
         /\ Plain \in Seq(0 .. BYTE - 1) /\ length = Len(Plain)
<1>1. /\ p.text \in Seq(Nat) /\ Len(p.text) > 0
      /\ p.bit \in [1 .. Len(p.text) + 1 -> Nat] /\ p.width \in [1 .. Len(p.text) -> Nat]
      /\ p.to \in [1 .. Len(p.text) -> Nat] /\ p.since \in [1 .. Len(p.text) -> Nat]
      /\ \A k \in 1 .. Len(p.text) : PacksBits(input, p, k)
      /\ Len(input.src) < WORD
      /\ Plain \in Seq(0 .. BYTE - 1) /\ length = Len(Plain)
  BY DEF Packs, Plain, length
<1>2. Len(p.text) \in Nat \ {0}
  BY <1>1
<1>3. ASSUME NEW k \in 1 .. Len(p.text)
      PROVE  /\ p.text[k] \in Nat /\ p.to[k] \in Nat /\ p.since[k] \in Nat
             /\ p.bit[k] \in Nat /\ p.bit[k + 1] \in Nat
             /\ p.width[k] \in BITS + 1 .. MAXBITS /\ PacksBits(input, p, k)
  <2>1. k \in 1 .. Len(p.text) + 1 /\ k + 1 \in 1 .. Len(p.text) + 1
    BY <1>2
  <2>2. PacksBits(input, p, k)
    BY <1>1
  <2>3. p.width[k] \in BITS + 1 .. MAXBITS
    BY <2>2 DEF PacksBits
  <2>4. p.text[k] \in Nat
    BY <1>1
  <2>5. p.to[k] \in Nat
    BY <1>1
  <2>6. p.since[k] \in Nat
    BY <1>1
  <2>7. p.bit[k] \in Nat /\ p.bit[k + 1] \in Nat
    BY <1>1, <2>1
  <2>8. QED
    BY <2>2, <2>3, <2>4, <2>5, <2>6, <2>7
<1>4. src \in Seq(0 .. BYTE - 1) /\ complength \in Nat /\ complength < WORD
  <2>1. src \in Seq(0 .. BYTE - 1)
    BY LzwDecodeAssumption DEF Types, src, BYTE
  <2>2. QED
    BY <1>1, <2>1 DEF complength, src
<1>5. QED
  BY <1>1, <1>2, <1>3, <1>4

(* The next token begins in the stream, and is what the packing says.      *)
LEMMA TokenIs ==
  ASSUME Types, NEW p, Packs(input, p), NEW k \in 1 .. Len(p.text), At(p, k)
  PROVE  bytectr < complength /\ token = p.text[k]
<1> DEFINE w == p.width[k]
           v == p.text[k]
           g == p.bit[k]
           x == SrcAt(bytectr)
           y == SrcAt(bytectr + 1)
           z == SrcAt(bytectr + 2)
<1>1. /\ BITS \in Nat \ {0} /\ BYTE \in Nat \ {0} /\ bitctr \in 0 .. BITS - 1 /\ bytectr \in Nat
      /\ w \in BITS + 1 .. 2 * BITS + 1 /\ bitlen = w /\ WORD \in Nat
      /\ BITS * bytectr + bitctr = g /\ g \in Nat
      /\ complength \in Nat /\ complength < WORD /\ src \in Seq(0 .. BYTE - 1) /\ complength = Len(src)
  <2>1. /\ BITS \in Nat \ {0} /\ BYTE \in Nat \ {0} /\ bitctr \in 0 .. BITS - 1 /\ bytectr \in Nat
        /\ MAXBITS \in Nat /\ MAXBITS <= 2 * BITS + 1 /\ WORD \in Nat
    BY Powers, LzwDecodeAssumption DEF Types
  <2>2. /\ w \in BITS + 1 .. MAXBITS /\ g \in Nat
        /\ complength \in Nat /\ complength < WORD /\ src \in Seq(0 .. BYTE - 1)
    BY PackedNumbers
  <2>3. bitlen = w /\ BITS * bytectr + bitctr = g
    BY DEF At
  <2> HIDE DEF w
  <2>4. w \in BITS + 1 .. 2 * BITS + 1
    BY <2>1, <2>2
  <2>5. QED
    BY <2>1, <2>2, <2>3, <2>4 DEF complength
<1>2. /\ v \in 0 .. 2^w - 1
      /\ \A b \in 0 .. w - 1 : Bit(input, g + b) = (v \div 2^b) % 2
      /\ g + w <= BITS * complength
  BY PackedNumbers DEF PacksBits, complength, src
<1> HIDE DEF w, v, g
<1>3. BITS * bytectr \in Nat /\ BITS * complength \in Nat
  BY <1>1
<1>4. bytectr < complength
  <2>1. BITS * bytectr < BITS * (complength - 1) + BITS
    <3>1. BITS * (complength - 1) + BITS = BITS * complength
      BY <1>1
    <3>2. QED
      BY <1>1, <1>2, <1>3, <3>1
  <2>2. bytectr <= complength - 1
    <3>1. bytectr \in Int /\ complength - 1 \in Int /\ BITS \in Nat \ {0}
      BY <1>1
    <3>2. QED
      BY <2>1, <3>1, InOrder
  <2>3. QED
    BY <1>1, <2>2
<1>5. x \in 0 .. BYTE - 1 /\ y \in 0 .. BYTE - 1 /\ z \in 0 .. BYTE - 1
  <2>1. ASSUME NEW n \in Nat PROVE SrcAt(n) \in 0 .. BYTE - 1
    <3>1. CASE n < complength
      <4>1. n + 1 \in 1 .. Len(src)
        BY <1>1, <3>1
      <4>2. QED
        BY <1>1, <3>1, <4>1 DEF SrcAt
    <3>2. CASE ~(n < complength)
      BY <1>1, <3>2 DEF SrcAt
    <3>3. QED
      BY <3>1, <3>2
  <2>2. bytectr + 1 \in Nat /\ bytectr + 2 \in Nat
    BY <1>1
  <2>3. QED
    BY <1>1, <2>1, <2>2
<1>6. tokenmaker = x + y * BYTE + z * BYTE * BYTE
  <2>1. (bytectr + 1) % WORD = bytectr + 1
    <3>1. bytectr + 1 \in 0 .. WORD - 1 /\ WORD \in Nat \ {0}
      BY <1>1, <1>4
    <3>2. QED
      BY <3>1, Small
  <2>2. (bytectr + 1) + 1 = bytectr + 2
    BY <1>1
  <2>3. QED
    BY <2>1, <2>2 DEF tokenmaker
<1> DEFINE t == tokenmaker
<1> HIDE DEF x, y, z
<1>7. /\ t \in Nat
      /\ \A e \in 0 .. BITS - 1 :
           /\ (t \div 2^e) % 2 = (x \div 2^e) % 2
           /\ (t \div 2^(BITS + e)) % 2 = (y \div 2^e) % 2
           /\ (t \div 2^(2 * BITS + e)) % 2 = (z \div 2^e) % 2
  BY <1>5, <1>6, BitsOfThree
<1>8. ASSUME NEW b \in 0 .. w - 1 PROVE (t \div 2^(bitctr + b)) % 2 = (v \div 2^b) % 2
  <2>0. /\ BITS \in Nat \ {0} /\ bitctr \in 0 .. BITS - 1 /\ bytectr \in Nat
        /\ w \in Nat /\ w <= 2 * BITS + 1 /\ b \in Nat /\ b < w
    <3>1. BITS \in Nat \ {0} /\ bitctr \in 0 .. BITS - 1 /\ bytectr \in Nat /\ w \in BITS + 1 .. 2 * BITS + 1
      BY <1>1
    <3>2. w \in Nat /\ w <= 2 * BITS + 1
      BY <3>1
    <3>3. b \in Nat /\ b < w
      BY <3>2
    <3>4. QED
      BY <3>1, <3>2, <3>3
  <2>9. complength \in Nat /\ g \in Nat /\ BITS * bytectr + bitctr = g
    BY <1>1
  <2>1. PICK j \in 0 .. 2, r \in 0 .. BITS - 1 : bitctr + b = BITS * j + r
    <3>1. bitctr + b \in 0 .. 3 * BITS - 1
      BY <2>0
    <3>2. QED
      BY <2>0, <3>1, InThree
  <2>2. g + b = BITS * (bytectr + j) + r
    <3>1. BITS * (bytectr + j) = BITS * bytectr + BITS * j /\ BITS * j \in Nat
      BY <2>0, <2>9
    <3>2. QED
      BY <2>0, <2>9, <1>3, <2>1, <3>1
  <2>3. (g + b) \div BITS = bytectr + j /\ (g + b) % BITS = r
    <3>1. bytectr + j \in Int
      BY <2>0, <2>9
    <3>2. QED
      BY <2>0, <2>9, <2>2, <3>1, QuotientIs
  <2>4. bytectr + j < complength
    <3>1. BITS * (bytectr + j) < BITS * (complength - 1) + BITS
      <4>1. BITS * (complength - 1) + BITS = BITS * complength /\ BITS * (bytectr + j) \in Nat
        BY <2>0, <2>9
      <4>2. g + b < g + w /\ g + b \in Nat /\ g + w \in Nat
        BY <2>0, <2>9
      <4>3. g + b < BITS * complength
        BY <1>2, <1>3, <4>2
      <4>4. BITS * (bytectr + j) <= g + b
        BY <2>2, <4>1, <4>2
      <4>5. QED
        BY <1>3, <4>1, <4>2, <4>3, <4>4
    <3>2. bytectr + j <= complength - 1
      <4>1. bytectr + j \in Int /\ complength - 1 \in Int /\ BITS \in Nat \ {0}
        BY <2>0, <2>9
      <4>2. QED
        BY <3>1, <4>1, InOrder
    <3>3. QED
      BY <2>0, <2>9, <3>2
  <2>5. Bit(input, g + b) = (SrcAt(bytectr + j) \div 2^r) % 2
    BY <2>3, <2>4 DEF Bit, SrcAt, src
  <2>6. (t \div 2^(bitctr + b)) % 2 = (SrcAt(bytectr + j) \div 2^r) % 2
    <3>1. CASE j = 0
      <4>1. BITS * 0 + r = r /\ bytectr + 0 = bytectr
        BY <2>0, <2>9
      <4>2. QED
        BY <1>7, <2>1, <3>1, <4>1 DEF x
    <3>2. CASE j = 1
      <4>1. BITS * 1 + r = BITS + r
        BY <2>0, <2>9
      <4>2. QED
        BY <1>7, <2>1, <3>2, <4>1 DEF y
    <3>3. CASE j = 2
      <4>1. BITS * 2 + r = 2 * BITS + r
        BY <2>0, <2>9
      <4>2. QED
        BY <1>7, <2>1, <3>3, <4>1 DEF z
    <3>4. QED
      BY <3>1, <3>2, <3>3
  <2>7. QED
    BY <1>2, <2>5, <2>6
<1>9. (t \div 2^bitctr) % 2^w = v
  <2>1. bitctr \in Nat /\ w \in Nat /\ bitctr + w <= 3 * BITS
    BY <1>1
  <2> HIDE DEF t
  <2>2. QED
    BY <1>2, <1>7, <1>8, <2>1, ReadsTheBits
<1>10. QED
  BY <1>1, <1>4, <1>9 DEF token, v

(* Reading it moves to where the next one begins. *)
LEMMA ConsumeMoves ==
  ASSUME Types, NEW p, Packs(input, p), NEW k \in 1 .. Len(p.text), At(p, k), Consume
  PROVE  BITS * bytectr' + bitctr' = p.bit[k + 1]
<1> DEFINE a == bitctr + bitlen
           q == a \div BITS
           r == a % BITS
<1>1. /\ BITS \in Nat \ {0} /\ WORD \in Nat \ {0} /\ bytectr \in Nat /\ bitctr \in Nat /\ bitlen \in Nat
      /\ a \in Nat
  BY LzwDecodeAssumption DEF Types
<1>2. q \in Int /\ r \in 0 .. BITS - 1 /\ a = BITS * q + r
  <2> HIDE DEF a
  <2>1. BITS \in Nat \ {0} /\ a \in Int
    BY <1>1
  <2>2. /\ a \div BITS \in Int /\ a % BITS \in 0 .. BITS - 1
        /\ a = BITS * (a \div BITS) + (a % BITS)
    BY <2>1, Division
  <2>3. QED
    BY <2>2
<1>3. bitctr' = r /\ bytectr' = (bytectr + q) % WORD
  BY DEF Consume
<1> HIDE DEF q, r
<1>4. /\ BITS * bytectr + bitctr = p.bit[k] /\ p.bit[k + 1] = p.bit[k] + bitlen
      /\ p.bit[k + 1] <= BITS * complength
  BY PackedNumbers DEF At, PacksBits, complength, src
<1>5. complength \in Nat /\ complength < WORD /\ p.bit[k] \in Nat /\ p.bit[k + 1] \in Nat
  BY PackedNumbers
<1>6. /\ BITS * (bytectr + q) = BITS * bytectr + BITS * q
      /\ BITS * bytectr \in Nat /\ BITS * q \in Int /\ BITS * complength \in Nat
  BY <1>1, <1>2, <1>5
<1>7. BITS * (bytectr + q) + r = p.bit[k + 1]
  BY <1>1, <1>2, <1>4, <1>5, <1>6
<1>8. bytectr + q \in 0 .. WORD - 1
  <2>1. 0 <= q
    <3>1. BITS * 0 < BITS * q + BITS
      BY <1>1, <1>2, <1>6
    <3>2. QED
      BY <1>1, <1>2, <3>1, InOrder
  <2>2. bytectr + q <= complength
    <3>1. BITS * (bytectr + q) < BITS * complength + BITS
      BY <1>1, <1>2, <1>4, <1>5, <1>6, <1>7
    <3>2. bytectr + q \in Int
      BY <1>1, <1>2
    <3>3. QED
      BY <1>1, <1>5, <3>1, <3>2, InOrder
  <2>3. QED
    BY <1>1, <1>2, <1>5, <2>1, <2>2
<1>9. (bytectr + q) % WORD = bytectr + q
  BY <1>1, <1>8, Small
<1>10. QED
  BY <1>3, <1>7, <1>9

(* How many texts there are for a token: no more than since the reset, and *)
(* all of them as long as tokens can name them.                            *)
LEMMA WordCount ==
  ASSUME NEW p, NEW k \in Nat, p.since[k] \in Nat, p.since[k] < k
  PROVE  /\ Words(p, k) \in Nat /\ Words(p, k) <= k - 1 - p.since[k]
         /\ FIRST + Words(p, k) <= 2^MAXBITS /\ FIRST \in Nat /\ 2^MAXBITS \in Nat
         /\ FIRST + Words(p, k) < 2^MAXBITS => Words(p, k) = k - 1 - p.since[k]
         /\ p.since[k] = k - 1 => Words(p, k) = 0
         /\ p.since[k + 1] = p.since[k] =>
              Words(p, k + 1) = IF FIRST + Words(p, k) = 2^MAXBITS THEN Words(p, k) ELSE Words(p, k) + 1
<1> DEFINE n == k - 1 - p.since[k]
           most == 2^MAXBITS - FIRST
<1>1. FIRST \in Nat /\ 2^MAXBITS \in Nat /\ FIRST <= 2^MAXBITS
  <2>1. BITS + 1 \in Nat /\ MAXBITS \in Nat /\ BITS + 1 <= MAXBITS /\ MAXBITS <= 3 * BITS
    BY LzwDecodeAssumption
  <2>2. 2^(BITS + 1) <= 2^MAXBITS
    BY <2>1, Ascending
  <2>3. 2^MAXBITS \in Nat
    BY <2>1, Powers
  <2>4. QED
    BY <2>2, <2>3, Powers DEF FIRST
<1>2. most \in Nat /\ n \in Nat /\ FIRST + most = 2^MAXBITS
  BY <1>1
<1>3. Words(p, k) = IF n <= most THEN n ELSE most
  BY DEF Words
<1>4. p.since[k + 1] = p.since[k] => Words(p, k + 1) = IF n + 1 <= most THEN n + 1 ELSE most
  <2>1. p.since[k + 1] = p.since[k] => (k + 1) - 1 - p.since[k + 1] = n + 1
    OBVIOUS
  <2>2. QED
    BY <2>1 DEF Words
<1>5. p.since[k] = k - 1 => n = 0
  OBVIOUS
<1> HIDE DEF n, most
<1>6. QED
  <2>1. Words(p, k) \in Nat /\ Words(p, k) <= n /\ Words(p, k) <= most
    BY <1>2, <1>3
  <2>2. FIRST + Words(p, k) = 2^MAXBITS <=> Words(p, k) = most
    BY <1>1, <1>2, <2>1
  <2>3. FIRST + Words(p, k) < 2^MAXBITS <=> Words(p, k) < most
    BY <1>1, <1>2, <2>1
  <2>4. FIRST + Words(p, k) <= 2^MAXBITS
    BY <1>1, <1>2, <2>1
  <2>5. Words(p, k) < most => Words(p, k) = n
    BY <1>2, <1>3
  <2>6. n = 0 => Words(p, k) = 0
    BY <1>2, <1>3
  <2>7. ASSUME p.since[k + 1] = p.since[k]
        PROVE  Words(p, k + 1) = IF Words(p, k) = most THEN Words(p, k) ELSE Words(p, k) + 1
    BY <1>2, <1>3, <1>4, <2>7
  <2>8. QED
    BY <1>1, <1>5, <2>1, <2>2, <2>3, <2>4, <2>5, <2>6, <2>7 DEF n

(* Registering a text keeps the length of the tokens the packing's.        *)
LEMMA WidthFollows ==
  ASSUME Types, NEW p, Packs(input, p), NEW k \in 1 .. Len(p.text) - 1, At(p, k),
         p.since[k + 1] = p.since[k], NEW at, NEW len, Register(at, len)
  PROVE  /\ bitlen' = p.width[k + 1]
         /\ entries' = IF FIRST + Words(p, k) = 2^MAXBITS THEN entries
                       ELSE Append(entries, Entry(at, len))
<1> DEFINE u == FIRST + Words(p, k)
           t == FIRST + Words(p, k + 1)
           w == p.width[k + 1]
<1>1. Len(p.text) \in Nat /\ k \in 1 .. Len(p.text) /\ k + 1 \in 1 .. Len(p.text) /\ k \in Nat
  BY PackedNumbers
<1>2. /\ bitlen \in BITS + 1 .. MAXBITS /\ u <= 2^bitlen /\ (bitlen > BITS + 1 => u > 2^(bitlen - 1))
      /\ tokenctr = u
  BY <1>1, PackedNumbers DEF Types, At, TextsAre, PacksBits, tokenctr
<1>3. w \in BITS + 1 .. MAXBITS /\ t <= 2^w /\ (w > BITS + 1 => t > 2^(w - 1))
  BY <1>1, PackedNumbers DEF PacksBits
<1>4. /\ u \in Nat /\ u <= 2^MAXBITS /\ 2^MAXBITS \in Nat
      /\ t = IF u = 2^MAXBITS THEN u ELSE u + 1
  <2>1. p.since[k] \in Nat /\ p.since[k] < k
    BY <1>1, PackedNumbers DEF At
  <2>2. QED
    BY <1>1, <2>1, WordCount
<1>5. /\ BITS \in Nat /\ MAXBITS \in Nat /\ MAXBITS <= 3 * BITS
      /\ \A e \in 0 .. MAXBITS : 2^e \in Nat \ {0} /\ 2^(e + 1) = 2 * 2^e
  BY Powers, LzwDecodeAssumption
<1>6. Full <=> u = 2^MAXBITS
  <2>1. ASSUME Full PROVE u = 2^MAXBITS
    <3>1. bitlen = MAXBITS
      BY <1>2, <1>5, <2>1 DEF Full
    <3>2. QED
      BY <1>2, <2>1, <3>1 DEF Full
  <2>2. ASSUME u = 2^MAXBITS PROVE Full
    <3>1. CASE bitlen < MAXBITS
      <4>1. bitlen + 1 \in Nat /\ bitlen + 1 <= MAXBITS /\ bitlen \in 0 .. MAXBITS
        BY <1>2, <1>5, <3>1
      <4>2. 2^(bitlen + 1) <= 2^MAXBITS
        BY <1>5, <4>1, Ascending
      <4>3. 2^bitlen \in Nat \ {0} /\ 2^(bitlen + 1) = 2 * 2^bitlen
        BY <1>5, <4>1
      <4>4. QED
        BY <1>2, <1>4, <2>2, <4>2, <4>3
    <3>2. CASE bitlen >= MAXBITS
      <4>1. bitlen = MAXBITS
        BY <1>2, <1>5, <3>2
      <4>2. QED
        BY <1>2, <2>2, <4>1 DEF Full
    <3>3. QED
      BY <1>2, <1>5, <3>1, <3>2
  <2>3. QED
    BY <2>1, <2>2
<1> HIDE DEF u, t, w
<1>7. bitlen' = w
  <2>1. bitlen \in 0 .. MAXBITS /\ bitlen - 1 \in 0 .. MAXBITS
    BY <1>2, <1>5
  <2>2. 2^bitlen \in Nat /\ 2^(bitlen - 1) \in Nat /\ 2^(bitlen + 1) = 2 * 2^bitlen /\ 2^bitlen >= 1
    BY <1>5, <2>1
  <2>3. CASE Full
    <3>1. bitlen' = bitlen /\ t = u
      BY <1>4, <1>6, <2>3 DEF Register
    <3>2. QED
      BY <1>2, <1>3, <1>4, <3>1, OneWidth
  <2>4. CASE ~Full /\ u = 2^bitlen
    <3>1. bitlen' = bitlen + 1 /\ t = u + 1
      BY <1>2, <1>4, <1>6, <2>4 DEF Register
    <3>2. bitlen + 1 \in BITS + 1 .. MAXBITS /\ (bitlen + 1) - 1 = bitlen
      BY <1>2, <1>5, <2>4 DEF Full
    <3>3. t \in Nat /\ t <= 2^(bitlen + 1) /\ t > 2^((bitlen + 1) - 1)
      <4>1. t = 2^bitlen + 1
        BY <2>4, <3>1
      <4>2. t \in Nat /\ t <= 2 * 2^bitlen /\ t > 2^bitlen
        BY <2>2, <4>1
      <4>3. QED
        BY <2>2, <3>2, <4>2
    <3>4. bitlen + 1 = w
      BY <1>3, <3>2, <3>3, OneWidth
    <3>5. QED
      BY <3>1, <3>4
  <2>5. CASE ~Full /\ u # 2^bitlen
    <3>1. bitlen' = bitlen /\ t = u + 1
      BY <1>2, <1>4, <1>6, <2>5 DEF Register
    <3>2. t \in Nat /\ t <= 2^bitlen /\ (bitlen > BITS + 1 => t > 2^(bitlen - 1))
      BY <1>2, <1>4, <2>2, <2>5, <3>1
    <3>3. bitlen = w
      BY <1>2, <1>3, <3>2, OneWidth
    <3>4. QED
      BY <3>1, <3>3
  <2>6. QED
    BY <2>3, <2>4, <2>5
<1>8. entries' = IF u = 2^MAXBITS THEN entries ELSE Append(entries, Entry(at, len))
  BY <1>6 DEF Register
<1>9. QED
  BY <1>7, <1>8 DEF u, w

(* A text that is given where the packing has it leads to its next token.  *)
LEMMA Onwards ==
  ASSUME Types, NEW p, Packs(input, p), NEW k \in 1 .. Len(p.text) - 1, At(p, k),
         p.since[k + 1] = p.since[k], p.to[k] < p.to[k + 1], p.to[k + 1] <= length,
         Consume, Register(p.to[k], p.to[k + 1] - p.to[k]),
         pc' = "token", destctr' = p.to[k + 1]
  PROVE  At(p, k + 1)'
<1> DEFINE s == p.since[k]
<1>1. Len(p.text) \in Nat /\ k \in 1 .. Len(p.text) /\ k + 1 \in 1 .. Len(p.text) /\ k \in Nat
  BY PackedNumbers
<1>2. s \in Nat /\ s < k /\ p.to[k] \in Nat /\ p.to[k + 1] \in Nat
  BY <1>1, PackedNumbers DEF At
<1>3. p.to[k + 1] < WORD /\ WORD \in Nat \ {0}
  BY <1>2, Sizes, LzwDecodeAssumption
<1> DEFINE e == [at |-> p.to[k], len |-> p.to[k + 1] - p.to[k]]
<1>4. Entry(p.to[k], p.to[k + 1] - p.to[k]) = e
  <2>1. p.to[k] % WORD = p.to[k]
    <3>1. p.to[k] \in 0 .. WORD - 1
      BY <1>2, <1>3
    <3>2. QED
      BY <1>3, <3>1, Small
  <2>2. QED
    BY <2>1 DEF Entry
<1>5. /\ bitlen' = p.width[k + 1]
      /\ entries' = IF FIRST + Words(p, k) = 2^MAXBITS THEN entries ELSE Append(entries, e)
  BY <1>4, WidthFollows
<1>6. BITS * bytectr' + bitctr' = p.bit[k + 1]
  BY <1>1, ConsumeMoves
<1>7. /\ Words(p, k) \in Nat /\ FIRST \in Nat /\ 2^MAXBITS \in Nat /\ FIRST + Words(p, k) <= 2^MAXBITS
      /\ FIRST + Words(p, k) < 2^MAXBITS => Words(p, k) = k - 1 - s
      /\ Words(p, k + 1) = IF FIRST + Words(p, k) = 2^MAXBITS THEN Words(p, k) ELSE Words(p, k) + 1
      /\ Words(p, k) <= k - 1 - s
  BY <1>1, <1>2, WordCount
<1>8. /\ Len(entries) = Words(p, k) /\ entries \in Seq(Texts)
      /\ \A n \in 1 .. Len(entries) :
           /\ entries[n] = [at |-> p.to[s + n], len |-> p.to[s + n + 1] - p.to[s + n]]
           /\ p.to[s + n] < p.to[s + n + 1]
           /\ p.to[s + n + 1] <= p.to[k]
  BY DEF At, TextsAre, Types
<1>9. ASSUME NEW n \in 1 .. Len(entries) PROVE p.to[s + n + 1] <= p.to[k + 1]
  <2> HIDE DEF s
  <2>1. n \in Nat /\ n <= k - 1 - s
    BY <1>1, <1>2, <1>7, <1>8
  <2>2. s + n + 1 \in 1 .. Len(p.text)
    BY <1>1, <1>2, <2>1
  <2>3. p.to[s + n + 1] \in Nat
    BY <2>2, PackedNumbers
  <2>4. p.to[s + n + 1] <= p.to[k]
    BY <1>8
  <2>5. QED
    BY <1>2, <2>3, <2>4
<1>10. /\ Len(entries') = Words(p, k + 1)
       /\ \A n \in 1 .. Len(entries') :
            /\ entries'[n] = [at |-> p.to[s + n], len |-> p.to[s + n + 1] - p.to[s + n]]
            /\ p.to[s + n] < p.to[s + n + 1]
            /\ p.to[s + n + 1] <= p.to[k + 1]
  <2>1. CASE FIRST + Words(p, k) = 2^MAXBITS
    BY <1>5, <1>7, <1>8, <1>9, <2>1
  <2>2. CASE FIRST + Words(p, k) # 2^MAXBITS
    <3>1. /\ Len(entries') = Len(entries) + 1 /\ Len(entries) \in Nat
          /\ \A n \in 1 .. Len(entries) : entries'[n] = entries[n]
          /\ entries'[Len(entries) + 1] = e
      <4>1. entries' = Append(entries, e)
        BY <1>5, <2>2
      <4> HIDE DEF e
      <4>2. QED
        BY <1>8, <4>1
    <3>2. s + (Len(entries) + 1) = k /\ s + (Len(entries) + 1) + 1 = k + 1
      <4> HIDE DEF s
      <4>1. FIRST + Words(p, k) < 2^MAXBITS
        BY <1>7, <2>2
      <4>2. Len(entries) = k - 1 - s
        BY <1>7, <1>8, <4>1
      <4>3. QED
        BY <1>1, <1>2, <4>2
    <3>3. ASSUME NEW n \in 1 .. Len(entries')
          PROVE  /\ entries'[n] = [at |-> p.to[s + n], len |-> p.to[s + n + 1] - p.to[s + n]]
                 /\ p.to[s + n] < p.to[s + n + 1]
                 /\ p.to[s + n + 1] <= p.to[k + 1]
      <4>1. CASE n \in 1 .. Len(entries)
        BY <1>8, <1>9, <3>1, <4>1
      <4>2. CASE n = Len(entries) + 1
        BY <1>2, <3>1, <3>2, <4>2
      <4>3. QED
        BY <3>1, <4>1, <4>2
    <3>4. QED
      BY <1>7, <1>8, <2>2, <3>1, <3>3
  <2>3. QED
    BY <2>1, <2>2
<1>11. TextsAre(p, k + 1)'
  BY <1>10 DEF TextsAre
<1>12. p.since[k + 1] < k + 1
  BY <1>1, <1>2
<1>13. QED
  BY <1>5, <1>6, <1>11, <1>12 DEF At

(* The kinds of token there are, and that the last is the terminator.      *)
LEMMA TokenKind ==
  ASSUME Types, NEW p, Packs(input, p), NEW k \in 1 .. Len(p.text), At(p, k)
  PROVE  \/ token = TERMINATOR /\ destctr = length
         \/ /\ k \in 1 .. Len(p.text) - 1 /\ k + 1 \in 1 .. Len(p.text)
            /\ p.to[k + 1] <= length
            /\ PacksByte(input, p, k) \/ PacksLink(input, p, k) \/ PacksReset(input, p, k)
<1>1. Len(p.text) \in Nat /\ token = p.text[k]
  BY PackedNumbers, TokenIs
<1>2. CASE k = Len(p.text)
  BY <1>1, <1>2 DEF Packs, At, length
<1>3. CASE k # Len(p.text)
  <2>1. k \in 1 .. Len(p.text) - 1 /\ k + 1 \in 1 .. Len(p.text)
    BY <1>1, <1>3
  <2>2. length = Len(input.plain)
    BY DEF Packs, length
  <2>3. QED
    BY <2>1, <2>2 DEF Packs
<1>4. QED
  BY <1>2, <1>3

LEMMA ByteFollows ==
  ASSUME Types, NEW p, Packs(input, p), AsPlain, NEW k \in 1 .. Len(p.text), At(p, k), Literal
  PROVE  AsPlain' /\ k + 1 \in 1 .. Len(p.text) /\ At(p, k + 1)'
<1>1. token = p.text[k] /\ token < RESET /\ token \in Nat /\ BYTE \in Nat
  BY TokenIs, Tokens, Powers DEF Literal
<1>2. /\ k \in 1 .. Len(p.text) - 1 /\ k + 1 \in 1 .. Len(p.text) /\ p.to[k + 1] <= length
      /\ PacksByte(input, p, k)
  <2>1. token # TERMINATOR /\ token # RESET /\ ~(token \in FIRST .. FIRST + Words(p, k) - 1)
    BY <1>1 DEF RESET, TERMINATOR, FIRST
  <2>2. ~PacksLink(input, p, k) /\ ~PacksReset(input, p, k)
    BY <1>1, <2>1 DEF PacksLink, PacksReset
  <2>3. QED
    BY <2>1, <2>2, TokenKind
<1>3. /\ p.to[k + 1] = p.to[k] + 1 /\ p.since[k + 1] = p.since[k] /\ Plain[p.to[k] + 1] = token
      /\ destctr = p.to[k]
  BY <1>1, <1>2 DEF PacksByte, Plain, At
<1>4. destctr \in Nat /\ destctr < length /\ destctr + 1 \in 0 .. WORD - 1 /\ WORD \in Nat \ {0}
  BY <1>2, <1>3, Sizes, LzwDecodeAssumption DEF Types
<1>5. (destctr + 1) % WORD = destctr + 1
  BY <1>4, Small
<1>6. destctr' = destctr + 1 /\ dest' = [dest EXCEPT ![destctr] = token] /\ input' = input /\ pc' = pc
  BY <1>4, <1>5 DEF Literal
<1>7. AsPlain'
  <2>1. destctr \in DOMAIN dest
    BY <1>4, Sizes DEF Types
  <2>2. ASSUME NEW c \in 0 .. destctr' - 1 PROVE dest'[c] = Plain[c + 1]
    <3>1. CASE c = destctr
      BY <1>3, <1>6, <2>1, <3>1
    <3>2. CASE c # destctr
      <4>1. c \in 0 .. destctr - 1
        BY <1>4, <1>6, <3>2
      <4>2. dest'[c] = dest[c]
        BY <1>4, <1>6, <3>2, <4>1, Sizes DEF Types
      <4>3. QED
        BY <4>1, <4>2 DEF AsPlain
    <3>3. QED
      BY <3>1, <3>2
  <2>3. QED
    BY <1>6, <2>2 DEF AsPlain, Plain
<1>8. At(p, k + 1)'
  <2>1. p.to[k] < p.to[k + 1] /\ destctr' = p.to[k + 1] /\ destctr' - 1 = p.to[k] /\ p.to[k + 1] - p.to[k] = 1
    BY <1>3, <1>4, <1>6
  <2>2. Consume /\ Register(destctr' - 1, 1) /\ pc' = "token"
    BY <1>6 DEF Literal, At
  <2>3. Register(p.to[k], p.to[k + 1] - p.to[k])
    BY <2>1, <2>2
  <2>4. QED
    BY <1>2, <1>3, <2>1, <2>2, <2>3, Onwards
<1>9. QED
  BY <1>2, <1>7, <1>8

(* A link of a packed stream is to a text there is, and it fits.           *)
LEMMA LinkIs ==
  ASSUME Types, NEW p, Packs(input, p), NEW k \in 1 .. Len(p.text), At(p, k),
         token # TERMINATOR, token >= FIRST
  PROVE  /\ k \in 1 .. Len(p.text) - 1 /\ k + 1 \in 1 .. Len(p.text)
         /\ p.since[k + 1] = p.since[k]
         /\ p.to[k] = destctr /\ p.to[k + 1] = destctr + linklength /\ p.to[k + 1] <= length
         /\ Known /\ linklength = Linked.len + 1 /\ linklength < WORD
         /\ Linked.at \in Nat /\ Linked.len \in Nat \ {0} /\ Linked.at + Linked.len <= destctr
         /\ \A d \in 0 .. Linked.len : Plain[destctr + d + 1] = Plain[Linked.at + d + 1]
<1>1. token = p.text[k] /\ token \in Nat /\ BYTE \in Nat /\ FIRST \in Nat
  BY TokenIs, Tokens, Powers DEF FIRST
<1>2. /\ k \in 1 .. Len(p.text) - 1 /\ k + 1 \in 1 .. Len(p.text) /\ p.to[k + 1] <= length
      /\ PacksLink(input, p, k)
  <2>1. ~PacksByte(input, p, k) /\ ~PacksReset(input, p, k)
    BY <1>1 DEF PacksByte, PacksReset, RESET, FIRST
  <2>2. QED
    BY <2>1, TokenKind
<1> DEFINE e == token - FIRST + 1
           m == p.since[k] + token - FIRST + 1
<1>3. /\ Words(p, k) \in Nat /\ Words(p, k) <= k - 1 - p.since[k] /\ Len(entries) = Words(p, k)
      /\ p.since[k] \in Nat /\ p.to[k] \in Nat /\ p.to[k + 1] \in Nat /\ k \in Nat /\ Len(p.text) \in Nat
      /\ p.to[k] = destctr
  <2>1. p.since[k] \in Nat /\ p.since[k] < k /\ p.to[k] \in Nat /\ k \in Nat /\ Len(p.text) \in Nat
    BY PackedNumbers DEF At
  <2>2. p.to[k + 1] \in Nat
    BY <1>2, PackedNumbers
  <2>3. QED
    BY <2>1, <2>2, WordCount DEF At, TextsAre
<1>4. token \in FIRST .. FIRST + Words(p, k) - 1
  BY <1>1, <1>2 DEF PacksLink
<1>5. e \in 1 .. Len(entries) /\ m = p.since[k] + e /\ m + 1 \in 1 .. Len(p.text) /\ m \in 1 .. Len(p.text)
  <2>1. e \in 1 .. Words(p, k) /\ m = p.since[k] + e
    <3> DEFINE f == FIRST
               t == token
               w == Words(p, k)
               r == p.since[k]
    <3>1. f \in Nat /\ t \in f .. f + w - 1 /\ w \in Nat /\ r \in Nat
      BY <1>1, <1>3, <1>4
    <3>2. e = t - f + 1 /\ m = r + t - f + 1
      OBVIOUS
    <3> HIDE DEF f, t, w, r, e, m
    <3>3. e \in 1 .. w /\ m = r + e
      BY <3>1, <3>2
    <3>4. QED
      BY <3>3 DEF w, r
  <2> HIDE DEF e, m
  <2>2. m + 1 \in 1 .. Len(p.text) /\ m \in 1 .. Len(p.text)
    <3> DEFINE r == p.since[k]
    <3>1. /\ r \in Nat /\ k \in 1 .. Len(p.text) /\ Len(p.text) \in Nat /\ m = r + e /\ e \in Nat \ {0}
          /\ e <= k - 1 - r
      BY <1>3, <2>1
    <3> HIDE DEF r
    <3>2. QED
      BY <3>1
  <2>3. QED
    BY <1>3, <2>1, <2>2
<1>6. /\ p.to[k + 1] = p.to[k] + (p.to[m + 1] - p.to[m]) + 1 /\ p.since[k + 1] = p.since[k]
      /\ \A d \in 0 .. p.to[m + 1] - p.to[m] : Plain[p.to[k] + d + 1] = Plain[p.to[m] + d + 1]
  BY <1>1, <1>2 DEF PacksLink, Plain
<1> HIDE DEF m
<1>7. /\ Linked = [at |-> p.to[m], len |-> p.to[m + 1] - p.to[m]]
      /\ p.to[m] < p.to[m + 1] /\ p.to[m + 1] <= p.to[k]
  BY <1>5 DEF At, TextsAre, Linked
<1>8. p.to[m] \in Nat /\ p.to[m + 1] \in Nat
  BY <1>5, PackedNumbers
<1>9. Linked.at = p.to[m] /\ Linked.len = p.to[m + 1] - p.to[m]
  BY <1>7
<1>10. /\ Linked.at \in Nat /\ Linked.len \in Nat \ {0} /\ Linked.at + Linked.len <= destctr
       /\ p.to[k + 1] = destctr + (Linked.len + 1)
  <2> DEFINE a == p.to[m]
             b == p.to[m + 1]
             c == p.to[k]
             f == p.to[k + 1]
  <2>1. a \in Nat /\ b \in Nat /\ c \in Nat /\ a < b /\ b <= c /\ c = destctr
    BY <1>3, <1>7, <1>8
  <2>2. f = c + (b - a) + 1
    BY <1>6
  <2>3. Linked.at = a /\ Linked.len = b - a
    BY <1>9
  <2> HIDE DEF a, b, c
  <2>4. b - a \in Nat \ {0} /\ a + (b - a) <= c /\ f = c + ((b - a) + 1)
    BY <2>1, <2>2
  <2>5. QED
    BY <2>1, <2>3, <2>4
<1>11. Linked.len + 1 < WORD
  BY <1>2, <1>3, <1>10, Sizes, LzwDecodeAssumption
<1>12. linklength = Linked.len + 1
  <2>1. Linked.len + 1 \in 0 .. WORD - 1 /\ WORD \in Nat \ {0}
    BY <1>10, <1>11, LzwDecodeAssumption
  <2>2. QED
    BY <2>1, Small DEF linklength
<1>13. Known
  BY <1>1, <1>3, <1>4 DEF Known, tokenctr
<1>14. \A d \in 0 .. Linked.len : Plain[destctr + d + 1] = Plain[Linked.at + d + 1]
  BY <1>3, <1>6, <1>9
<1>15. QED
  BY <1>2, <1>3, <1>6, <1>10, <1>11, <1>12, <1>13, <1>14

(* What a link copies is what it stands for, the byte behind it included.  *)
LEMMA LinkFollows ==
  ASSUME Types, NEW p, Packs(input, p), AsPlain, NEW k \in 1 .. Len(p.text), At(p, k), Link
  PROVE  AsPlain' /\ k + 1 \in 1 .. Len(p.text) /\ At(p, k + 1)'
<1>1. token # TERMINATOR /\ token >= FIRST
  <2>1. token \in FIRST .. tokenctr - 1 /\ token \in Nat /\ BYTE \in Nat
    BY Tokens, Powers DEF Link, Known
  <2>2. QED
    BY <2>1 DEF FIRST, TERMINATOR
<1>2. /\ k \in 1 .. Len(p.text) - 1 /\ k + 1 \in 1 .. Len(p.text)
      /\ p.since[k + 1] = p.since[k]
      /\ p.to[k] = destctr /\ p.to[k + 1] = destctr + linklength /\ p.to[k + 1] <= length
      /\ linklength = Linked.len + 1 /\ linklength < WORD
      /\ Linked.at \in Nat /\ Linked.len \in Nat \ {0} /\ Linked.at + Linked.len <= destctr
      /\ \A d \in 0 .. Linked.len : Plain[destctr + d + 1] = Plain[Linked.at + d + 1]
  BY <1>1, LinkIs
<1> DEFINE a == Linked.at
           l == Linked.len
<1>3. destctr \in Nat /\ a \in Nat /\ l \in Nat \ {0} /\ a + l <= destctr /\ a < destctr
      /\ length \in 0 .. WORD - 1 /\ WORD \in Nat \ {0} /\ destctr + linklength <= length
      /\ linklength = l + 1
  <2>1. destctr \in Nat /\ length \in 0 .. WORD - 1 /\ WORD \in Nat \ {0}
    BY Sizes, LzwDecodeAssumption DEF Types
  <2>2. a \in Nat /\ l \in Nat \ {0} /\ a + l <= destctr /\ linklength = l + 1 /\ destctr + linklength <= length
    BY <1>2
  <2> HIDE DEF a, l
  <2>3. a < destctr
    BY <2>1, <2>2
  <2>4. QED
    BY <2>1, <2>2, <2>3
<1> HIDE DEF a, l
<1>4. (destctr + linklength) % WORD = destctr + linklength
  <2>1. destctr + linklength \in 0 .. WORD - 1
    BY <1>3
  <2>2. QED
    BY <1>3, <2>1, Small
<1>5. /\ destctr' = destctr + linklength /\ input' = input /\ pc' = pc /\ Consume
      /\ Register(destctr' - linklength, linklength)
      /\ dest' = [c \in DOMAIN dest |->
                    IF c \in destctr .. destctr + linklength - 1 THEN Copied(a + c - destctr) ELSE dest[c]]
  BY <1>4 DEF Link, a
<1>6. DOMAIN dest = 0 .. length - 1
  BY DEF Types
<1>7. \A d \in 0 .. l : Copied(a + d) = Plain[a + d + 1]
  <2>1. ASSUME NEW d \in 0 .. l PROVE Copied(a + d) = Plain[a + d + 1]
    <3>1. CASE a + d < destctr
      <4>1. a + d \in 0 .. destctr - 1 /\ a + d \in 0 .. length - 1
        BY <1>3, <3>1
      <4>2. Copied(a + d) = dest[a + d]
        BY <1>6, <3>1, <4>1 DEF Copied, Cell
      <4>3. QED
        BY <4>1, <4>2 DEF AsPlain
    <3>2. CASE ~(a + d < destctr)
      <4>1. a + d = destctr /\ destctr - a \in Nat \ {0} /\ ~(a >= destctr) /\ (a + d) - destctr = 0
        BY <1>3, <3>2
      <4>2. 0 % (destctr - a) = 0
        <5>1. 0 \in 0 .. (destctr - a) - 1
          BY <4>1
        <5>2. QED
          BY <4>1, <5>1, Small
      <4>3. Copied(a + d) = Cell(a + 0)
        BY <3>2, <4>1, <4>2 DEF Copied, a
      <4>4. a + 0 = a /\ a \in 0 .. length - 1 /\ a \in 0 .. destctr - 1
        BY <1>3
      <4>5. Copied(a + d) = dest[a]
        BY <1>6, <4>3, <4>4 DEF Cell
      <4>6. dest[a] = Plain[a + 1]
        BY <4>4 DEF AsPlain
      <4>7. Plain[destctr + 0 + 1] = Plain[a + 0 + 1]
        <5>1. 0 \in 0 .. l
          BY <1>3
        <5>2. QED
          BY <1>2, <5>1 DEF a, l
      <4>8. destctr + 0 + 1 = a + d + 1 /\ a + 0 + 1 = a + 1
        BY <1>3, <4>1
      <4>9. QED
        BY <4>5, <4>6, <4>7, <4>8
    <3>3. QED
      BY <3>1, <3>2
  <2>2. QED
    BY <2>1
<1>8. AsPlain'
  <2>1. ASSUME NEW c \in 0 .. destctr' - 1 PROVE dest'[c] = Plain[c + 1]
    <3>1. c \in 0 .. length - 1
      BY <1>3, <1>5
    <3>2. CASE c < destctr
      <4>1. c \in 0 .. destctr - 1 /\ ~(c \in destctr .. destctr + linklength - 1)
        BY <1>3, <1>5, <3>2
      <4>2. dest'[c] = dest[c]
        BY <1>5, <1>6, <3>1, <4>1
      <4>3. QED
        BY <4>1, <4>2 DEF AsPlain
    <3>3. CASE c >= destctr
      <4>1. c \in destctr .. destctr + linklength - 1
        BY <1>3, <1>5, <3>3
      <4>2. c - destctr \in 0 .. l /\ a + (c - destctr) = a + c - destctr /\ destctr + (c - destctr) + 1 = c + 1
        BY <1>3, <4>1
      <4>3. dest'[c] = Copied(a + c - destctr)
        BY <1>5, <1>6, <3>1, <4>1
      <4>4. Copied(a + (c - destctr)) = Plain[a + (c - destctr) + 1]
        BY <1>7, <4>2
      <4>5. Plain[destctr + (c - destctr) + 1] = Plain[a + (c - destctr) + 1]
        BY <1>2, <4>2 DEF a, l
      <4>6. QED
        BY <4>2, <4>3, <4>4, <4>5
    <3>4. QED
      BY <1>3, <3>1, <3>2, <3>3
  <2>2. QED
    BY <1>5, <2>1 DEF AsPlain, Plain
<1>9. At(p, k + 1)'
  <2>1. /\ p.to[k] < p.to[k + 1] /\ destctr' = p.to[k + 1]
        /\ destctr' - linklength = p.to[k] /\ p.to[k + 1] - p.to[k] = linklength
    <3>1. p.to[k] = destctr /\ p.to[k + 1] = destctr + linklength
      BY <1>2
    <3>2. QED
      BY <1>3, <1>5, <3>1
  <2>2. Consume /\ Register(destctr' - linklength, linklength) /\ pc' = "token"
    BY <1>5 DEF At
  <2>3. Register(p.to[k], p.to[k + 1] - p.to[k])
    BY <2>1, <2>2
  <2>4. QED
    BY <1>2, <2>1, <2>2, <2>3, Onwards
<1>10. QED
  BY <1>2, <1>8, <1>9

LEMMA ResetFollows ==
  ASSUME Types, NEW p, Packs(input, p), AsPlain, NEW k \in 1 .. Len(p.text), At(p, k), Reset
  PROVE  AsPlain' /\ k + 1 \in 1 .. Len(p.text) /\ At(p, k + 1)'
<1>1. token = p.text[k] /\ token = RESET /\ BYTE \in Nat /\ BYTE >= 2
  BY TokenIs, Powers DEF Reset
<1>2. k + 1 \in 1 .. Len(p.text) /\ PacksReset(input, p, k)
  <2>1. token # TERMINATOR /\ ~(token < RESET) /\ ~(token \in FIRST .. FIRST + Words(p, k) - 1)
    BY <1>1 DEF RESET, TERMINATOR, FIRST
  <2>2. ~PacksByte(input, p, k) /\ ~PacksLink(input, p, k)
    BY <1>1, <2>1 DEF PacksByte, PacksLink
  <2>3. QED
    BY <2>1, <2>2, TokenKind
<1>3. p.to[k + 1] = p.to[k] /\ p.since[k + 1] = k /\ k \in Nat
  BY <1>2 DEF PacksReset
<1>4. Words(p, k + 1) = 0 /\ FIRST \in Nat
  <2>1. k + 1 \in Nat /\ k = (k + 1) - 1 /\ k < k + 1
    BY <1>3
  <2>2. QED
    BY <1>3, <2>1, WordCount
<1>5. BITS + 1 = p.width[k + 1]
  <2>1. /\ p.width[k + 1] \in BITS + 1 .. MAXBITS /\ FIRST <= 2^p.width[k + 1]
        /\ p.width[k + 1] > BITS + 1 => FIRST > 2^(p.width[k + 1] - 1)
    <3>1. FIRST + 0 = FIRST
      BY <1>4
    <3>2. PacksBits(input, p, k + 1)
      BY <1>2, PackedNumbers
    <3>3. QED
      BY <1>4, <3>1, <3>2 DEF PacksBits
  <2>2. BITS + 1 \in BITS + 1 .. MAXBITS /\ ~(BITS + 1 > BITS + 1)
    BY LzwDecodeAssumption
  <2>3. FIRST <= 2^(BITS + 1)
    BY <1>1, Powers DEF FIRST
  <2>4. QED
    BY <1>4, <2>1, <2>2, <2>3, OneWidth
<1>6. BITS * bytectr' + bitctr' = p.bit[k + 1]
  BY ConsumeMoves DEF Reset
<1>7. /\ bitlen' = BITS + 1 /\ entries' = <<>> /\ destctr' = destctr /\ dest' = dest /\ input' = input
      /\ pc' = "token"
  BY DEF Reset, At
<1>8. TextsAre(p, k + 1)'
  BY <1>4, <1>7 DEF TextsAre
<1>9. At(p, k + 1)'
  BY <1>3, <1>5, <1>6, <1>7, <1>8 DEF At
<1>10. AsPlain'
  BY <1>7 DEF AsPlain, Plain
<1>11. QED
  BY <1>2, <1>9, <1>10

(* One step of the decoder is one token of the packing.                    *)
LEMMA Following ==
  ASSUME Types, NEW p, Packs(input, p), Underway(p), [Next]_vars
  PROVE  Underway(p)' /\ input' = input
<1>1. CASE Done
  <2>1. ~Next
    BY <1>1 DEF Done, Next, Exhausted, Terminate, Reset, Literal, Link, Overrun, TailByte, TailDone, BadToken, More
  <2>2. QED
    BY <1>1, <2>1 DEF vars, Underway, Done, AsPlain, Plain, length
<1>2. ASSUME NEW k \in 1 .. Len(p.text), At(p, k)
      PROVE  Underway(p)' /\ input' = input
  <2>0. /\ AsPlain /\ pc = "token"
        /\ bytectr < complength /\ bytectr \in Nat /\ complength \in Nat
        /\ token \in Nat /\ BYTE \in Nat /\ destctr \in Nat
    <3>1. AsPlain
      BY DEF Underway
    <3>2. pc = "token"
      BY <1>2 DEF At
    <3>3. bytectr < complength
      BY <1>2, TokenIs
    <3>4. bytectr \in Nat /\ destctr \in Nat
      BY LzwDecodeAssumption DEF Types
    <3>5. complength \in Nat /\ token \in Nat /\ BYTE \in Nat
      BY Tokens, PackedNumbers, Powers
    <3>6. QED
      BY <3>1, <3>2, <3>3, <3>4, <3>5
  <2>1. CASE Terminate
    <3>1. destctr = length
      <4>1. token = TERMINATOR /\ token = p.text[k]
        BY <1>2, <2>1, TokenIs DEF Terminate
      <4>2. ~PacksByte(input, p, k) /\ ~PacksLink(input, p, k) /\ ~PacksReset(input, p, k)
        <5>1. p.text[k] = BYTE + 1 /\ ~(BYTE + 1 < BYTE) /\ BYTE + 1 # BYTE
          BY <2>0, <4>1 DEF TERMINATOR
        <5>2. ~(BYTE + 1 \in BYTE + 2 .. BYTE + 2 + Words(p, k) - 1)
          BY <2>0
        <5>3. QED
          BY <5>1, <5>2 DEF PacksByte, PacksLink, PacksReset, RESET, FIRST
      <4>3. QED
        BY <1>2, <4>2, TokenKind
    <3>2. pc' = "end" /\ destctr' = destctr /\ dest' = dest /\ input' = input
      BY <2>1 DEF Terminate
    <3>3. QED
      BY <2>0, <3>1, <3>2 DEF Underway, Done, AsPlain, Plain, length
  <2>2. CASE Reset
    BY <1>2, <2>0, <2>2, ResetFollows DEF Underway, Reset
  <2>3. CASE Literal
    BY <1>2, <2>0, <2>3, ByteFollows DEF Underway, Literal
  <2>4. CASE Link
    BY <1>2, <2>0, <2>4, LinkFollows DEF Underway, Link
  <2>5. CASE Exhausted
    BY <2>0, <2>5 DEF Exhausted
  <2>6. CASE Overrun
    <3>1. token # TERMINATOR /\ token >= FIRST
      <4>1. token \in FIRST .. tokenctr - 1
        BY <2>6 DEF Overrun, Known
      <4>2. QED
        BY <2>0, <4>1 DEF FIRST, TERMINATOR
    <3>2. Fits
      BY <1>2, <3>1, LinkIs DEF Fits
    <3>3. QED
      BY <2>6, <3>2 DEF Overrun
  <2>7. CASE TailByte \/ TailDone
    BY <2>0, <2>7 DEF TailByte, TailDone
  <2>8. CASE BadToken
    <3>1. token >= tokenctr /\ tokenctr = FIRST + Words(p, k) /\ Words(p, k) \in Nat
      <4>1. k \in Nat /\ p.since[k] \in Nat /\ p.since[k] < k
        BY <1>2, PackedNumbers DEF At
      <4>2. Words(p, k) \in Nat
        BY <4>1, WordCount
      <4>3. QED
        BY <1>2, <2>8, <4>2 DEF BadToken, At, TextsAre, tokenctr
    <3>2. token # TERMINATOR /\ token >= FIRST
      BY <2>0, <3>1 DEF FIRST, TERMINATOR
    <3>3. Known
      BY <1>2, <3>2, LinkIs
    <3>4. QED
      BY <2>0, <3>1, <3>3 DEF Known, FIRST
  <2>9. CASE UNCHANGED vars
    <3>1. At(p, k)'
      BY <1>2, <2>9 DEF vars, reading, At, TextsAre
    <3>2. AsPlain' /\ input' = input
      BY <2>0, <2>9 DEF vars, AsPlain, Plain
    <3>3. QED
      BY <3>1, <3>2 DEF Underway
  <2>10. QED
    BY <2>1, <2>2, <2>3, <2>4, <2>5, <2>6, <2>7, <2>8, <2>9 DEF Next
<1>3. QED
  BY <1>1, <1>2 DEF Underway

LEMMA FirstToken ==
  ASSUME Init, NEW p, Packs(input, p)
  PROVE  Underway(p)
<1>1. Types
  BY Start DEF IInv
<1>2. Len(p.text) \in Nat \ {0} /\ 1 \in 1 .. Len(p.text)
  BY <1>1, PackedNumbers
<1>3. p.bit[1] = 0 /\ p.to[1] = 0 /\ p.since[1] = 0
  BY DEF Packs
<1>4. Words(p, 1) = 0 /\ FIRST \in Nat
  <2>1. p.since[1] \in Nat /\ p.since[1] < 1 /\ p.since[1] = 1 - 1
    BY <1>3
  <2>2. QED
    BY <2>1, WordCount
<1>5. BITS + 1 = p.width[1]
  <2>1. /\ p.width[1] \in BITS + 1 .. MAXBITS /\ FIRST <= 2^p.width[1]
        /\ p.width[1] > BITS + 1 => FIRST > 2^(p.width[1] - 1)
    <3>1. FIRST + 0 = FIRST
      BY <1>4
    <3>2. PacksBits(input, p, 1)
      BY <1>1, <1>2, PackedNumbers
    <3>3. QED
      BY <1>4, <3>1, <3>2 DEF PacksBits
  <2>2. BITS + 1 \in BITS + 1 .. MAXBITS /\ ~(BITS + 1 > BITS + 1)
    BY LzwDecodeAssumption
  <2>3. FIRST <= 2^(BITS + 1)
    BY Powers DEF FIRST
  <2>4. QED
    BY <1>4, <2>1, <2>2, <2>3, OneWidth
<1>6. BITS * bytectr + bitctr = p.bit[1]
  BY <1>3, LzwDecodeAssumption DEF Init
<1>7. At(p, 1)
  BY <1>3, <1>4, <1>5, <1>6 DEF Init, At, TextsAre
<1>8. AsPlain
  BY DEF Init, AsPlain
<1>9. QED
  BY <1>2, <1>7, <1>8 DEF Underway

(* A resource that was packed is unpacked, for every length of bytes and   *)
(* tokens and every stream: whatever texts, links and resets a stream has, *)
(* a token is read with the length it was written with and names the text  *)
(* it was written for, the one that is just being given included; what is  *)
(* written is the text from its first byte on, and all of it at the end.   *)
THEOREM WritesThePackedText ==
  ASSUME StreamsArePacked
  PROVE  Spec => []WritesWhatWasPacked
<1>1. Init => IInv /\ TextInv
  <2>1. SUFFICES ASSUME Init PROVE IInv /\ TextInv
    OBVIOUS
  <2>2. ASSUME input.sound PROVE \E p : Packs(input, p) /\ Underway(p)
    <3>1. PICK p : Packs(input, p)
      BY <2>1, <2>2 DEF Init, StreamsArePacked
    <3>2. QED
      BY <2>1, <3>1, FirstToken
  <2>3. QED
    BY <2>1, <2>2, Start DEF TextInv
<1>2. (IInv /\ TextInv) /\ [Next]_vars => (IInv /\ TextInv)'
  <2>1. SUFFICES ASSUME IInv, TextInv, [Next]_vars PROVE (IInv /\ TextInv)'
    OBVIOUS
  <2>2. IInv' /\ Types
    BY <2>1, Step DEF IInv
  <2>3. input' = input
    BY <2>1 DEF Next, vars, Exhausted, Terminate, Reset, Literal, Link, Overrun, TailByte, TailDone, BadToken
  <2>4. ASSUME input.sound PROVE \E p : Packs(input, p) /\ Underway(p)'
    <3>1. PICK p : Packs(input, p) /\ Underway(p)
      BY <2>1, <2>4 DEF TextInv
    <3>2. QED
      BY <2>1, <2>2, <3>1, Following
  <2>5. QED
    BY <2>2, <2>3, <2>4 DEF TextInv
<1>3. IInv /\ TextInv => WritesWhatWasPacked
  BY DEF TextInv, Underway, AsPlain, Plain, At, Done, WritesWhatWasPacked
<1>4. QED
  BY <1>1, <1>2, <1>3, PTL DEF Spec
================================================================================
