------------------------------- MODULE LzwDecode -------------------------------
(***************************************************************************)
(* The decoder of the resources of Silpheed and Sorcerian: tokens of nine  *)
(* to twelve bits, each a byte or a link to what an earlier token gave     *)
(* together with the byte behind it. A token's text is remembered by its   *)
(* place in the output. The main program, which sets the input's name      *)
(* aside, is in FileTools.                                                 *)
(*                                                                         *)
(* Scaled: a byte has BITS bits and a token up to MAXBITS.                 *)
(***************************************************************************)
EXTENDS LzwSizes

BYTE == 2^BITS

VARIABLES
  input, pc,
  bitlen,              \* bits of the next token
  bitctr, bytectr,     \* where it begins
  entries,             \* where the text of each token lies, and its length
  tokenlastlength,
  destctr, dest,
  i                    \* bytes of a link copied where the output ends

src == input.src
length == input.length
complength == Len(src)

reading == <<bitlen, bitctr, bytectr>>
vars == <<input, pc, reading, entries, tokenlastlength, destctr, dest, i>>

RESET == BYTE
TERMINATOR == BYTE + 1
FIRST == BYTE + 2

-------------------------------------------------------------------------------
(* The stream. A token is in up to three bytes, its lowest bit first; the  *)
(* bits behind the last byte are zero.                                     *)

SrcAt(k) == IF k < complength THEN src[k + 1] ELSE 0
tokenmaker ==
  LET next == (bytectr + 1) % WORD
  IN  SrcAt(bytectr) + SrcAt(next) * BYTE + SrcAt(next + 1) * BYTE * BYTE
token == (tokenmaker \div 2^bitctr) % 2^bitlen

More == pc = "token" /\ bytectr < complength

Consume ==
  /\ bitctr' = (bitctr + bitlen) % BITS
  /\ bytectr' = (bytectr + (bitctr + bitlen) \div BITS) % WORD

tokenctr == FIRST + Len(entries)
Full == tokenctr = 2^bitlen /\ bitlen >= MAXBITS

Entry(at, len) == [at |-> at % WORD, len |-> len]

(* Mutant: the tokens get longer one token too late.                       *)
RegisterLate(at, len) ==
  IF Full THEN UNCHANGED <<bitlen, entries>>
  ELSE /\ bitlen' = IF tokenctr > 2^bitlen THEN bitlen + 1 ELSE bitlen
       /\ entries' = Append(entries, Entry(at, len))

(* Mutant: the tokens get longer than twelve bits.                         *)
RegisterAlways(at, len) ==
  /\ bitlen' = IF tokenctr = 2^bitlen THEN bitlen + 1 ELSE bitlen
  /\ entries' = Append(entries, Entry(at, len))

(* The text of this token will be that of the next one that is given here. *)
Register(at, len) ==
  IF Full THEN UNCHANGED <<bitlen, entries>>
  ELSE /\ bitlen' = IF tokenctr = 2^bitlen THEN bitlen + 1 ELSE bitlen
       /\ entries' = Append(entries, Entry(at, len))

-------------------------------------------------------------------------------
(* The decoder. *)

Init ==
  /\ input \in Inputs
  /\ pc = "token"
  /\ bitlen = BITS + 1 /\ bitctr = 0 /\ bytectr = 0
  /\ entries = <<>> /\ tokenlastlength = 0
  /\ destctr = 0 /\ dest = [k \in 0 .. length - 1 |-> HOLE]
  /\ i = 0

Exhausted ==
  /\ pc = "token" /\ bytectr >= complength
  /\ pc' = "end"
  /\ UNCHANGED <<input, reading, entries, tokenlastlength, destctr, dest, i>>

Terminate ==
  /\ More /\ token = TERMINATOR
  /\ Consume
  /\ pc' = "end"
  /\ UNCHANGED <<input, bitlen, entries, tokenlastlength, destctr, dest, i>>

(* Mutant: the tokens keep their length.                                   *)
ResetTokens ==
  /\ More /\ token = RESET
  /\ Consume
  /\ entries' = <<>>
  /\ UNCHANGED <<input, pc, bitlen, tokenlastlength, destctr, dest, i>>

(* Mutant: the reset is read again.                                        *)
ResetAgain ==
  /\ More /\ token = RESET
  /\ bitlen' = BITS + 1 /\ entries' = <<>>
  /\ UNCHANGED <<input, pc, bitctr, bytectr, tokenlastlength, destctr, dest, i>>

Reset ==
  /\ More /\ token = RESET
  /\ Consume
  /\ bitlen' = BITS + 1 /\ entries' = <<>>
  /\ UNCHANGED <<input, pc, tokenlastlength, destctr, dest, i>>

Literal ==
  /\ More /\ token < RESET
  /\ Consume
  /\ IF destctr < length
     THEN dest' = [dest EXCEPT ![destctr] = token] /\ destctr' = (destctr + 1) % WORD
     ELSE UNCHANGED <<dest, destctr>>
  /\ tokenlastlength' = 1
  /\ Register(destctr' - 1, 1)
  /\ UNCHANGED <<input, pc, i>>

Known == token \in FIRST .. tokenctr - 1
Linked == entries[token - FIRST + 1]
linklength == (Linked.len + 1) % WORD

Cell(k) == IF k \in DOMAIN dest THEN dest[k] ELSE HOLE

(* The copy goes upwards, so that it may reach what it has itself written. *)
Copied(k) ==
  IF k < destctr \/ Linked.at >= destctr THEN Cell(k)
  ELSE Cell(Linked.at + ((k - destctr) % (destctr - Linked.at)))

Fits == destctr + linklength <= length

Link ==
  /\ More /\ Known /\ Fits
  /\ Consume
  /\ dest' = [k \in DOMAIN dest |->
                IF k \in destctr .. destctr + linklength - 1 THEN Copied(Linked.at + k - destctr) ELSE dest[k]]
  /\ destctr' = (destctr + linklength) % WORD
  /\ tokenlastlength' = linklength
  /\ Register(destctr' - linklength, linklength)
  /\ UNCHANGED <<input, pc, i>>

(* A link that does not fit is copied as far as there is room, and each    *)
(* byte takes two places.                                                  *)
Overrun ==
  /\ More /\ Known /\ ~Fits
  /\ i' = 0 /\ tokenlastlength' = linklength /\ pc' = "tail"
  /\ UNCHANGED <<input, reading, entries, destctr, dest>>

TailByte ==
  /\ pc = "tail" /\ destctr < length
  /\ dest' = [dest EXCEPT ![destctr] = Cell(Linked.at + i)]
  /\ destctr' = (destctr + 2) % WORD
  /\ i' = i + 1
  /\ UNCHANGED <<input, pc, reading, entries, tokenlastlength>>

TailDone ==
  /\ pc = "tail" /\ destctr >= length
  /\ Consume
  /\ Register(destctr - tokenlastlength, tokenlastlength)
  /\ pc' = "token"
  /\ UNCHANGED <<input, tokenlastlength, destctr, dest, i>>

(* Mutant: the text such a token is given is the one to come.              *)
BadTokenHere ==
  /\ More /\ token >= tokenctr
  /\ Consume
  /\ Register(destctr, tokenlastlength)
  /\ UNCHANGED <<input, pc, tokenlastlength, destctr, dest, i>>

(* A token nothing is known of writes nothing, and is given a text.        *)
BadToken ==
  /\ More /\ token >= tokenctr
  /\ Consume
  /\ Register(destctr - tokenlastlength, tokenlastlength)
  /\ UNCHANGED <<input, pc, tokenlastlength, destctr, dest, i>>

Next ==
  \/ Exhausted \/ Terminate \/ Reset \/ Literal \/ Link
  \/ Overrun \/ TailByte \/ TailDone \/ BadToken

Spec == Init /\ [][Next]_vars /\ WF_vars(Next)

-------------------------------------------------------------------------------
(* The format, token by token. A packing p of the stream x gives its       *)
(* tokens, and for each where it begins, in bits, how long it is, how much *)
(* of the text comes before it, and after which token the last reset was.  *)

Bit(x, b) == (x.src[b \div BITS + 1] \div 2^(b % BITS)) % 2

(* Every token since the reset has given a text, as many as the longest    *)
(* tokens can name; a token has as many bits as the last of them needs.    *)
Words(p, k) ==
  LET n == k - 1 - p.since[k]
      most == 2^MAXBITS - FIRST
  IN  IF n <= most THEN n ELSE most

PacksBits(x, p, k) ==
  LET w == p.width[k]
  IN  /\ w \in BITS + 1 .. MAXBITS
      /\ FIRST + Words(p, k) <= 2^w
      /\ w > BITS + 1 => FIRST + Words(p, k) > 2^(w - 1)
      /\ p.text[k] \in 0 .. 2^w - 1
      /\ \A b \in 0 .. w - 1 : Bit(x, p.bit[k] + b) = (p.text[k] \div 2^b) % 2
      /\ p.bit[k + 1] = p.bit[k] + w
      /\ p.bit[k + 1] <= BITS * Len(x.src)

(* What a token stands for: a byte; or what an earlier one, the m-th, gave *)
(* and the byte behind that; or nothing.                                   *)
PacksByte(x, p, k) ==
  /\ p.text[k] < RESET
  /\ p.to[k + 1] = p.to[k] + 1 /\ p.since[k + 1] = p.since[k]
  /\ x.plain[p.to[k] + 1] = p.text[k]

PacksLink(x, p, k) ==
  /\ p.text[k] \in FIRST .. FIRST + Words(p, k) - 1
  /\ LET m == p.since[k] + p.text[k] - FIRST + 1
     IN  /\ p.to[k + 1] = p.to[k] + (p.to[m + 1] - p.to[m]) + 1 /\ p.since[k + 1] = p.since[k]
         /\ \A d \in 0 .. p.to[m + 1] - p.to[m] : x.plain[p.to[k] + d + 1] = x.plain[p.to[m] + d + 1]

PacksReset(x, p, k) ==
  /\ p.text[k] = RESET
  /\ p.to[k + 1] = p.to[k] /\ p.since[k + 1] = k

Packs(x, p) ==
  LET n == Len(p.text)
  IN  /\ p.text \in Seq(Nat) /\ n > 0
      /\ p.bit \in [1 .. n + 1 -> Nat] /\ p.bit[1] = 0
      /\ p.width \in [1 .. n -> Nat]
      /\ p.to \in [1 .. n -> Nat] /\ p.to[1] = 0
      /\ p.since \in [1 .. n -> Nat] /\ p.since[1] = 0
      /\ \A k \in 1 .. n : PacksBits(x, p, k)
      /\ \A k \in 1 .. n - 1 :
           /\ PacksByte(x, p, k) \/ PacksLink(x, p, k) \/ PacksReset(x, p, k)
           /\ p.to[k + 1] <= Len(x.plain)
      /\ p.text[n] = TERMINATOR
      /\ x.plain \in Seq(0 .. BYTE - 1) /\ Len(x.plain) = p.to[n] /\ x.length = p.to[n]
      /\ Len(x.src) < WORD

(* The streams that are sound are packed, each in some way.                *)
StreamsArePacked == \A x \in Inputs : x.sound => \E p : Packs(x, p)

-------------------------------------------------------------------------------
(* Properties. *)

TypeOK ==
  /\ pc \in {"token", "tail", "end"}
  /\ bitlen \in BITS + 1 .. MAXBITS
  /\ bitctr \in 0 .. BITS - 1 /\ bytectr \in 0 .. WORD - 1
  /\ \A n \in DOMAIN entries : entries[n].at \in 0 .. WORD - 1 /\ entries[n].len \in 0 .. WORD - 1
  /\ tokenlastlength \in 0 .. WORD - 1
  /\ destctr \in 0 .. WORD - 1
  /\ dest \in [0 .. length - 1 -> 0 .. BYTE - 1 \cup {HOLE}]
  /\ i \in Nat

(* There is never a text that a token of the length now read cannot name.  *)
WidthsSuffice == tokenctr <= 2^bitlen

(* What is written is what was packed, byte for byte, from the first token *)
(* on, and at the end of the stream it is all there.                       *)
WritesWhatWasPacked ==
  input.sound =>
    /\ \A k \in 0 .. destctr - 1 : dest[k] = input.plain[k + 1]
    /\ pc = "end" => destctr = length

(* A link is to what has been written before it, as long as there is room  *)
(* for more.                                                               *)
PointsBack ==
  length < WORD - 1 =>
    \A n \in DOMAIN entries : entries[n].at < destctr \/ destctr = 0 \/ destctr >= length

(* Where a stream ends, unless it is too long for the counters.            *)
Finished == (complength < WORD /\ length < WORD - 1) => pc = "end"
================================================================================
