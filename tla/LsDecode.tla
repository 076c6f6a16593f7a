------------------------------- MODULE LsDecode -------------------------------
(***************************************************************************)
(* ls10dec and ls11dec: one file of a KOEI LS10 or LS11 archive is decoded *)
(* to a file of its own. The packed data is a string of bits, numbers of   *)
(* varying length: a byte of the archive's table, or how far back and how  *)
(* long a copy is. What is decoded is written in one piece at the end.     *)
(*                                                                         *)
(* Scaled: a byte has BITS bits and BYTE values. The packed data is the    *)
(* sequence of its bits, first bit highest.                                *)
(***************************************************************************)
EXTENDS Integers, Sequences

CONSTANTS
  BITS,    \* bits of a byte: 8 in the code
  BYTE,    \* values of a byte: 256
  HEAD,    \* where the entries of the files begin: 0x110
  WORD,    \* values of an unsigned int: 2^32
  Inputs   \* the runs: program, number, size of the archive, its table, the
           \* number's entry, where the packed data begins and its bits,
           \* and, for the properties, what kind of data it is and what it holds

VARIABLES
  input, pc,
  rfp, wfp,       \* the two files: "none", "open", "closed"
  apos, bitcnt,   \* bits read, bits of the number still to come (or so far)
  number, what,   \* the number, and whether it is the first or the length
  datum, leng,    \* distance and bytes left of a copy
  dst,            \* the bytes decoded
  buffered, disk, \* what was given to fwrite, what the file holds once closed
  ret

decoder == <<apos, bitcnt, number, what, datum, leng, dst>>
files == <<rfp, wfp, buffered, disk, ret>>
vars == <<input, pc, decoder, files>>

entry == input.entry
dpos == Len(dst)

Init ==
  /\ input \in Inputs
  /\ pc = "start" /\ rfp = "none" /\ wfp = "none"
  /\ apos = 0 /\ bitcnt = 0 /\ number = 0 /\ what = "datum" /\ datum = 0 /\ leng = 0
  /\ dst = <<>> /\ buffered = <<>> /\ disk = <<>> /\ ret = 0

-------------------------------------------------------------------------------
(* cutter. *)

Open ==
  /\ pc = "start"
  /\ \/ rfp' = "open" /\ pc' = "opened" /\ UNCHANGED ret
     \/ rfp' = "none" /\ pc' = "exit" /\ ret' = -2
  /\ UNCHANGED <<input, decoder, wfp, buffered, disk>>

Read ==
  /\ pc = "opened"
  /\ \/ rfp' = "closed" /\ pc' = "read" /\ UNCHANGED ret
     \/ rfp' = "open" /\ pc' = "close" /\ ret' = -3
  /\ UNCHANGED <<input, decoder, wfp, buffered, disk>>

Create ==
  /\ pc = "read"
  /\ \/ wfp' = "open" /\ pc' = "header" /\ UNCHANGED ret
     \/ wfp' = "none" /\ pc' = "close" /\ ret' = -4
  /\ UNCHANGED <<input, decoder, rfp, buffered, disk>>

(* The archive was closed once it was read, and is closed again here: the  *)
(* library may do anything with it, and the output is still open.          *)
CloseAgain ==
  /\ pc = "close"
  /\ pc' \in IF rfp = "closed" THEN {"closed", "crash"} ELSE {"closed"}
  /\ rfp' = "closed"
  /\ UNCHANGED <<input, decoder, wfp, buffered, disk, ret>>

CloseOutput ==
  /\ pc = "closed"
  /\ IF wfp = "open" THEN wfp' = "closed" /\ disk' = buffered ELSE UNCHANGED <<wfp, disk>>
  /\ pc' = "exit"
  /\ UNCHANGED <<input, decoder, rfp, buffered, ret>>

-------------------------------------------------------------------------------
(* type_lzw. *)

Ls10 == [entrySize |-> 32]
Ls11 == [entrySize |-> 12]
EntrySize == [ls10 |-> Ls10, ls11 |-> Ls11][input.prog].entrySize

(* Both sums are of unsigned ints.                                         *)
EntryIsThere ==
  /\ (HEAD + (input.num + 1) * EntrySize) % WORD <= input.size
  /\ (entry.arcsize + entry.arcpos) % WORD <= input.size

AtToken(n) == IF n < entry.dstsize THEN "prefix" ELSE "solved"

(* Without memory for what is decoded the file stays empty.                *)
Header ==
  /\ pc = "header"
  /\ \/ EntryIsThere /\ pc' = AtToken(dpos)
     \/ pc' = "close"
  /\ UNCHANGED <<input, decoder, files>>

AtEnd == apos \div BITS >= entry.arcsize
Bit == input.bits[(entry.arcpos - input.base) * BITS + apos + 1]

(* Mutant: what was decoded is written when the data ends early, too.      *)
GiveUpWriting ==
  /\ pc \in {"prefix", "low"}
  /\ AtEnd
  /\ buffered' = dst
  /\ pc' = "close"
  /\ UNCHANGED <<input, decoder, rfp, wfp, disk, ret>>

GiveUp ==
  /\ pc \in {"prefix", "low"}
  /\ AtEnd
  /\ pc' = "close"
  /\ UNCHANGED <<input, decoder, files>>

(* Ones are counted up to the first zero: that many bits follow.           *)
Prefix ==
  /\ pc = "prefix"
  /\ ~AtEnd
  /\ apos' = apos + 1 /\ bitcnt' = bitcnt + 1
  /\ IF Bit = 1 THEN UNCHANGED <<pc, number>> ELSE pc' = "low" /\ number' = 2 ^ bitcnt' - 2
  /\ UNCHANGED <<input, what, datum, leng, dst, files>>

Low ==
  /\ pc = "low"
  /\ ~AtEnd
  /\ apos' = apos + 1 /\ bitcnt' = bitcnt - 1
  /\ number' = number + Bit * 2 ^ bitcnt'
  /\ pc' = IF bitcnt' = 0 THEN what ELSE "low"
  /\ UNCHANGED <<input, what, datum, leng, dst, files>>

Literal ==
  /\ pc = "datum"
  /\ number < BYTE
  /\ dst' = Append(dst, input.table[number])
  /\ pc' = AtToken(dpos')
  /\ UNCHANGED <<input, apos, bitcnt, number, what, datum, leng, files>>

Distance ==
  /\ pc = "datum"
  /\ number >= BYTE
  /\ datum' = number - BYTE
  /\ what' = "leng"
  /\ pc' = "prefix"
  /\ UNCHANGED <<input, apos, bitcnt, number, leng, dst, files>>

(* Mutants: a copy is not cut off at the end of the file; one that goes    *)
(* back too far is tried again.                                            *)
LengthUncapped ==
  /\ pc = "leng"
  /\ what' = "datum"
  /\ IF dpos < datum THEN pc' = "close" /\ UNCHANGED leng ELSE leng' = number + 3 /\ pc' = "copy"
  /\ UNCHANGED <<input, apos, bitcnt, number, datum, dst, files>>

LengthAgain ==
  /\ pc = "leng"
  /\ dpos >= datum
  /\ what' = "datum"
  /\ leng' = IF number + 3 < entry.dstsize - dpos THEN number + 3 ELSE entry.dstsize - dpos
  /\ pc' = "copy"
  /\ UNCHANGED <<input, apos, bitcnt, number, datum, dst, files>>

Length ==
  /\ pc = "leng"
  /\ what' = "datum"
  /\ IF dpos < datum
     THEN pc' = "close" /\ UNCHANGED leng
     ELSE /\ leng' = IF number + 3 < entry.dstsize - dpos THEN number + 3 ELSE entry.dstsize - dpos
          /\ pc' = "copy"
  /\ UNCHANGED <<input, apos, bitcnt, number, datum, dst, files>>

(* Mutant: back from the byte before the next one.                         *)
CopyFromLast ==
  /\ pc = "copy"
  /\ \E b \in IF datum = 0 \/ datum = dpos THEN 0 .. BYTE - 1 ELSE {dst[dpos - datum]} : dst' = Append(dst, b)
  /\ leng' = leng - 1
  /\ pc' = IF leng' > 0 THEN "copy" ELSE AtToken(dpos')
  /\ UNCHANGED <<input, apos, bitcnt, number, what, datum, files>>

(* A byte no way back is the memory's, that nothing was written to.        *)
CopyByte ==
  /\ pc = "copy"
  /\ \E b \in IF datum = 0 THEN 0 .. BYTE - 1 ELSE {dst[dpos - datum + 1]} : dst' = Append(dst, b)
  /\ leng' = leng - 1
  /\ pc' = IF leng' > 0 THEN "copy" ELSE AtToken(dpos')
  /\ UNCHANGED <<input, apos, bitcnt, number, what, datum, files>>

Solved ==
  /\ pc = "solved"
  /\ buffered' = dst
  /\ pc' = "close"
  /\ UNCHANGED <<input, decoder, rfp, wfp, disk, ret>>

Next ==
  \/ Open \/ Read \/ Create \/ CloseAgain \/ CloseOutput
  \/ Header \/ GiveUp \/ Prefix \/ Low \/ Literal \/ Distance \/ Length \/ CopyByte \/ Solved

Spec == Init /\ [][Next]_vars /\ WF_vars(Next)

-------------------------------------------------------------------------------
(* Properties. *)

TypeOK ==
  /\ pc \in {"start", "opened", "read", "header", "prefix", "low", "datum", "leng", "copy",
             "solved", "close", "closed", "exit", "crash"}
  /\ rfp \in {"none", "open", "closed"} /\ wfp \in {"none", "open", "closed"}
  /\ apos \in 0 .. entry.arcsize * BITS /\ bitcnt \in Nat /\ number \in Nat
  /\ what \in {"datum", "leng"} /\ datum \in Nat /\ leng \in Nat
  /\ dst \in Seq(0 .. BYTE - 1) /\ dpos <= entry.dstsize
  /\ buffered \in Seq(0 .. BYTE - 1) /\ disk \in Seq(0 .. BYTE - 1)
  /\ ret \in {0, -2, -3, -4}

(* What type_lzw decodes is what was packed, every number and every copy   *)
(* of it, and data that ends early is never taken for decoded.             *)
DecodesThePacked ==
  pc = "solved" =>
    /\ input.kind # "short"
    /\ input.kind = "whole" => dst = input.plain

(* The file holds all of what was decoded or nothing: bytes decoded before *)
(* an error never reach it, nor do they when the double fclose ends the    *)
(* program.                                                                *)
WholeOrNothing == Len(disk) \in {0, entry.dstsize} /\ (pc = "crash" => disk = <<>>)

(* Where decoding ends, also of data that is cut short or not packed by    *)
(* the format: every bit that is read brings it nearer.                    *)
Finished == pc \in {"exit", "crash"}
================================================================================
