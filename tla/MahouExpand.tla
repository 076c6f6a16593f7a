------------------------------ MODULE MahouExpand ------------------------------
(***************************************************************************)
(* mahou_extact: a file of Mahou Daisakusen is expanded. A flag byte tells *)
(* bytes from copies, first bit highest; the original loader expands into  *)
(* memory filled with zeroes, so a copy may take zeroes from before the    *)
(* first byte. A file that is not used up exactly is refused.              *)
(*                                                                         *)
(* Scaled: a byte has BITS bits, a word's low LONG values are a length.    *)
(***************************************************************************)
EXTENDS Integers, Sequences

CONSTANTS
  BITS,    \* bits of a byte: 8 in the code
  LONG,    \* lengths in a word: 32
  HEAD,    \* bytes of the size in front: 4
  Inputs   \* the runs: the file, what was packed in it, what is wrong with it

BYTE == 2 ^ BITS

VARIABLES
  input, pc,
  source_position, output_size, flags, bit, length, offset,
  output,           \* the bytes in front of output_position
  file,             \* what the output file holds
  ret

token == <<flags, bit>>
copying == <<length, offset>>
vars == <<input, pc, source_position, output_size, token, copying, output, file, ret>>

source == input.source
source_size == Len(source)
output_position == Len(output)

Init ==
  /\ input \in Inputs
  /\ pc = "start" /\ source_position = HEAD /\ output_size = 0
  /\ flags = 0 /\ bit = 0 /\ length = 0 /\ offset = 0
  /\ output = <<>> /\ file = <<>> /\ ret = 0

Exit(code) == pc' = "exit" /\ ret' = code

-------------------------------------------------------------------------------
Size ==
  LET value[k \in 0 .. HEAD] == IF k = 0 THEN 0 ELSE value[k - 1] * BYTE + source[k] IN value[HEAD]

(* The file is read whole or not at all.                                   *)
read_file ==
  /\ pc = "start"
  /\ \/ source_size >= HEAD + 1 /\ pc' = "read" /\ UNCHANGED ret
     \/ Exit(1)
  /\ UNCHANGED <<input, source_position, output_size, token, copying, output, file>>

Allocate ==
  /\ pc = "read"
  /\ output_size' = Size
  /\ \/ Size # 0 /\ pc' = "flags" /\ UNCHANGED ret
     \/ Exit(1)
  /\ UNCHANGED <<input, source_position, token, copying, output, file>>

ReadFlags ==
  /\ pc = "flags" /\ output_position < output_size
  /\ source_position < source_size
  /\ flags' = source[source_position + 1]
  /\ source_position' = source_position + 1
  /\ bit' = BITS - 1
  /\ pc' = "token"
  /\ UNCHANGED <<input, output_size, copying, output, file, ret>>

Wanted == bit >= 0 /\ output_position < output_size
Flag == (flags \div 2 ^ bit) % 2

FlagsUsed ==
  /\ pc = "token" /\ ~Wanted
  /\ pc' = "flags"
  /\ UNCHANGED <<input, source_position, output_size, token, copying, output, file, ret>>

Literal ==
  /\ pc = "token" /\ Wanted /\ Flag = 1
  /\ source_position < source_size
  /\ output' = Append(output, source[source_position + 1])
  /\ source_position' = source_position + 1
  /\ bit' = bit - 1
  /\ UNCHANGED <<input, pc, output_size, flags, copying, file, ret>>

Word ==
  /\ pc = "token" /\ Wanted /\ Flag = 0
  /\ source_position + 1 < source_size
  /\ LET word == source[source_position + 1] * BYTE + source[source_position + 2]
     IN  length' = (word % LONG) + 3 /\ offset' = word \div LONG - (BYTE * BYTE) \div LONG
  /\ source_position' = source_position + 2
  /\ pc' = "copy"
  /\ UNCHANGED <<input, output_size, token, output, file, ret>>

(* Mutant: a byte from before the first is the first.                      *)
CopyFromFirst ==
  /\ pc = "copy" /\ length > 0 /\ output_position < output_size
  /\ LET copy_position == output_position + offset
     IN  output' = Append(output, IF output = <<>> THEN 0
                                  ELSE IF copy_position >= 0 THEN output[copy_position + 1] ELSE output[1])
  /\ length' = length - 1
  /\ UNCHANGED <<input, pc, source_position, output_size, token, offset, file, ret>>

(* Mutant: the length alone ends a copy.                                   *)
CopyPastTheEnd ==
  /\ pc = "copy" /\ length > 0
  /\ LET copy_position == output_position + offset
     IN  output' = Append(output, IF copy_position >= 0 THEN output[copy_position + 1] ELSE 0)
  /\ length' = length - 1
  /\ UNCHANGED <<input, pc, source_position, output_size, token, offset, file, ret>>

CopyByte ==
  /\ pc = "copy" /\ length > 0 /\ output_position < output_size
  /\ LET copy_position == output_position + offset
     IN  output' = Append(output, IF copy_position >= 0 THEN output[copy_position + 1] ELSE 0)
  /\ length' = length - 1
  /\ UNCHANGED <<input, pc, source_position, output_size, token, offset, file, ret>>

(* Mutant: only a copy that is all there ends.                             *)
CopiedWhole ==
  /\ pc = "copy" /\ length = 0
  /\ bit' = bit - 1
  /\ pc' = "token"
  /\ UNCHANGED <<input, source_position, output_size, flags, copying, output, file, ret>>

Copied ==
  /\ pc = "copy" /\ (length = 0 \/ output_position >= output_size)
  /\ bit' = bit - 1
  /\ pc' = "token"
  /\ UNCHANGED <<input, source_position, output_size, flags, copying, output, file, ret>>

(* Mutant: a word needs a byte behind it.                                  *)
broken_early ==
  /\ \/ pc = "flags" /\ output_position < output_size /\ source_position >= source_size
     \/ pc = "token" /\ Wanted /\ Flag = 1 /\ source_position >= source_size
     \/ pc = "token" /\ Wanted /\ Flag = 0 /\ source_position + 2 >= source_size
  /\ Exit(1)
  /\ UNCHANGED <<input, source_position, output_size, token, copying, output, file>>

broken_stream ==
  /\ \/ pc = "flags" /\ output_position < output_size /\ source_position >= source_size
     \/ pc = "token" /\ Wanted /\ Flag = 1 /\ source_position >= source_size
     \/ pc = "token" /\ Wanted /\ Flag = 0 /\ source_position + 1 >= source_size
  /\ Exit(1)
  /\ UNCHANGED <<input, source_position, output_size, token, copying, output, file>>

(* Mutant: bytes that are left over are not looked at.                     *)
ExpandedAnyway ==
  /\ pc = "flags" /\ output_position >= output_size
  /\ pc' = "write"
  /\ UNCHANGED <<input, source_position, output_size, token, copying, output, file, ret>>

Expanded ==
  /\ pc = "flags" /\ output_position >= output_size
  /\ IF source_position # source_size THEN Exit(1) ELSE pc' = "write" /\ UNCHANGED ret
  /\ UNCHANGED <<input, source_position, output_size, token, copying, output, file>>

(* A file that cannot be opened, written or closed is told by the return   *)
(* value; what reached it stays.                                           *)
write_file ==
  /\ pc = "write"
  /\ \/ file' = output /\ Exit(0)
     \/ \E n \in 0 .. output_size : file' = SubSeq(output, 1, n) /\ Exit(1)
  /\ UNCHANGED <<input, source_position, output_size, token, copying, output>>

Next ==
  \/ read_file \/ Allocate \/ ReadFlags \/ FlagsUsed \/ Literal \/ Word \/ CopyByte \/ Copied
  \/ broken_stream \/ Expanded \/ write_file

Spec == Init /\ [][Next]_vars /\ WF_vars(Next)

-------------------------------------------------------------------------------
(* Properties. *)

TypeOK ==
  /\ pc \in {"start", "read", "flags", "token", "copy", "write", "exit"}
  /\ source_position \in 0 .. source_size + HEAD /\ output_size \in Nat
  /\ flags \in 0 .. BYTE - 1 /\ bit \in -1 .. BITS - 1
  /\ length \in 0 .. LONG + 2 /\ offset \in -(BYTE * BYTE) .. 0
  /\ output \in Seq(0 .. BYTE - 1) /\ file \in Seq(0 .. BYTE - 1)
  /\ ret \in {0, 1}
  /\ pc \notin {"start", "read"} => output_position <= output_size \/ ret = 1

(* The program says it succeeded only when the file holds what was packed, *)
(* zeroes from before the first byte and a copy cut off at the size        *)
(* included; a file that is cut short, or has bytes left over, is refused. *)
ExpandsOrRefuses ==
  pc = "exit" /\ ret = 0 => input.fault = "none" /\ file = input.plain

(* A file that fits its size is not refused but for want of memory or of   *)
(* the file itself: a stream is broken only if it is.                      *)
RefusesOnlyBroken == (pc \in {"flags", "token"} /\ pc' = "exit") => (input.fault # "none")

(* Where every file, cut short at any byte, comes to an end.               *)
Finished == pc = "exit"
================================================================================
