---------------------------- MODULE IllusionExpand ----------------------------
(***************************************************************************)
(* ic68decompress: a file of Illusion City for the X68000 is expanded. A   *)
(* token is the place of a distance in the file's own table, with a length *)
(* behind it, or a number of bytes that follow. Everything is checked      *)
(* before it is used, and a file that does not decode gives no output. The *)
(* ZMD score inside it can be cut out.                                     *)
(*                                                                         *)
(* Scaled: a byte has BYTE values. The header is the number it holds and   *)
(* whether it is there; the body is the file behind it, table first.       *)
(***************************************************************************)
EXTENDS Integers, Sequences

CONSTANTS
  BYTE,            \* values of a byte: 256 in the code
  zmd_signature,   \* the bytes a score begins with
  Inputs           \* the runs: the file's parts and its size, what it holds, what is wrong

VARIABLES
  input, pc,
  input_pos,        \* bytes taken of the file behind its header
  token, length,
  distance,         \* of the copy; 0: bytes that follow
  output, offset, file, ret

vars == <<input, pc, input_pos, token, length, distance, output, offset, file, ret>>

body == input.body
input_size == Len(body)
table_size == input.table_size
output_size == input.output_size
output_pos == Len(output)

Init ==
  /\ input \in Inputs
  /\ pc = "start" /\ input_pos = 0 /\ token = 0 /\ length = 0 /\ distance = 0
  /\ output = <<>> /\ offset = 0 /\ file = <<>> /\ ret = 0

Exit(code) == pc' = "exit" /\ ret' = code

-------------------------------------------------------------------------------
(* decompress. *)

(* The file is read, its header and distance table are all there.          *)
Begin ==
  /\ pc = "start"
  /\ \/ input.header /\ input_size >= table_size
        /\ pc' = "while" /\ input_pos' = table_size /\ UNCHANGED ret
     \/ Exit(1) /\ UNCHANGED input_pos
  /\ UNCHANGED <<input, token, length, distance, output, offset, file>>

Token ==
  /\ pc = "while" /\ output_pos < output_size
  /\ input_pos < input_size
  /\ token' = body[input_pos + 1]
  /\ input_pos' = input_pos + 1
  /\ pc' = "token"
  /\ UNCHANGED <<input, length, distance, output, offset, file, ret>>

LengthByte == IF body[input_pos + 1] = 0 THEN BYTE ELSE body[input_pos + 1]

Reference ==
  /\ pc = "token" /\ token < table_size
  /\ input_pos < input_size
  /\ length' = LengthByte
  /\ input_pos' = input_pos + 1
  /\ distance' = body[token + 1] + 1
  /\ pc' = "check"
  /\ UNCHANGED <<input, token, output, offset, file, ret>>

ExtendedLiteral ==
  /\ pc = "token" /\ token >= table_size /\ token = BYTE - 1
  /\ input_pos < input_size
  /\ length' = LengthByte
  /\ input_pos' = input_pos + 1
  /\ distance' = 0
  /\ pc' = "check"
  /\ UNCHANGED <<input, token, output, offset, file, ret>>

Literal ==
  /\ pc = "token" /\ token >= table_size /\ token # BYTE - 1
  /\ length' = token - table_size + 1
  /\ distance' = 0
  /\ pc' = "check"
  /\ UNCHANGED <<input, input_pos, token, output, offset, file, ret>>

(* Mutant: the size that was promised is not looked at.                    *)
FitsInput ==
  /\ distance <= output_pos
  /\ distance = 0 => length <= input_size - input_pos

Fits ==
  /\ distance <= output_pos
  /\ distance = 0 => length <= input_size - input_pos
  /\ length <= output_size - output_pos

CopyLiteral ==
  /\ pc = "check" /\ Fits /\ distance = 0
  /\ output' = output \o SubSeq(body, input_pos + 1, input_pos + length)
  /\ input_pos' = input_pos + length
  /\ pc' = "while"
  /\ UNCHANGED <<input, token, length, distance, offset, file, ret>>

(* Byte by byte, since a copy may run into what it writes. Mutant: in one  *)
(* piece.                                                                  *)
CopyReferenceAtOnce ==
  /\ pc = "check" /\ Fits /\ distance # 0
  /\ output' = output \o [k \in 1 .. length |-> IF output_pos - distance + k <= output_pos
                                                  THEN output[output_pos - distance + k] ELSE 0]
  /\ pc' = "while"
  /\ UNCHANGED <<input, input_pos, token, length, distance, offset, file, ret>>

CopyReference ==
  /\ pc = "check" /\ Fits /\ distance # 0
  /\ LET byte[k \in 1 .. length] ==
           IF k > distance THEN byte[k - distance] ELSE output[output_pos - distance + k]
     IN  output' = output \o [k \in 1 .. length |-> byte[k]]
  /\ pc' = "while"
  /\ UNCHANGED <<input, input_pos, token, length, distance, offset, file, ret>>

NoByte ==
  \/ pc = "while" /\ output_pos < output_size
  \/ pc = "token" /\ (token < table_size \/ token = BYTE - 1)

(* Nothing of what was decoded is kept.                                    *)
Error ==
  /\ \/ NoByte /\ input_pos >= input_size
     \/ pc = "check" /\ ~Fits
  /\ output' = <<>>
  /\ Exit(1)
  /\ UNCHANGED <<input, input_pos, token, length, distance, offset, file>>

-------------------------------------------------------------------------------
(* main. *)

SignatureAt(i) ==
  /\ i + Len(zmd_signature) <= output_size
  /\ SubSeq(output, i + 1, i + Len(zmd_signature)) = zmd_signature

(* Mutant: the last place a score can begin is not looked at.              *)
find_early ==
  LET places == {i \in 0 .. output_size - 1 : SignatureAt(i) /\ i + Len(zmd_signature) < output_size}
  IN  IF places = {} THEN output_size ELSE CHOOSE i \in places : \A k \in places : i <= k

find_zmd ==
  LET places == {i \in 0 .. output_size - 1 : SignatureAt(i)}
  IN  IF places = {} THEN output_size ELSE CHOOSE i \in places : \A k \in places : i <= k

Decoded ==
  /\ pc = "while" /\ output_pos >= output_size
  /\ LET at == IF input.carve THEN find_zmd ELSE 0
     IN  /\ offset' = at
         /\ IF input.carve /\ at = output_size THEN Exit(1) ELSE pc' = "write" /\ UNCHANGED ret
  /\ UNCHANGED <<input, input_pos, token, length, distance, output, file>>

(* What fclose could not write is lost, and the program does not notice.   *)
Write ==
  /\ pc = "write"
  /\ LET carved == SubSeq(output, offset + 1, output_size)
     IN  \/ file' = carved /\ Exit(0)
         \/ \E n \in 0 .. Len(carved) : file' = SubSeq(carved, 1, n) /\ Exit(1)
         \/ \E n \in 0 .. Len(carved) - 1 : file' = SubSeq(carved, 1, n) /\ pc' = "unflushed" /\ ret' = 0
  /\ UNCHANGED <<input, input_pos, token, length, distance, output, offset>>

Next ==
  \/ Begin \/ Token \/ Reference \/ ExtendedLiteral \/ Literal \/ CopyLiteral \/ CopyReference
  \/ Error \/ Decoded \/ Write

Spec == Init /\ [][Next]_vars

-------------------------------------------------------------------------------
(* Properties. *)

TypeOK ==
  /\ pc \in {"start", "while", "token", "check", "write", "exit", "unflushed"}
  /\ input_pos \in 0 .. input_size /\ output_pos <= output_size
  /\ token \in 0 .. BYTE - 1 /\ length \in 0 .. BYTE /\ distance \in 0 .. BYTE
  /\ output \in Seq(0 .. BYTE - 1) /\ file \in Seq(0 .. BYTE - 1)
  /\ offset \in 0 .. output_size /\ ret \in {0, 1}

(* If the file can be closed, the program says it succeeded only when the  *)
(* file holds what was packed, from the first place its signature stands   *)
(* if the score was asked for; a file that breaks any rule of the format   *)
(* is refused before anything is written of it.                            *)
ExpandsOrRefuses ==
  /\ pc = "exit" /\ ret = 0 =>
       \E i \in 0 .. Len(input.plain) :
         /\ file = SubSeq(input.plain, i + 1, Len(input.plain))
         /\ IF input.carve THEN i = input.score ELSE i = 0
  /\ input.fault # "none" => pc \notin {"write", "unflushed"} /\ file = <<>> /\ (pc = "exit" => ret = 1)

(* A file packed by the format is never refused while it is decoded, and   *)
(* its score is found wherever it stands.                                  *)
RefusesOnlyBroken ==
  (pc \in {"while", "token", "check"} /\ pc' = "exit") =>
    (input.fault # "none" \/ (input.carve /\ input.score = -1))

(* Where the program ends, be the file whole or not.                       *)
Finished == pc \in {"exit", "unflushed"}
================================================================================
