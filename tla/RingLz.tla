-------------------------------- MODULE RingLz --------------------------------
(***************************************************************************)
(* The decoders of Record of Lodoss War 2 and its relatives: bytes and     *)
(* copies from a ring of the last bytes, told apart by the bits of a flag  *)
(* byte. The programs differ in the order of the header's bytes, in what a *)
(* copy's address is and in how many archives a file holds; the decoded    *)
(* file takes the name of its input.                                       *)
(*                                                                         *)
(* Scaled: a byte has BYTE values and FLAGS bits, the ring one place for   *)
(* each address a byte and a half can hold, the header HEAD bytes.         *)
(***************************************************************************)
EXTENDS RingSizes, SequencesExt

DICT == BYTE * NIBBLE

VARIABLES
  input, at,           \* the run and the place in its file
  pc, filesize, tmp,   \* bytes still to come, is there a file to rename
  in_size, out_size,
  flag, i, rb,         \* the flag, its bits used, read_buf
  dic, dic_pos, decode_startaddr, decode_length, j,
  decode_byte, readed_byte,
  out, members,        \* the file being written, those written before it
  named                \* what the input's name is the name of

prog == input.prog
file == input.file

main == <<input, pc, filesize, tmp, in_size, out_size, members, named>>
window == <<dic, dic_pos, decode_byte, out>>
copying == <<decode_startaddr, decode_length, j>>
vars == <<main, at, flag, i, rb, window, copying, readed_byte>>

-------------------------------------------------------------------------------
(* The programs. *)

Lodoss2 == [bigEndian |-> FALSE, relative |-> FALSE, several |-> FALSE]
Lenam == [bigEndian |-> TRUE, relative |-> FALSE, several |-> FALSE]
SuperShanghai == [bigEndian |-> TRUE, relative |-> FALSE, several |-> FALSE]
LastBreaker == [bigEndian |-> FALSE, relative |-> TRUE, several |-> FALSE]
Lodoss2Cd == [bigEndian |-> FALSE, relative |-> FALSE, several |-> TRUE]

Programs ==
  [lor2 |-> Lodoss2, lenam |-> Lenam, shanghai |-> SuperShanghai, lb |-> LastBreaker,
   lor2c |-> Lodoss2Cd]
Program == Programs[prog]

(* The first byte goes where a copy of the longest kind ends at the top;   *)
(* Last Breaker begins at the bottom.                                      *)
Start == IF Program.relative THEN 0 ELSE DICT - (NIBBLE + 2)

(* What fread leaves in a buffer: the bytes that are there, over the old.  *)
Fread(old, n) == [k \in 1 .. Len(old) |-> IF k <= n /\ at + k <= Len(file) THEN file[at + k] ELSE old[k]]
After(n) == IF at + n <= Len(file) THEN at + n ELSE Len(file)

HeaderAt(x, p) ==
  LET byte(k) == IF p + k <= Len(x.file) THEN x.file[p + k] ELSE 0
      value[k \in 0 .. HEAD] ==
        IF k = 0 THEN 0
        ELSE value[k - 1] * BYTE + byte(IF Programs[x.prog].bigEndian THEN k ELSE HEAD + 1 - k)
  IN  value[HEAD]
Header == HeaderAt(input, at)

Init ==
  /\ input \in Archives
  /\ at = 0 /\ pc = "start" /\ filesize = 0 /\ tmp = FALSE /\ in_size = 0 /\ out_size = 0
  /\ flag = 0 /\ i = 0 /\ rb = <<0, 0>>
  /\ dic = [a \in 0 .. DICT - 1 |-> 0] /\ dic_pos = 0
  /\ decode_startaddr = 0 /\ decode_length = 0 /\ j = 0
  /\ decode_byte = 0 /\ readed_byte = 0
  /\ out = <<>> /\ members = <<>> /\ named = "input"

-------------------------------------------------------------------------------
(* decodeLZ. *)

Begin(insize) ==
  /\ dic' = [a \in 0 .. DICT - 1 |-> 0] /\ dic_pos' = Start
  /\ decode_byte' = 0 /\ readed_byte' = 0
  /\ in_size' = insize /\ out_size' = Header
  /\ at' = After(HEAD)
  /\ out' = <<>>
  /\ pc' = "while"
  /\ UNCHANGED <<input, members, named, flag, i, rb, copying>>

(* Mutants: the place does not wrap; it stays at the top.                  *)
EmitUnwrapped(b) ==
  /\ dic' = [dic EXCEPT ![dic_pos] = b]
  /\ out' = Append(out, b)
  /\ dic_pos' = dic_pos + 1
  /\ decode_byte' = decode_byte + 1

EmitAtTop(b) ==
  /\ dic' = [dic EXCEPT ![dic_pos] = b]
  /\ out' = Append(out, b)
  /\ dic_pos' = IF dic_pos + 1 < DICT THEN dic_pos + 1 ELSE dic_pos
  /\ decode_byte' = decode_byte + 1

Emit(b) ==
  /\ dic' = [dic EXCEPT ![dic_pos] = b]
  /\ out' = Append(out, b)
  /\ dic_pos' = (dic_pos + 1) % DICT
  /\ decode_byte' = decode_byte + 1

ReadFlag ==
  /\ pc = "while"
  /\ readed_byte <= in_size /\ decode_byte < out_size
  /\ rb' = Fread(rb, 1) /\ at' = After(1)
  /\ flag' = rb'[1]
  /\ readed_byte' = readed_byte + 1
  /\ i' = 0
  /\ pc' = "token"
  /\ UNCHANGED <<input, filesize, tmp, in_size, out_size, members, named, window, copying>>

Ended ==
  /\ pc = "while"
  /\ ~(readed_byte <= in_size /\ decode_byte < out_size)
  /\ pc' = "decoded"
  /\ UNCHANGED <<input, at, filesize, tmp, in_size, out_size, members, named, flag, i, rb,
                 window, copying, readed_byte>>

(* The flag is shifted; the for loop ends with its bits or with the input. *)
NextBit(readed) ==
  /\ flag' = flag \div 2
  /\ i' = i + 1
  /\ pc' = IF readed >= in_size \/ i + 1 = FLAGS THEN "while" ELSE "token"

Literal ==
  /\ pc = "token"
  /\ flag % 2 = 1
  /\ rb' = Fread(rb, 1) /\ at' = After(1)
  /\ Emit(rb'[1])
  /\ readed_byte' = readed_byte + 1
  /\ IF Program.several /\ decode_byte' >= out_size
     THEN pc' = "while" /\ UNCHANGED <<flag, i>>
     ELSE NextBit(readed_byte')
  /\ UNCHANGED <<input, filesize, tmp, in_size, out_size, members, named, copying>>

(* Mutant: the shortest copy is two bytes.                                 *)
CopyShort ==
  /\ pc = "token"
  /\ flag % 2 = 0
  /\ rb' = Fread(rb, 2) /\ at' = After(2)
  /\ decode_length' = (rb'[2] % NIBBLE) + 2
  /\ decode_startaddr' = (rb'[2] \div NIBBLE) * BYTE + rb'[1]
  /\ readed_byte' = readed_byte + 2
  /\ j' = 0
  /\ pc' = "copy"
  /\ UNCHANGED <<input, filesize, tmp, in_size, out_size, members, named, flag, i, window>>

Copy ==
  /\ pc = "token"
  /\ flag % 2 = 0
  /\ rb' = Fread(rb, 2) /\ at' = After(2)
  /\ decode_length' = (rb'[2] % NIBBLE) + 3
  /\ decode_startaddr' = (rb'[2] \div NIBBLE) * BYTE + rb'[1]
  /\ readed_byte' = readed_byte + 2
  /\ j' = 0
  /\ pc' = "copy"
  /\ UNCHANGED <<input, filesize, tmp, in_size, out_size, members, named, flag, i, window>>

Source ==
  IF Program.relative THEN (dic_pos - (decode_startaddr + 1)) % DICT
  ELSE (decode_startaddr + j) % DICT

(* The archives of a file of several are cut off at their size. *)
CopyByte ==
  /\ pc = "copy"
  /\ j < decode_length
  /\ Emit(dic[Source])
  /\ j' = IF Program.several /\ decode_byte' >= out_size THEN decode_length ELSE j + 1
  /\ UNCHANGED <<main, at, flag, i, rb, decode_startaddr, decode_length, readed_byte>>

Copied ==
  /\ pc = "copy"
  /\ j >= decode_length
  /\ NextBit(readed_byte)
  /\ UNCHANGED <<input, at, filesize, tmp, in_size, out_size, members, named, rb,
                 window, copying, readed_byte>>

-------------------------------------------------------------------------------
(* main. *)

Locals == UNCHANGED <<in_size, out_size, flag, i, rb, window, copying, readed_byte>>

Open ==
  /\ pc = "start"
  /\ \/ pc' = "open" /\ filesize' = Len(file)
     \/ pc' = "exit" /\ UNCHANGED filesize
  /\ UNCHANGED <<input, at, tmp, members, named>> /\ Locals

(* An archive alone: the header is read whether or not it is there.        *)
DecodeOne ==
  /\ pc = "open" /\ ~Program.several
  /\ Begin((filesize - HEAD) % UINT)
  /\ tmp' = TRUE
  /\ UNCHANGED filesize

DecodeMember ==
  /\ pc = "open" /\ Program.several
  /\ filesize >= HEAD
  /\ After(HEAD) = at + HEAD
  /\ Begin(filesize - HEAD)
  /\ filesize' = filesize - HEAD
  /\ tmp' = TRUE

(* A header that is not all there is found after its file was opened.      *)
NoMember ==
  /\ pc = "open" /\ Program.several
  /\ \/ filesize < HEAD /\ UNCHANGED <<at, tmp, out>>
     \/ /\ filesize >= HEAD /\ After(HEAD) < at + HEAD
        /\ at' = After(HEAD) /\ tmp' = TRUE /\ out' = <<>>
  /\ pc' = "error"
  /\ UNCHANGED <<input, filesize, in_size, out_size, members, named, flag, i, rb,
                 dic, dic_pos, decode_byte, copying, readed_byte>>

(* The input is closed twice then, and but for the archives of several a   *)
(* file that was not opened is closed: the program may end there.          *)
CannotWrite ==
  /\ pc = "open"
  /\ Program.several => filesize >= HEAD
  /\ tmp' = FALSE
  /\ pc' \in {"error", "crash"}
  /\ UNCHANGED <<input, at, filesize, members, named>> /\ Locals

Decoded ==
  /\ pc = "decoded"
  /\ members' = Append(members, out)
  /\ filesize' = IF Program.several THEN (filesize - readed_byte) % UINT ELSE filesize
  /\ pc' = IF Program.several THEN "open" ELSE "error"
  /\ UNCHANGED <<input, at, tmp, named>> /\ Locals

(* The input is removed, and the file written last takes its name, whether *)
(* or not there is one.                                                    *)
Rename ==
  /\ pc = "error"
  /\ named' = IF tmp THEN "output" ELSE "nothing"
  /\ pc' = "exit"
  /\ UNCHANGED <<input, at, filesize, tmp, members>> /\ Locals

Next ==
  \/ Open \/ DecodeOne \/ DecodeMember \/ NoMember \/ CannotWrite \/ Decoded \/ Rename
  \/ ReadFlag \/ Ended \/ Literal \/ Copy \/ CopyByte \/ Copied

Spec == Init /\ [][Next]_vars

-------------------------------------------------------------------------------
(* The format, place by place. A packing p of the archive x gives the      *)
(* tokens that are in the file, and for each where it begins in the file   *)
(* and how much of the text comes before it. A token that is the first     *)
(* behind its flag byte begins with that byte.                             *)

Tokens ==
  [kind : {"byte"}, b : 0 .. BYTE - 1]
    \cup [kind : {"copy"}, addr : 0 .. DICT - 1, len : 3 .. NIBBLE + 2]

Group(k) == (k - 1) % FLAGS
Place(p, k) == IF Group(k) = 0 THEN p.at[k] + 1 ELSE p.at[k]
FlagByte(x, p, k) == x.file[p.at[k - Group(k)] + 1]
FlagBit(x, p, k) == (FlagByte(x, p, k) \div 2^Group(k)) % 2

(* How far back a copy goes in what has been written: Last Breaker's       *)
(* address says it, the others' is a place in the ring.                    *)
Back(x, p, k) ==
  IF Programs[x.prog].relative THEN p.text[k].addr + 1
  ELSE LET d == (DICT - (NIBBLE + 2) + p.to[k] - p.text[k].addr) % DICT
       IN  IF d = 0 THEN DICT ELSE d

PacksByte(x, p, k) ==
  /\ FlagBit(x, p, k) = 1
  /\ x.file[Place(p, k) + 1] = p.text[k].b
  /\ p.at[k + 1] = Place(p, k) + 1
  /\ p.to[k + 1] = p.to[k] + 1
  /\ x.plain[1][p.to[k] + 1] = p.text[k].b

PacksCopy(x, p, k) ==
  /\ FlagBit(x, p, k) = 0
  /\ x.file[Place(p, k) + 1] = p.text[k].addr % BYTE
  /\ x.file[Place(p, k) + 2] = (p.text[k].addr \div BYTE) * NIBBLE + p.text[k].len - 3
  /\ p.at[k + 1] = Place(p, k) + 2
  /\ p.to[k + 1] = p.to[k] + p.text[k].len
  /\ \A m \in p.to[k] .. p.to[k + 1] - 1 :
       x.plain[1][m + 1] = IF Back(x, p, k) <= m THEN x.plain[1][m + 1 - Back(x, p, k)] ELSE 0

(* The header gives at least the length of the text; what is whole and     *)
(* alone ends with it.                                                     *)
Packs(x, p) ==
  LET n == Len(p.text)
  IN  /\ p.text \in Seq(Tokens)
      /\ p.at \in [1 .. n + 1 -> Nat] /\ p.at[1] = HEAD
      /\ p.to \in [1 .. n + 1 -> Nat] /\ p.to[1] = 0
      /\ \A k \in 1 .. n :
           /\ IF p.text[k].kind = "byte" THEN PacksByte(x, p, k) ELSE PacksCopy(x, p, k)
           /\ p.at[k + 1] <= Len(x.file) /\ p.to[k + 1] <= Len(x.plain[1])
      /\ x.plain[1] \in Seq(0 .. BYTE - 1) /\ Len(x.plain[1]) = p.to[n + 1]
      /\ Len(x.file) \in HEAD .. HEAD + UINT - 1
      /\ HeaderAt(x, 0) \in Nat /\ HeaderAt(x, 0) >= p.to[n + 1]
      /\ x.whole /\ ~Programs[x.prog].several =>
           Len(x.file) = p.at[n + 1] /\ HeaderAt(x, 0) = p.to[n + 1]

(* The archives are packed, each in some way. *)
ArchivesArePacked == \A x \in Archives : \E p : Packs(x, p)

-------------------------------------------------------------------------------
(* Properties. *)

TypeOK ==
  /\ pc \in {"start", "open", "while", "token", "copy", "decoded", "error", "exit", "crash"}
  /\ at \in 0 .. Len(file) /\ rb \in [1 .. 2 -> 0 .. BYTE - 1]
  /\ dic \in [0 .. DICT - 1 -> 0 .. BYTE - 1] /\ dic_pos \in 0 .. DICT - 1
  /\ decode_byte \in Nat /\ readed_byte \in Nat /\ j \in Nat
  /\ decode_startaddr \in 0 .. DICT - 1 /\ decode_length \in 0 .. NIBBLE + 2
  /\ i \in 0 .. FLAGS /\ flag \in 0 .. BYTE - 1

(* The byte written n bytes ago; zeroes were written before the first.     *)
Ago(n) == IF n <= decode_byte THEN out[decode_byte + 1 - n] ELSE 0

(* The ring holds the last DICT bytes of the file being written, in order, *)
(* through every wrap and copies that overlap what they write.             *)
RingIsHistory ==
  pc \in {"while", "token", "copy", "decoded"} =>
    /\ decode_byte = Len(out)
    /\ \A n \in 1 .. DICT : dic[(dic_pos - n) % DICT] = Ago(n)

(* A file is decoded to what was packed in it; of one that is cut short    *)
(* everything is decoded that is there, whatever comes after; and so is    *)
(* the first archive of several.                                           *)
DecodesWhatIsThere ==
  members # <<>> =>
    /\ IsPrefix(input.plain[1], members[1])
    /\ input.whole /\ ~Program.several => members[1] = input.plain[1]

(* Where the program ends.                                                 *)
Finished == pc \in {"exit", "crash"}
================================================================================
