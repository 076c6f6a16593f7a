----------------------------- MODULE CosmosExpand -----------------------------
(***************************************************************************)
(* reg2_exp, reg3_exp and magicr_exp: the music of Regional Power 2 and 3  *)
(* and of Magicrement. A table in front of the file says where each piece  *)
(* begins; each is expanded into the same buffer and written to a file of  *)
(* its own. In a piece the first two bytes are the marks of two kinds of   *)
(* copy, and every other byte stands for itself.                           *)
(*                                                                         *)
(* Scaled: a byte has BYTE values, an eighth of them high bits, half of    *)
(* them NIBBLE. The pieces are kept by their offset, with the bytes behind *)
(* the word or dword in front of them.                                     *)
(***************************************************************************)
EXTENDS Integers, Sequences

CONSTANTS
  NIBBLE,  \* values of half a byte: 16 in the code; eight values or more in a byte
  TABLE,   \* entries of the table, of 256 bytes in the code
  FRONT,   \* bytes in front of a piece of Magicrement: 4
  DEST,    \* the buffer: 0x10000
  Inputs   \* the runs: program, table, pieces, size, and what was packed in each

BYTE == NIBBLE * NIBBLE
HIGH == BYTE \div 8

VARIABLES
  input, pc,
  k, place,            \* the piece's number and its entry in the table
  piece, size,         \* its bytes, how many there are to expand
  flag1, flag2, t, ofs,
  t_ofs, t_len,
  dest, dest_ofs,      \* the buffer, used again for every piece
  files

walk == <<input, k, place, files>>
marks == <<piece, size, flag1, flag2>>
copying == <<t_ofs, t_len>>
buffer == <<dest, dest_ofs>>
vars == <<walk, pc, marks, t, ofs, copying, buffer>>

(* What memory holds that nothing was written to.                          *)
UNWRITTEN == BYTE

-------------------------------------------------------------------------------
(* The programs: where the table begins, whether a byte is skipped behind  *)
(* the marks, whether a long copy has a length of two bytes.               *)

RegionalPower2 == [first |-> 2, skip |-> 1, long |-> TRUE]
RegionalPower3 == [first |-> 0, skip |-> 1, long |-> TRUE]
Magicrement == [first |-> 0, skip |-> 0, long |-> FALSE]
Program == [reg2 |-> RegionalPower2, reg3 |-> RegionalPower3, magicr |-> Magicrement][input.prog]

Init ==
  /\ input \in Inputs
  /\ pc = "start" /\ k = 0 /\ place = Program.first
  /\ piece = <<>> /\ size = 0 /\ flag1 = 0 /\ flag2 = 0 /\ t = 0 /\ ofs = 0
  /\ t_ofs = 0 /\ t_len = 0
  /\ dest = [a \in 0 .. DEST - 1 |-> UNWRITTEN] /\ dest_ofs = 0
  /\ files = <<>>

-------------------------------------------------------------------------------
(* main. *)

(* Without the file or the memory there is nothing to do.                  *)
Begin ==
  /\ pc = "start"
  /\ pc' \in {"table", "failed"}
  /\ UNCHANGED <<walk, marks, t, ofs, copying, buffer>>

Entry == input.table[place + 1]

(* Regional Power: offsets in units of a sector, each piece with its size; *)
(* Magicrement: offsets alone, a piece ends where the next begins.         *)
AtEnd ==
  IF Program.long THEN Entry = 0 \/ Entry >= input.size
  ELSE input.table[place + 2] = 0

Stop ==
  /\ pc = "table"
  /\ place >= TABLE \/ AtEnd
  /\ pc' = "exit"
  /\ UNCHANGED <<walk, marks, t, ofs, copying, buffer>>

StartPiece ==
  /\ pc = "table"
  /\ place < TABLE /\ ~AtEnd
  /\ piece' = input.pieces[Entry].bytes
  /\ size' = IF Program.long THEN input.pieces[Entry].size ELSE input.table[place + 2] - Entry - FRONT
  /\ pc' = "expand"
  /\ UNCHANGED <<walk, flag1, flag2, t, ofs, copying, buffer>>

(* Mutant: the walk stays where it is.                                     *)
WriteAgain ==
  /\ pc = "write"
  /\ files' = [n \in 0 .. k |-> IF n = k THEN [a \in 1 .. dest_ofs |-> dest[a - 1]] ELSE files[n]]
  /\ pc' = "table"
  /\ UNCHANGED <<input, k, place, marks, t, ofs, copying, buffer>>

(* Mutant: it takes the table's entries for twice as wide.                 *)
WriteSkipping ==
  /\ pc = "write"
  /\ files' = [n \in 0 .. k |-> IF n = k THEN [a \in 1 .. dest_ofs |-> dest[a - 1]] ELSE files[n]]
  /\ k' = k + 1 /\ place' = place + 2
  /\ pc' = "table"
  /\ UNCHANGED <<input, marks, t, ofs, copying, buffer>>

WriteFile ==
  /\ pc = "write"
  /\ files' = [n \in 0 .. k |-> IF n = k THEN [a \in 1 .. dest_ofs |-> dest[a - 1]] ELSE files[n]]
  /\ k' = k + 1 /\ place' = place + 1
  /\ pc' = "table"
  /\ UNCHANGED <<input, marks, t, ofs, copying, buffer>>

(* Whether the file could be created is not asked.                         *)
CannotCreate ==
  /\ pc = "write"
  /\ pc' = "crash"
  /\ UNCHANGED <<walk, marks, t, ofs, copying, buffer>>

-------------------------------------------------------------------------------
(* expand. *)

(* Behind the piece is whatever comes next in the file.                    *)
At(n) == IF n < Len(piece) THEN {piece[n + 1]} ELSE 0 .. BYTE - 1

Marks ==
  /\ pc = "expand"
  /\ flag1' \in At(0) /\ flag2' \in At(1)
  /\ ofs' = 2 + Program.skip
  /\ dest_ofs' = 0
  /\ pc' = "while"
  /\ UNCHANGED <<walk, piece, size, t, copying, dest>>

Token ==
  /\ pc = "while"
  /\ IF ofs < size THEN t' \in At(ofs) /\ ofs' = ofs + 1 /\ pc' = "token"
     ELSE pc' = "write" /\ UNCHANGED <<t, ofs>>
  /\ UNCHANGED <<walk, marks, copying, buffer>>

Marked(hi) == hi \div HIGH = 4

(* A word, its three high bits 100 if the length is one byte; the other    *)
(* bits are how far back. Mutant: the length of two bytes is taken for one.*)
FarOneByte ==
  /\ pc = "token" /\ t = flag1
  /\ \E lo \in At(ofs), hi \in At(ofs + 1), len \in At(ofs + 2), more \in At(ofs + 3) :
       IF ~Marked(hi) /\ ~Program.long THEN pc' = "write" /\ UNCHANGED <<copying, ofs>>
       ELSE /\ t_ofs' = dest_ofs - (hi % HIGH) * BYTE - lo
            /\ t_len' = len
            /\ ofs' = IF Marked(hi) THEN ofs + 3 ELSE ofs + 4
            /\ pc' = "copy"
  /\ UNCHANGED <<walk, marks, t, buffer>>

Far ==
  /\ pc = "token" /\ t = flag1
  /\ \E lo \in At(ofs), hi \in At(ofs + 1), len \in At(ofs + 2), more \in At(ofs + 3) :
       IF ~Marked(hi) /\ ~Program.long THEN pc' = "write" /\ UNCHANGED <<copying, ofs>>
       ELSE /\ t_ofs' = dest_ofs - (hi % HIGH) * BYTE - lo
            /\ t_len' = IF Marked(hi) THEN len ELSE more * BYTE + len
            /\ ofs' = IF Marked(hi) THEN ofs + 3 ELSE ofs + 4
            /\ pc' = "copy"
  /\ UNCHANGED <<walk, marks, t, buffer>>

(* Mutant: the way back begins at none.                                    *)
NearOff ==
  /\ pc = "token" /\ t # flag1 /\ t = flag2
  /\ \E b \in At(ofs) :
       IF b % NIBBLE = 0 THEN pc' = "write" /\ UNCHANGED <<copying, ofs>>
       ELSE /\ t_len' = b % NIBBLE
            /\ t_ofs' = dest_ofs - b \div NIBBLE
            /\ ofs' = ofs + 1
            /\ pc' = "copy"
  /\ UNCHANGED <<walk, marks, t, buffer>>

(* Half a byte each for the way back and the length; no length is the end. *)
Near ==
  /\ pc = "token" /\ t # flag1 /\ t = flag2
  /\ \E b \in At(ofs) :
       IF b % NIBBLE = 0 THEN pc' = "write" /\ UNCHANGED <<copying, ofs>>
       ELSE /\ t_len' = b % NIBBLE
            /\ t_ofs' = dest_ofs - (b \div NIBBLE + 1)
            /\ ofs' = ofs + 1
            /\ pc' = "copy"
  /\ UNCHANGED <<walk, marks, t, buffer>>

Put(b) == dest_ofs < DEST /\ dest' = [dest EXCEPT ![dest_ofs] = b] /\ dest_ofs' = dest_ofs + 1

Copy ==
  /\ pc = "copy"
  /\ IF t_len > 0
     THEN /\ Put(IF t_ofs \in DOMAIN dest THEN dest[t_ofs] ELSE UNWRITTEN)
          /\ t_ofs' = t_ofs + 1 /\ t_len' = t_len - 1 /\ UNCHANGED pc
     ELSE pc' = "while" /\ UNCHANGED <<copying, buffer>>
  /\ UNCHANGED <<walk, marks, t, ofs>>

Literal ==
  /\ pc = "token" /\ t # flag1 /\ t # flag2
  /\ Put(t)
  /\ pc' = "while"
  /\ UNCHANGED <<walk, marks, t, ofs, copying>>

Next ==
  \/ Begin \/ Stop \/ StartPiece \/ WriteFile \/ CannotCreate \/ Marks \/ Token \/ Far \/ Near \/ Copy
  \/ Literal

Spec == Init /\ [][Next]_vars /\ WF_vars(Next)

-------------------------------------------------------------------------------
(* Properties. *)

TypeOK ==
  /\ pc \in {"table", "expand", "while", "token", "copy", "write", "exit", "start", "failed", "crash"}
  /\ k \in Nat /\ place \in 0 .. TABLE /\ k + Program.first = place
  /\ flag1 \in 0 .. BYTE - 1 /\ flag2 \in 0 .. BYTE - 1 /\ t \in 0 .. BYTE - 1 /\ ofs \in Nat
  /\ t_ofs \in Int /\ t_len \in 0 .. BYTE * BYTE - 1
  /\ dest \in [0 .. DEST - 1 -> 0 .. BYTE] /\ dest_ofs \in 0 .. DEST

(* Every file holds what was packed in its piece, whatever the pieces      *)
(* before it left in the buffer.                                           *)
FilesAreThePieces == \A n \in 0 .. k - 1 : files[n] = input.plain[n + 1]

(* A byte that was written for an earlier piece, or never, is not copied.  *)
CopiesOwnBytes == pc = "copy" /\ t_len > 0 => t_ofs \in 0 .. dest_ofs - 1

(* When the program ends there is a file for every piece of the table.     *)
AFileForEach == pc = "exit" => k = Len(input.plain)

(* Where it ends, whatever the pieces hold: every token brings it nearer   *)
(* the end of its piece.                                                   *)
Finished == pc \in {"exit", "failed", "crash"}
================================================================================
