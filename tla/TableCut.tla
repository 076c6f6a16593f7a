------------------------------- MODULE TableCut -------------------------------
(***************************************************************************)
(* The cutters of archives and disk images that are read whole: a table    *)
(* says where each file lies, and each is copied to a file of its own.     *)
(* They share one loop; what differs is what an entry looks like, what     *)
(* ends the table, what is checked and what a file that cannot be created  *)
(* leads to.                                                               *)
(*                                                                         *)
(* Abstracted: the bytes that are copied are the range of the archive they *)
(* come from; the table is its entries, each the bytes of its fields.      *)
(***************************************************************************)
EXTENDS Integers, Sequences, FiniteSets

CONSTANTS
  Inputs,    \* the runs: program, archives, which file cannot be created
  MAXOPEN    \* files a program can have open

VARIABLES
  input, pc,
  a,          \* the archive
  i, place,   \* the entry, and where the next file begins in some formats
  created,    \* files that were, or were to be, created
  disk,       \* what the files hold
  unclosed,   \* those whose bytes are still in the program
  ret

walk == <<i, place>>
vars == <<input, pc, a, walk, created, disk, unclosed, ret>>

archive == input.archives[a]
prog == input.prog

-------------------------------------------------------------------------------
(* What an entry says. *)

(* Behind the table are the archive's other bytes, and behind the archive  *)
(* whatever memory holds: one value stands for them all.                   *)
Slot(k) == IF k + 1 \in DOMAIN archive.table THEN archive.table[k + 1] ELSE archive.behind
head == archive.head

Byte(e, o) == IF o + 1 \in DOMAIN e THEN e[o + 1] ELSE 0
Word(e, o) == Byte(e, o) + 256 * Byte(e, o + 1)
Three(e, o) == Word(e, o) + 65536 * Byte(e, o + 2)
Dword(e, o) == Word(e, o) + 65536 * Word(e, o + 2)
BigWord(e, o) == 256 * Byte(e, o) + Byte(e, o + 1)
BigDword(e, o) == 65536 * BigWord(e, o) + BigWord(e, o + 2)
MixedDword(e, o) == 65536 * Word(e, o) + Word(e, o + 2)

End == [kind |-> "end"]
Skip == [kind |-> "skip"]
Bad == [kind |-> "bad"]
Lies(from, len) == [kind |-> "file", from |-> from, len |-> len, of |-> "image", front |-> 0]

(* A program: whether it refuses the archive, its first entry and place,   *)
(* what follows a file that cannot be created, whether it closes the files *)
(* it writes, whether it closes something twice when it ends; where its    *)
(* table begins and how wide the entries are, if they are all of one width *)
(* and it walks them in memory without asking where the archive ends.      *)
Cutter ==
  [refused |-> FALSE, first |-> 0, start |-> 0, fails |-> "crash", code |-> 0, closes |-> TRUE, again |-> FALSE,
   table |-> 0, wide |-> 0]

Koei386 == [Cutter EXCEPT !.fails = "stop", !.code = -4, !.closes = FALSE, !.again = TRUE, !.table = 2, !.wide = 6]
Koei386Entry(e) ==
  IF i >= Word(head, 0) THEN End ELSE Lies(Word(head, 0) * 6 + 2 + Dword(e, 0), Word(e, 4))

(* The map's entries are where the files end; those of disk B follow those *)
(* of disk A, with an entry between them for where the first begins.       *)
Chaos == [Cutter EXCEPT !.start = Three(Slot(0), 0)]
OnDiskA == IF Word(head, 0) = 0 THEN 1 ELSE Word(head, 0)
ChaosEntry ==
  LET end == Three(Slot(i + 1), 0)
  IN  IF end = 0 \/ i >= OnDiskA + 1 + 511 THEN End
      ELSE [Lies(place, end - place) EXCEPT !.of = IF i < OnDiskA THEN "A" ELSE "B"]

SECTOR == 512

Ranma == [Cutter EXCEPT !.refused = ~archive.named]
RanmaEntry(e) ==
  IF Byte(e, 0) = 0 \/ (i > 0 /\ i * 20 >= archive.size) THEN End
  ELSE Lies(Word(e, 11) * SECTOR + Word(e, 15), (Word(e, 13) - 1) * SECTOR + Word(e, 17))

Hertz == Cutter
HertzEntry(e) ==
  IF Byte(e, 0) = 0 \/ (i > 0 /\ i * 16 >= archive.size) THEN End
  ELSE IF Word(e, 14) = 0 THEN Skip
  ELSE Lies(Word(e, 12) * SECTOR, Word(e, 14) * SECTOR)

DISK_SIZE == 80 * 2 * 9 * SECTOR
Dennou2 == [Cutter EXCEPT !.refused = archive.size < DISK_SIZE, !.fails = "next", !.table = 4 * SECTOR, !.wide = 16]
Dennou2Entry(e) ==
  LET side == (Byte(e, 15) \div 16) % 2
      sector == (Byte(e, 15) % 16) - 1
  IN  IF Byte(e, 0) = 255 THEN End
      ELSE Lies(((Byte(e, 14) * 2 + side) * 9 + sector) * SECTOR, Byte(e, 12) * SECTOR)

(* The lengths are signed.                                                 *)
Twilight3 == [Cutter EXCEPT !.closes = FALSE]
Twilight3Entry(e) ==
  IF Word(e, 0) = 0 \/ i >= 28 THEN End
  ELSE IF Word(e, 0) >= 32768 THEN Bad
  ELSE Lies(place, Word(e, 0))

Birdy == [Cutter EXCEPT !.refused = archive.size # 1261568, !.first = 2, !.fails = "next", !.again = TRUE]
BirdyEntry(e) ==
  IF i >= 256 THEN End
  ELSE IF Byte(e, 5) = 0 THEN Skip
  ELSE Lies(Word(e, 3) * 1024, Three(e, 0))

(* The only format of these whose program checks everything.               *)
IC98Header == 2 + 2 * BigWord(head, 0)
IC98 == [Cutter EXCEPT !.refused = archive.size < 2 \/ BigWord(head, 0) = 0 \/ IC98Header > archive.size,
                       !.fails = "stop", !.code = 1]
(* Mutant: where a file ends is not compared with the archive's size.      *)
IC98Unchecked(e) ==
  LET start == BigWord(e, 0)
      end == IF i + 1 < BigWord(head, 0) THEN BigWord(Slot(i + 1), 0) ELSE archive.size
  IN  IF i >= BigWord(head, 0) THEN End
      ELSE IF start < IC98Header \/ start > archive.size \/ end < start THEN Bad
      ELSE Lies(start, end - start)

IC98Entry(e) ==
  LET start == BigWord(e, 0)
      end == IF i + 1 < BigWord(head, 0) THEN BigWord(Slot(i + 1), 0) ELSE archive.size
  IN  IF i >= BigWord(head, 0) THEN End
      ELSE IF start < IC98Header \/ start > archive.size \/ end < start \/ end > archive.size THEN Bad
      ELSE Lies(start, end - start)

Aggregate == [Cutter EXCEPT !.fails = "stop", !.code = -1, !.again = TRUE]
AggregateEntry(e) == IF i >= Len(archive.table) THEN End ELSE Lies(place, Dword(e, 0) - place)

FutureWars == [Cutter EXCEPT !.fails = "next", !.table = 4, !.wide = 26]
FutureWarsEntry(e) == IF i >= Byte(head, 1) THEN End ELSE Lies(BigDword(e, 14), BigDword(e, 18))

Chuukinto2 == [Cutter EXCEPT !.table = 16, !.wide = 20]
Chuukinto2Entry(e) == IF i >= Word(head, 0) THEN End ELSE Lies(MixedDword(e, 16), MixedDword(e, 12))

Princess2 == [Cutter EXCEPT !.start = 6 + Dword(head, 0), !.fails = "next"]
Princess2Entry(e) ==
  LET namelen == Byte(e, 0)
  IN  IF i >= Word(head, 4) THEN End ELSE Lies(place, Word(e, 1 + namelen))

UNIT_SIZE == 256
Amus == [Cutter EXCEPT !.refused = archive.size < 2, !.first = 1, !.fails = "stop", !.code = 1, !.wide = 2]
(* Mutant: the end of a file is not compared with its start.               *)
AmusEntryAnyLength(e) ==
  LET start == (Word(e, 0) - 1) * UNIT_SIZE
      next == Word(Slot(i + 1), 0)
      end == IF next # 0 THEN (next - 1) * UNIT_SIZE ELSE archive.size
  IN  IF i >= 1024 \/ Word(e, 0) = 255 THEN End
      ELSE IF start < 0 \/ start >= archive.size \/ end > archive.size THEN Skip
      ELSE Lies(start, end - start)

(* An entry that is not good is passed over, and not numbered.             *)
AmusEntry(e) ==
  LET start == (Word(e, 0) - 1) * UNIT_SIZE
      next == Word(Slot(i + 1), 0)
      end == IF next # 0 THEN (next - 1) * UNIT_SIZE ELSE archive.size
  IN  IF i >= 1024 \/ Word(e, 0) = 255 THEN End
      ELSE IF start < 0 \/ start >= archive.size \/ end > archive.size \/ end <= start THEN Skip
      ELSE Lies(start, end - start)

rol2 == <<518, 459, 677, 633, 458, 978, 374, 978, 476, 365, 401, 182, 1019, 747, 420, 611, 468, 591, 525, 470,
          731, 933, 569, 702, 671, 283, 753, 703, 1184, 371, 370, 359, 595, 436, 298, 163, 356, 673, 178, 800,
          131, 579, 401, 683>>
fuku2 == rol2 \o <<386, 578, 1225, 399, 641, 1076, 194, 583, 1205, 492, 620, 666, 660, 635, 778, 489, 798, 1417>>

Lodoss2 == [Cutter EXCEPT !.refused = archive.size \notin {24272, 37114}, !.fails = "stop"]
Lodoss2Entry ==
  LET sizes == IF archive.size = 24272 THEN rol2 ELSE fuku2
  IN  IF i >= Len(sizes) THEN End ELSE Lies(place, sizes[i + 1])

rolw_tbl == <<636, 763, 626, 706, 941, 723, 929, 504, 2016, 787, 1160, 2619, 2756, 886, 1147, 605, 1245, 635, 496, 1159, 656>>
fuku_tbl == <<6855, 1245, 1159, 605, 656, 635, 496, 929, 504, 636, 763, 626, 941, 723, 706, 787, 2756, 2619, 1160, 2016,
              1147, 886, 687, 2187, 3199, 1526, 1763, 843, 8248, 335>>

(* The name the archive is found under tells which table is its.           *)
Lodoss1 == [Cutter EXCEPT !.fails = "stop"]
Lodoss1Entry ==
  LET sizes == IF archive.named THEN rolw_tbl ELSE fuku_tbl
  IN  IF i >= Len(sizes) THEN End ELSE Lies(place, sizes[i + 1])

MetalOrange == [Cutter EXCEPT !.start = BigDword(head, 0) + 4, !.table = 4, !.wide = 10]
MetalOrangeEntry(e) ==
  IF BigWord(e, 4) = 65535 THEN End ELSE [Lies(place, BigDword(e, 0)) EXCEPT !.front = 6]

Carat == [Cutter EXCEPT !.wide = 18]
CaratEntry(e) ==
  IF BigDword(e, 14) = 0 THEN End ELSE [Lies(BigDword(e, 10) + 576, BigDword(e, 14)) EXCEPT !.front = 7]

(* A place counts quarters of a sector of 1024 bytes, eight to a track;    *)
(* the read along the tracks fails behind the end of the disk.             *)
Fukujin == [Cutter EXCEPT !.first = 1, !.fails = "next"]
FukujinEntry(e) ==
  LET s_p == Word(e, 0)
      track == s_p \div 32
      sector == (s_p \div 4) % 8
      from == (track * 8 + sector) * 1024 + (s_p % 4) * 256
      len == (((Byte(e, 2) + 255) % 256) + 1) * 256
  IN  IF i > 194 THEN End
      ELSE IF s_p = 0 \/ from + len > archive.size THEN Skip
      ELSE Lies(from, len)

Program ==
  CASE prog = "koei386" -> Koei386 [] prog = "chaos" -> Chaos [] prog = "ranma" -> Ranma
    [] prog = "hertz" -> Hertz [] prog = "dennou2" -> Dennou2 [] prog = "twilight3" -> Twilight3
    [] prog = "birdy" -> Birdy [] prog = "ic98" -> IC98 [] prog = "aggregate" -> Aggregate
    [] prog = "futurewars" -> FutureWars [] prog = "chuukinto2" -> Chuukinto2
    [] prog = "princess2" -> Princess2 [] prog = "amus" -> Amus [] prog = "lodoss2" -> Lodoss2
    [] prog = "lodoss1" -> Lodoss1 [] prog = "metalorange" -> MetalOrange [] prog = "carat" -> Carat
    [] prog = "fukujin" -> Fukujin

Entry ==
  LET e == Slot(i)
  IN  CASE prog = "koei386" -> Koei386Entry(e) [] prog = "chaos" -> ChaosEntry [] prog = "ranma" -> RanmaEntry(e)
        [] prog = "hertz" -> HertzEntry(e) [] prog = "dennou2" -> Dennou2Entry(e)
        [] prog = "twilight3" -> Twilight3Entry(e) [] prog = "birdy" -> BirdyEntry(e) [] prog = "ic98" -> IC98Entry(e)
        [] prog = "aggregate" -> AggregateEntry(e) [] prog = "futurewars" -> FutureWarsEntry(e)
        [] prog = "chuukinto2" -> Chuukinto2Entry(e) [] prog = "princess2" -> Princess2Entry(e)
        [] prog = "amus" -> AmusEntry(e) [] prog = "lodoss2" -> Lodoss2Entry [] prog = "lodoss1" -> Lodoss1Entry
        [] prog = "metalorange" -> MetalOrangeEntry(e) [] prog = "carat" -> CaratEntry(e)
        [] prog = "fukujin" -> FukujinEntry(e)

(* Names are the entry's number; AMUS counts what it has written, and the  *)
(* files of disk B of Chaos Angels begin again from zero.                  *)
Name ==
  IF prog = "amus" THEN created + 1
  ELSE IF prog = "chaos" /\ i > OnDiskA THEN i - OnDiskA - 1
  ELSE i
File == <<a, IF prog = "chaos" /\ i > OnDiskA THEN "B" ELSE "A", Name>>

-------------------------------------------------------------------------------
(* The program. *)

Init ==
  /\ input \in Inputs
  /\ pc = "start" /\ a = 1 /\ i = 0 /\ place = 0 /\ created = 0
  /\ disk = <<>> /\ unclosed = {} /\ ret = 0

(* An archive that cannot be read ends the program, Aggregate's by closing *)
(* files it has not opened; Illusion City's goes on with the next archive. *)
Refuse ==
  /\ pc = "start"
  /\ ~archive.there \/ Program.refused
  /\ ret' = 1
  /\ pc' \in CASE prog = "ic98" -> {"closed"} [] prog = "aggregate" -> {"exit", "crash"} [] OTHER -> {"exit"}
  /\ UNCHANGED <<input, a, walk, created, disk, unclosed>>

Open ==
  /\ pc = "start"
  /\ archive.there /\ ~Program.refused
  /\ i' = Program.first /\ place' = Program.start
  /\ pc' = "entry"
  /\ UNCHANGED <<input, a, created, disk, unclosed, ret>>

(* The sides of a disk map, and the numbers of the tunes on Fukujinzuke's  *)
(* disk, have gaps. Mutant: disk B's places go on from where disk A ended. *)
StepKeepsPlace(len) ==
  IF prog = "chaos" /\ i + 1 = OnDiskA THEN i' = i + 2 /\ place' = place + len
  ELSE /\ i' = IF prog # "fukujin" THEN i + 1
               ELSE IF i = 2 THEN 10 ELSE IF i = 35 THEN 190 ELSE i + 1
       /\ place' = place + len

Step(len) ==
  IF prog = "chaos" /\ i + 1 = OnDiskA THEN i' = i + 2 /\ place' = 0
  ELSE /\ i' = IF prog # "fukujin" THEN i + 1
               ELSE IF i = 2 THEN 10 ELSE IF i = 35 THEN 190 ELSE i + 1
       /\ place' = place + len

(* Mutant: an entry that is passed over is looked at again.                *)
SkipNothing ==
  /\ pc = "entry" /\ Entry.kind = "skip"
  /\ UNCHANGED <<vars>>

SkipEntry ==
  /\ pc = "entry" /\ Entry.kind = "skip"
  /\ Step(0)
  /\ UNCHANGED <<input, pc, a, created, disk, unclosed, ret>>

(* A negative length is one no memory can be had for.                      *)
BadEntry ==
  /\ pc = "entry" /\ Entry.kind = "bad"
  /\ IF prog = "ic98" THEN pc' = "end" /\ ret' = Program.code ELSE pc' = "crash" /\ UNCHANGED ret
  /\ UNCHANGED <<input, a, walk, created, disk, unclosed>>

EndOfTable ==
  /\ pc = "entry" /\ Entry.kind = "end"
  /\ pc' = "end"
  /\ UNCHANGED <<input, a, walk, created, disk, unclosed, ret>>

(* What is read behind the archive may also be no memory of the program's. *)
(* AMUS reads the entry behind the one it is at.                           *)
Outside(k) ==
  /\ Program.wide > 0 /\ ~archive.sound
  /\ k + 1 \notin DOMAIN archive.table
  /\ Program.table + Program.wide * (k + 1) > archive.size
ReadBehind ==
  /\ pc = "entry"
  /\ Outside(i) \/ (prog = "amus" /\ Entry.kind # "end" /\ Outside(i + 1))
  /\ pc' = "crash"
  /\ UNCHANGED <<input, a, walk, created, disk, unclosed, ret>>

CanCreate == created + 1 # input.full /\ Cardinality(unclosed) < MAXOPEN

Cut ==
  /\ pc = "entry" /\ Entry.kind = "file"
  /\ CanCreate
  /\ created' = created + 1
  /\ disk' = [f \in DOMAIN disk \cup {File} |-> IF f = File THEN Entry ELSE disk[f]]
  /\ unclosed' = IF Program.closes THEN unclosed ELSE unclosed \cup {File}
  /\ Step(Entry.len)
  /\ UNCHANGED <<input, pc, a, ret>>

(* Birdy Soft's closes the file it has not opened.  Mutant: the loop is    *)
(* left with the code it began with.                                       *)
CannotCreateSilent ==
  /\ pc = "entry" /\ Entry.kind = "file"
  /\ ~CanCreate
  /\ created' = created + 1
  /\ CASE Program.fails = "crash" -> pc' = "crash" /\ UNCHANGED walk
       [] Program.fails = "next" ->
            pc' \in (IF prog = "birdy" THEN {"entry", "crash"} ELSE {"entry"}) /\ Step(Entry.len)
       [] Program.fails = "stop" -> pc' = "end" /\ UNCHANGED walk
  /\ UNCHANGED <<input, a, disk, unclosed, ret>>

CannotCreate ==
  /\ pc = "entry" /\ Entry.kind = "file"
  /\ ~CanCreate
  /\ created' = created + 1
  /\ CASE Program.fails = "crash" -> pc' = "crash" /\ UNCHANGED <<walk, ret>>
       [] Program.fails = "next" ->
            pc' \in (IF prog = "birdy" THEN {"entry", "crash"} ELSE {"entry"}) /\ Step(Entry.len) /\ UNCHANGED ret
       [] Program.fails = "stop" -> pc' = "end" /\ ret' = Program.code /\ UNCHANGED walk
  /\ UNCHANGED <<input, a, disk, unclosed>>

(* What is closed a second time may end the program, and what is left open *)
(* is lost with it. Birdy Soft's closes its last file again if it has one. *)
ClosesAgain == Program.again /\ (prog = "birdy" => created \notin {0, input.full})

(* Mutant: an archive is the last when it is refused in the middle.        *)
CloseFailed ==
  /\ pc = "end"
  /\ pc' \in IF ClosesAgain THEN {"closed", "crash"} ELSE IF ret # 0 THEN {"exit"} ELSE {"closed"}
  /\ UNCHANGED <<input, a, walk, created, disk, unclosed, ret>>

Close ==
  /\ pc = "end"
  /\ pc' \in IF ClosesAgain THEN {"closed", "crash"} ELSE {"closed"}
  /\ UNCHANGED <<input, a, walk, created, disk, unclosed, ret>>

NextArchive ==
  /\ pc = "closed"
  /\ IF a < Len(input.archives) THEN a' = a + 1 /\ pc' = "start" ELSE pc' = "exit" /\ UNCHANGED a
  /\ UNCHANGED <<input, walk, created, disk, unclosed, ret>>

Lose ==
  /\ pc = "crash" /\ unclosed # {}
  /\ disk' = [f \in DOMAIN disk \ unclosed |-> disk[f]]
  /\ unclosed' = {}
  /\ UNCHANGED <<input, pc, a, walk, created, ret>>

Next ==
  \/ Refuse \/ Open \/ SkipEntry \/ BadEntry \/ EndOfTable \/ ReadBehind \/ Cut \/ CannotCreate
  \/ Close \/ NextArchive \/ Lose

Spec == Init /\ [][Next]_vars /\ WF_vars(Next)

-------------------------------------------------------------------------------
(* Properties. *)

TypeOK ==
  /\ pc \in {"start", "entry", "end", "closed", "exit", "crash"}
  /\ a \in DOMAIN input.archives
  /\ i \in 0 .. 1024 /\ place \in Nat /\ created \in Nat
  /\ \A f \in DOMAIN disk : f[1] \in 1 .. a /\ disk[f].len >= 0
  /\ unclosed \subseteq DOMAIN disk /\ Cardinality(unclosed) <= MAXOPEN
  /\ ret \in {-4, -1, 0, 1}

(* Every file holds the bytes that were laid down for it and no other's,   *)
(* by each format's way to write where they are: sectors and bytes, tracks *)
(* and sides, ends, lengths, places from three different origins.          *)
CutsWhatIsThere ==
  \A f \in DOMAIN disk :
    input.archives[f[1]].sound =>
      LET says == input.archives[f[1]].says
      IN  <<f[2], f[3]>> \in DOMAIN says /\ disk[f] = says[<<f[2], f[3]>>]

Missing(n) ==
  {f \in DOMAIN input.archives[n].says : <<n>> \o f \notin DOMAIN disk}
Good(n) == input.archives[n].there /\ input.archives[n].sound

(* A program that reaches its end has cut every file of a sound archive,   *)
(* whatever became of the archive before it; where a file that cannot be   *)
(* created does not stop it, that one is all that is missing. Programs     *)
(* that leave their files open get as far as there are files to be had.    *)
CutsEverything ==
  pc = "exit" =>
    \A n \in DOMAIN input.archives :
      Good(n) /\ (Program.closes \/ Cardinality(DOMAIN input.archives[n].says) <= MAXOPEN) =>
        \/ Missing(n) = {}
        \/ input.full # 0 /\ Program.fails # "next"
        \/ input.full # 0 /\ Cardinality(Missing(n)) = 1

(* However wrong the table, Illusion City's and AMUS's cutters copy no     *)
(* byte from outside the archive.                                          *)
NothingFromOutside ==
  prog \in {"ic98", "amus"} =>
    \A f \in DOMAIN disk :
      disk[f].from >= 0 /\ disk[f].from + disk[f].len <= input.archives[f[1]].size

(* The programs that tell an error by their return value do: with 0 every  *)
(* file they set out to write is there.                                    *)
TellsWhatFailed ==
  (pc = "exit" /\ ret = 0 /\ prog \in {"koei386", "ic98", "aggregate", "amus"}) =>
    Cardinality(DOMAIN disk) = created

(* Where every table comes to an end, if not in the program's good time.   *)
Finished == pc \in {"exit", "crash"}
===============================================================================
