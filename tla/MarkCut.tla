-------------------------------- MODULE MarkCut --------------------------------
(***************************************************************************)
(* The MSX cutters that have no table to go by: a tune begins at a sector  *)
(* with a mark in its first bytes. Those of MicroCabin and Falcom take all *)
(* up to the next mark for the tune; those of Wolfteam look for a mark and *)
(* take the length from behind it.                                         *)
(*                                                                         *)
(* Abstracted: an archive is the first bytes of its sectors and a size;    *)
(* bytes that are copied are the range they come from. A last sector that  *)
(* is not whole is taken to hold a mark's bytes.                           *)
(***************************************************************************)
EXTENDS Integers, Sequences, FiniteSets

CONSTANTS
  Inputs,   \* the runs: a program, an archive, which file cannot be created
  WORD,     \* values of a size_t
  BEYOND    \* sectors looked at behind the end of the archive

SECTOR == 512

VARIABLES
  input, pc,
  offset, size,  \* where a tune begins and how far it has been measured
  remain,        \* bytes still to be looked at
  found,         \* what the mark at offset is the mark of
  count,         \* the tunes, and the voices, numbered so far
  files,         \* the range of the archive each file holds
  ret

measure == <<offset, size, remain, found>>
vars == <<input, pc, measure, count, files, ret>>

-------------------------------------------------------------------------------
(* The marks. *)

prog == input.prog

(* How each takes an archive apart: whether it looks for marks, whether    *)
(* what is left is unsigned, what a file's head is, whether one byte of    *)
(* the first mark is enough.                                               *)
Fray == [searches |-> FALSE, unsigned |-> FALSE, header |-> 0, half |-> FALSE]
Ds6 == [searches |-> FALSE, unsigned |-> FALSE, header |-> 0, half |-> TRUE]
Toc == [searches |-> FALSE, unsigned |-> TRUE, header |-> 16, half |-> FALSE]
Wolfm == [searches |-> TRUE, unsigned |-> FALSE, header |-> 0, half |-> FALSE]
Arcusm == [searches |-> TRUE, unsigned |-> FALSE, header |-> 0, half |-> FALSE]

Cutter == [fray |-> Fray, ds6 |-> Ds6, toc |-> Toc, wolfm |-> Wolfm, arcusm |-> Arcusm][prog]
Searches == Cutter.searches

Inside(k) == k * SECTOR < input.size
Byte(k, n) == IF n <= Len(input.heads[k + 1]) THEN input.heads[k + 1][n] ELSE 0
Letters(k) == <<Byte(k, 1), Byte(k, 2), Byte(k, 3)>>

BGM == {<<66, 71, 77>>, <<98, 103, 109>>}
ONS == {<<79, 78, 83>>, <<111, 110, 115>>}

FrayMark(k) == Byte(k, 1) \in {\h0C, \hFE} /\ Byte(k, 2) = 0
Ds6Mark(k) == Byte(k, 1) = \h20 /\ Byte(k, 2) = 0
TocMark(k) == Letters(k) \in BGM \cup ONS
WolfMark(k) == Byte(k, 1) = 0 /\ Byte(k, 2) = \h42
ArcusMark(k) == Byte(k, 1) \in {0, 1} /\ Byte(k, 2) = \h42

Marked(k) ==
  CASE prog = "fray" -> FrayMark(k) [] prog = "ds6" -> Ds6Mark(k) [] prog = "toc" -> TocMark(k)
    [] prog = "wolfm" -> WolfMark(k) [] prog = "arcusm" -> ArcusMark(k)

(* What lies behind the archive in memory may look like a mark.            *)
Seen(k) == IF Inside(k) THEN {Marked(k)} ELSE BOOLEAN

(* Dragon Slayer 6 asks of the first sector one byte of the mark, not both.*)
Accepted ==
  IF Inside(offset)
  THEN {IF Cutter.half THEN Byte(offset, 1) = \h20 \/ Byte(offset, 2) = 0 ELSE Marked(offset)}
  ELSE BOOLEAN

(* Mutant: voices are taken for tunes.                                     *)
KindUntold == "BGM"

Kind == IF prog = "toc" /\ Inside(offset) /\ Letters(offset) \in ONS THEN "TON" ELSE "BGM"

-------------------------------------------------------------------------------
(* The program. *)

Init ==
  /\ input \in Inputs
  /\ pc = "start"
  /\ offset = 0 /\ size = 0 /\ remain = 0 /\ found = "BGM"
  /\ count = [k \in {"BGM", "TON"} |-> 0]
  /\ files = <<>> /\ ret = 0

CannotOpen ==
  /\ pc = "start" /\ ~input.there
  /\ pc' = "exit" /\ ret' = -2
  /\ UNCHANGED <<input, measure, count, files>>

Read ==
  /\ pc = "start" /\ input.there
  /\ remain' = input.size /\ pc' = "head"
  /\ UNCHANGED <<input, offset, size, found, count, files, ret>>

(* The Tower of Cabin's remain is unsigned.                                *)
Less(n) == IF Cutter.unsigned THEN (remain - n) % WORD ELSE remain - n

Begin ==
  /\ pc = "head" /\ ~Searches
  /\ \E yes \in Accepted :
       IF yes
       THEN size' = 1 /\ remain' = Less(SECTOR) /\ found' = Kind /\ pc' = "measure"
       ELSE pc' = "exit" /\ UNCHANGED <<size, remain, found>>
  /\ UNCHANGED <<input, offset, count, files, ret>>

(* Mutant: only a mark ends a tune.                                        *)
MeasureOn ==
  /\ pc = "measure"
  /\ \E yes \in Seen(offset + size) :
       IF yes THEN pc' = "write" /\ UNCHANGED <<size, remain>>
       ELSE /\ (offset + size) * SECTOR < input.size + BEYOND * SECTOR
            /\ size' = size + 1 /\ remain' = Less(SECTOR) /\ UNCHANGED pc
  /\ UNCHANGED <<input, offset, found, count, files, ret>>

Measure ==
  /\ pc = "measure"
  /\ IF remain <= 0 THEN pc' = "write" /\ UNCHANGED <<size, remain>>
     ELSE \E yes \in Seen(offset + size) :
            IF yes THEN pc' = "write" /\ UNCHANGED <<size, remain>>
            ELSE /\ (offset + size) * SECTOR < input.size + BEYOND * SECTOR
                 /\ size' = size + 1 /\ remain' = Less(SECTOR) /\ UNCHANGED pc
  /\ UNCHANGED <<input, offset, found, count, files, ret>>

(* Memory ends somewhere behind the archive.                               *)
RunOff ==
  /\ pc = "measure" /\ remain > 0 /\ ~Inside(offset + size)
  /\ pc' = "crash"
  /\ UNCHANGED <<input, measure, count, files, ret>>

(* Mutant: a sector without a mark is looked at again.                     *)
SearchAgain ==
  /\ pc = "head" /\ Searches
  /\ IF remain <= 0 THEN pc' = "exit"
     ELSE IF Marked(offset) THEN pc' = "write" ELSE UNCHANGED pc
  /\ UNCHANGED <<input, measure, count, files, ret>>

Search ==
  /\ pc = "head" /\ Searches
  /\ IF remain <= 0 THEN pc' = "exit" /\ UNCHANGED <<offset, remain>>
     ELSE IF Marked(offset) THEN pc' = "write" /\ UNCHANGED <<offset, remain>>
     ELSE offset' = offset + 1 /\ remain' = remain - SECTOR /\ UNCHANGED pc
  /\ UNCHANGED <<input, size, found, count, files, ret>>

fsize == Byte(offset, 3) + 256 * Byte(offset, 4)
Copied ==
  [from |-> offset * SECTOR + Cutter.header,
   len  |-> IF Searches THEN fsize ELSE size * SECTOR - Cutter.header]

(* Mutant: the search goes on a sector late.                               *)
SectorsLate == IF Searches THEN fsize \div SECTOR + 2 ELSE size

Sectors == IF Searches THEN fsize \div SECTOR + 1 ELSE size

(* Mutant: tunes and voices are numbered together.                         *)
NumberedTogether == [k \in {"BGM", "TON"} |-> count[k] + 1]

Numbered == [count EXCEPT ![found] = @ + 1]

CanCreate == Cardinality(DOMAIN files) + 1 # input.full

(* Bytes from behind the archive end the program or are taken as they are. *)
Write ==
  /\ pc = "write" /\ CanCreate
  /\ files' = [n \in DOMAIN files \cup {<<found, count[found]>>} |->
                 IF n = <<found, count[found]>> THEN Copied ELSE files[n]]
  /\ count' = Numbered
  /\ offset' = offset + Sectors
  /\ remain' = IF Searches THEN remain - Sectors * SECTOR ELSE remain
  /\ pc' = IF offset' * SECTOR < input.size THEN "head" ELSE "exit"
  /\ UNCHANGED <<input, size, found, ret>>

WriteCrash ==
  /\ pc = "write"
  /\ ~CanCreate \/ Copied.from + Copied.len > input.size
  /\ pc' = "crash"
  /\ UNCHANGED <<input, measure, count, files, ret>>

Next == CannotOpen \/ Read \/ Begin \/ Measure \/ RunOff \/ Search \/ Write \/ WriteCrash

Spec == Init /\ [][Next]_vars /\ WF_vars(Next)

(* What the cutters are run on: of every sector of the archive, the first  *)
(* bytes; the archive is smaller than the largest size_t.                  *)
ArchivesAreRead ==
  /\ WORD \in Nat
  /\ \A x \in Inputs :
       /\ x.prog \in {"fray", "ds6", "toc", "wolfm", "arcusm"}
       /\ x.heads \in Seq(Seq(0 .. 255))
       /\ x.size \in Nat /\ x.size < WORD
       /\ x.size <= Len(x.heads) * SECTOR /\ (Len(x.heads) - 1) * SECTOR < x.size

-------------------------------------------------------------------------------
(* Properties. *)

TypeOK ==
  /\ pc \in {"start", "head", "measure", "write", "exit", "crash"}
  /\ offset \in Nat /\ size \in Nat /\ remain \in Int
  /\ found \in {"BGM", "TON"}
  /\ \A k \in {"BGM", "TON"} : count[k] = Cardinality({n \in DOMAIN files : n[1] = k})
  /\ ret \in {-2, 0}

AllSectors == 0 .. Len(input.heads) - 1
Marks == {k \in AllSectors : Marked(k)}
Whole == input.size % SECTOR = 0

KindOf(k) == IF prog = "toc" /\ Letters(k) \in ONS THEN "TON" ELSE "BGM"
UpToNext(k) ==
  LET later == {m \in Marks : m > k} \cup {Len(input.heads)}
  IN  (CHOOSE m \in later : \A n \in later : m <= n) - k

(* An archive of whole sectors that begins with a mark is cut at every     *)
(* mark and nowhere else: the n-th tune, and the n-th voice, of the        *)
(* archive is in the n-th file of its kind, whole, and no file takes       *)
(* another's name.                                                         *)
EveryTuneIsCut ==
  (pc = "exit" /\ ret = 0 /\ ~Searches /\ Whole /\ Marks # {} /\ Marked(0)) =>
    /\ Cardinality(DOMAIN files) = Cardinality(Marks)
    /\ \A k \in Marks :
         LET n == <<KindOf(k), Cardinality({m \in Marks : m < k /\ KindOf(m) = KindOf(k)})>>
             h == Cutter.header
         IN  n \in DOMAIN files /\ files[n] = [from |-> k * SECTOR + h, len |-> UpToNext(k) * SECTOR - h]

LengthAt(k) == Byte(k, 3) + 256 * Byte(k, 4)
FillsItsSectors(k) == LengthAt(k) % SECTOR = 0

(* Wolfteam's tunes are found wherever they begin: every mark that is not  *)
(* among another tune's bytes begins a file of the length behind it, in    *)
(* the archive's order, unless it follows a tune that fills its sectors.   *)
EveryTuneIsFound ==
  (pc = "exit" /\ ret = 0 /\ Searches /\ \A k \in Marks : ~FillsItsSectors(k)) =>
    LET begin == {files[n].from \div SECTOR : n \in DOMAIN files}
        within(k) == \E b \in begin : b < k /\ k * SECTOR < b * SECTOR + LengthAt(b)
    IN  /\ begin = {k \in Marks : ~within(k)}
        /\ \A n \in DOMAIN files : files[n].len = LengthAt(files[n].from \div SECTOR)
        /\ \A n, m \in DOMAIN files : n[2] < m[2] => files[n].from + files[n].len <= files[m].from

(* No byte of an archive of whole sectors is looked for behind its end,    *)
(* nor copied from there, when the lengths in it are true.                 *)
StaysInside ==
  (Whole /\ input.size > 0) =>
    /\ pc = "measure" /\ remain > 0 => Inside(offset + size)
    /\ \A n \in DOMAIN files :
         (Searches => files[n].from + LengthAt(files[n].from \div SECTOR) <= input.size) =>
           files[n].from + files[n].len <= input.size

(* Where the program ends, whatever the archive.                           *)
Finished == pc \in {"exit", "crash"}
================================================================================
