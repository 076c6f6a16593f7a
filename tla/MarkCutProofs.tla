------------------------------ MODULE MarkCutProofs ------------------------------
(***************************************************************************)
(* What holds of the cutters without a table for every archive: a whole    *)
(* archive is cut at every mark and nowhere else, a tune that is looked    *)
(* for is found wherever it begins, and nothing is looked for or copied    *)
(* from behind the end.                                                    *)
(***************************************************************************)
EXTENDS MarkCut, FiniteSetTheorems, TLAPS

Kinds == {"BGM", "TON"}
N == Len(input.heads)

(* Where each kind of cutter may be, and what it has before it begins.     *)
Control ==
  /\ input \in Inputs
  /\ pc \in {"start", "head", "measure", "write", "exit", "crash"}
  /\ offset \in Nat /\ size \in Nat /\ remain \in Int /\ found \in Kinds
  /\ count \in [Kinds -> Nat] /\ IsFiniteSet(DOMAIN files)
  /\ \A n \in DOMAIN files : n[1] \in Kinds /\ n[2] \in Nat /\ n[2] < count[n[1]]
  /\ pc = "start" => offset = 0 /\ DOMAIN files = {} /\ ret = 0 /\ count = [k \in Kinds |-> 0]
  /\ Searches =>
       /\ pc # "measure" /\ found = "BGM" /\ \A n \in DOMAIN files : n[1] = "BGM"
       /\ pc \in {"head", "write"} => remain = input.size - offset * SECTOR
       /\ pc = "write" => offset \in Marks

(* How far a tune reaches is measured to the last sector and no further.   *)
Measured ==
  (~Searches /\ Whole /\ input.size > 0) =>
    /\ pc \in {"head", "measure", "write"} => offset < N
    /\ pc = "head" => remain = (N - offset) * SECTOR
    /\ pc \in {"measure", "write"} =>
         size >= 1 /\ offset + size <= N /\ remain = (N - offset - size) * SECTOR

FilesInside ==
  (Whole /\ input.size > 0) =>
    \A n \in DOMAIN files :
      /\ Searches => files[n].len = LengthAt(files[n].from \div SECTOR)
      /\ ~Searches => files[n].from + files[n].len <= input.size

(* The marks behind which the program is, and what they are numbered.      *)
Passed == {k \in Marks : k < offset}
NumberOf(k) == <<KindOf(k), Cardinality({m \in Marks : m < k /\ KindOf(m) = KindOf(k)})>>
TuneAt(k) == [from |-> k * SECTOR + Cutter.header, len |-> UpToNext(k) * SECTOR - Cutter.header]

(* A tune is begun at a mark and goes on to the next or to the end.        *)
CutAtMarks ==
  /\ pc \in {"start", "head", "measure", "write"} => offset \in Marks
  /\ pc \in {"measure", "write"} =>
       found = KindOf(offset) /\ \A k \in offset + 1 .. offset + size - 1 : k \notin Marks
  /\ pc = "write" => offset + size = N \/ offset + size \in Marks
  /\ (pc = "exit" /\ ret = 0) => offset = N

(* The marks passed are numbered, and each has its file.                   *)
CutWhatIsPassed ==
  /\ \A kind \in Kinds : count[kind] = Cardinality({m \in Passed : KindOf(m) = kind})
  /\ Cardinality(DOMAIN files) = Cardinality(Passed)
  /\ \A k \in Passed : NumberOf(k) \in DOMAIN files /\ files[NumberOf(k)] = TuneAt(k)

CutSoFar ==
  (~Searches /\ Whole /\ Marks # {} /\ Marked(0)) => CutAtMarks /\ CutWhatIsPassed

(* Where the tunes found so far begin, and the marks that are among their  *)
(* bytes.                                                                  *)
Begins == {files[n].from \div SECTOR : n \in DOMAIN files}
Within(k) == \E b \in Begins : b < k /\ k * SECTOR < b * SECTOR + LengthAt(b)

FoundAtMarks == Begins = {k \in Passed : ~Within(k)}

FoundWhole ==
  \A n \in DOMAIN files :
    /\ files[n].from = (files[n].from \div SECTOR) * SECTOR
    /\ files[n].len = LengthAt(files[n].from \div SECTOR)
    /\ files[n].from + files[n].len < offset * SECTOR

FoundInOrder ==
  \A n, m \in DOMAIN files : n[2] < m[2] => files[n].from + files[n].len <= files[m].from

FoundSoFar ==
  (Searches /\ \A k \in Marks : ~FillsItsSectors(k)) =>
    /\ (pc = "exit" /\ ret = 0) => offset * SECTOR >= input.size
    /\ FoundAtMarks /\ FoundWhole /\ FoundInOrder

IInv == Control /\ Measured /\ FilesInside /\ CutSoFar /\ FoundSoFar

-------------------------------------------------------------------------------
(* What the cutters are and what they may be run on. *)

LEMMA CutterIs ==
  ASSUME prog \in {"fray", "ds6", "toc", "wolfm", "arcusm"}
  PROVE  /\ Cutter.header \in {0, 16} /\ Searches \in BOOLEAN
         /\ Searches => Cutter.header = 0 /\ prog \in {"wolfm", "arcusm"}
         /\ ~Searches => prog \in {"fray", "ds6", "toc"}
         /\ Cutter.half <=> prog = "ds6"
         /\ Cutter.unsigned <=> prog = "toc"
<1>1. CASE prog = "fray"
  BY <1>1 DEF Cutter, Searches, Fray
<1>2. CASE prog = "ds6"
  BY <1>2 DEF Cutter, Searches, Ds6
<1>3. CASE prog = "toc"
  BY <1>3 DEF Cutter, Searches, Toc
<1>4. CASE prog = "wolfm"
  BY <1>4 DEF Cutter, Searches, Wolfm
<1>5. CASE prog = "arcusm"
  BY <1>5 DEF Cutter, Searches, Arcusm
<1>6. QED
  BY <1>1, <1>2, <1>3, <1>4, <1>5

LEMMA ArchiveIs ==
  ASSUME ArchivesAreRead, input \in Inputs
  PROVE  /\ prog \in {"fray", "ds6", "toc", "wolfm", "arcusm"}
         /\ input.size \in Nat /\ input.size < WORD /\ WORD \in Nat /\ N \in Nat
         /\ input.size <= N * SECTOR /\ (N - 1) * SECTOR < input.size
         /\ \A k \in 0 .. N - 1, n \in Nat \ {0} : Byte(k, n) \in 0 .. 255
         /\ \A k \in 0 .. N - 1 : LengthAt(k) \in Nat
<1>1. /\ prog \in {"fray", "ds6", "toc", "wolfm", "arcusm"}
      /\ input.size \in Nat /\ input.size < WORD /\ WORD \in Nat /\ input.heads \in Seq(Seq(0 .. 255))
      /\ input.size <= N * SECTOR /\ (N - 1) * SECTOR < input.size
  BY DEF ArchivesAreRead, prog, N
<1>2. N \in Nat
  BY <1>1 DEF N
<1>3. ASSUME NEW k \in 0 .. N - 1, NEW n \in Nat \ {0}
      PROVE  Byte(k, n) \in 0 .. 255
  <2>1. k + 1 \in 1 .. N
    BY <1>2
  <2>2. input.heads[k + 1] \in Seq(0 .. 255)
    BY <1>1, <2>1 DEF N
  <2>3. CASE n <= Len(input.heads[k + 1])
    <3>1. ASSUME NEW S, NEW h \in Seq(S), NEW m \in Nat \ {0}, m <= Len(h) PROVE h[m] \in S
      <4>1. m \in 1 .. Len(h)
        BY <3>1
      <4>2. QED
        BY <4>1
    <3>2. input.heads[k + 1][n] \in 0 .. 255
      BY <2>2, <2>3, <3>1
    <3>3. QED
      BY <2>3, <3>2 DEF Byte
  <2>4. CASE ~(n <= Len(input.heads[k + 1]))
    BY <2>4 DEF Byte
  <2>5. QED
    BY <2>3, <2>4
<1>4. ASSUME NEW k \in 0 .. N - 1 PROVE LengthAt(k) \in Nat
  <2>1. Byte(k, 3) \in 0 .. 255 /\ Byte(k, 4) \in 0 .. 255
    BY <1>3
  <2>2. \A x, y \in 0 .. 255 : x + 256 * y \in Nat
    OBVIOUS
  <2>3. QED
    BY <2>1, <2>2 DEF LengthAt
<1>5. QED
  BY <1>1, <1>2, <1>3, <1>4

(* Of a whole archive exactly the sectors it has are inside.               *)
LEMMA SectorsInside ==
  ASSUME ArchivesAreRead, input \in Inputs
  PROVE  /\ \A k \in Nat : Inside(k) <=> k < N
         /\ Whole => input.size = N * SECTOR
         /\ AllSectors = 0 .. N - 1 /\ Marks \in SUBSET (0 .. N - 1) /\ Marks \in SUBSET Nat
<1>1. /\ input.size \in Nat /\ N \in Nat
      /\ input.size <= N * SECTOR /\ (N - 1) * SECTOR < input.size
  BY ArchiveIs
<1> DEFINE s == input.size
<1> HIDE DEF s
<1>2. s \in Nat /\ N \in Nat /\ s <= N * 512 /\ (N - 1) * 512 < s
  BY <1>1 DEF SECTOR, s
<1>3. \A k \in Nat : k * 512 < s <=> k < N
  BY <1>2
<1>4. s % 512 = 0 => s = N * 512
  <2>1. SUFFICES ASSUME s % 512 = 0 PROVE s = N * 512
    OBVIOUS
  <2>2. s = (s \div 512) * 512
    BY <1>2, <2>1
  <2>3. s \div 512 <= N /\ N - 1 < s \div 512 /\ s \div 512 \in Nat
    BY <1>2, <2>2
  <2>4. s \div 512 = N
    BY <1>2, <2>3
  <2>5. QED
    BY <2>2, <2>4
<1>5. \A k \in Nat : Inside(k) <=> k < N
  BY <1>3 DEF Inside, SECTOR, s
<1>6. Whole => input.size = N * SECTOR
  BY <1>4 DEF Whole, SECTOR, s
<1>7. AllSectors = 0 .. N - 1 /\ Marks \in SUBSET (0 .. N - 1) /\ Marks \in SUBSET Nat
  BY <1>2 DEF AllSectors, Marks, N
<1>8. QED
  BY <1>5, <1>6, <1>7

LEMMA NextControl ==
  ASSUME ArchivesAreRead, Control, [Next]_vars
  PROVE  Control' /\ input' = input
<1>0. prog \in {"fray", "ds6", "toc", "wolfm", "arcusm"} /\ input.size \in Nat /\ WORD \in Nat
      /\ input.size < WORD /\ \A k \in 0 .. N - 1 : LengthAt(k) \in Nat
  BY ArchiveIs DEF Control
<1>1. input' = input
  BY DEF Next, vars, CannotOpen, Read, Begin, Measure, RunOff, Search, Write, WriteCrash
<1>2. prog' = prog /\ Searches' = Searches /\ Marks' = Marks
  BY <1>1 DEF prog, Searches, Cutter, Fray, Ds6, Toc, Wolfm, Arcusm, Marks, AllSectors, Marked, FrayMark,
              Ds6Mark, TocMark, WolfMark, ArcusMark, Letters, Byte
<1>3. Less(SECTOR) \in Int
  BY <1>0, CutterIs DEF Less, SECTOR, Control
<1> USE <1>1, <1>2 DEF Control
<1>4. CASE CannotOpen
  BY <1>4 DEF CannotOpen, measure
<1>5. CASE Read
  BY <1>0, <1>5 DEF Read, SECTOR
<1>6. CASE Begin
  <2>1. UNCHANGED <<input, offset, count, files, ret>> /\ pc = "head" /\ ~Searches
        /\ ((size' = 1 /\ remain' = Less(SECTOR) /\ found' = Kind /\ pc' = "measure")
            \/ (pc' = "exit" /\ UNCHANGED <<size, remain, found>>))
    BY <1>6 DEF Begin
  <2>2. Kind \in Kinds
    BY DEF Kind, Kinds
  <2>3. QED
    BY <1>3, <2>1, <2>2
<1>7. CASE Measure
  <2>1. UNCHANGED <<input, offset, found, count, files, ret>> 
        /\ pc = "measure" /\ pc' \in {"measure", "write"}
        /\ ((size' = size /\ remain' = remain) \/ (size' = size + 1 /\ remain' = Less(SECTOR)))
    BY <1>7 DEF Measure
  <2>2. QED
    BY <1>3, <2>1
<1>8. CASE RunOff \/ WriteCrash
  BY <1>8 DEF RunOff, WriteCrash, measure
<1>9. CASE Search
  <2>1. UNCHANGED <<input, size, found, count, files, ret>> 
        /\ pc = "head" /\ pc' \in {"head", "write", "exit"}
        /\ ((offset' = offset /\ remain' = remain) \/ (offset' = offset + 1 /\ remain' = remain - SECTOR))
    BY <1>9 DEF Search
  <2>2. (offset + 1) * SECTOR = offset * SECTOR + SECTOR /\ SECTOR \in Int
    BY DEF SECTOR
  <2>3. CASE offset' = offset + 1 /\ pc' = "head" /\ remain' = remain - SECTOR
    <3>1. Searches /\ remain = input.size - offset * SECTOR
      BY <1>9 DEF Search
    <3>2. remain' = input.size - offset' * SECTOR
      BY <1>0, <2>2, <2>3, <3>1 DEF SECTOR
    <3>3. offset' \in Nat /\ remain' \in Int
      BY <2>2, <2>3
    <3>4. QED
      BY <2>1, <2>3, <3>2, <3>3
  <2>4. CASE pc' = "exit" /\ offset' = offset /\ remain' = remain
    BY <2>1, <2>4
  <2>5. CASE pc' = "write" /\ offset' = offset /\ remain' = remain /\ ~(remain <= 0) /\ Marked(offset)
    <3>1. remain = input.size - offset * SECTOR
      BY <1>9 DEF Search
    <3>2. Inside(offset)
      BY <1>0, <2>5, <3>1 DEF Inside, SECTOR
    <3>3. offset \in Marks
      BY <2>5, <3>2, ArchiveIs, SectorsInside DEF Marks
    <3>4. QED
      BY <2>1, <2>5, <3>1, <3>3
  <2>6. QED
    BY <1>9, <2>3, <2>4, <2>5 DEF Search
<1>10. CASE Write
  <2> DEFINE new == <<found, count[found]>>
  <2>1. /\ DOMAIN files' = DOMAIN files \cup {new} /\ count' = Numbered /\ offset' = offset + Sectors
        /\ remain' = (IF Searches THEN remain - Sectors * SECTOR ELSE remain)
        /\ pc' \in {"head", "exit"} /\ pc = "write" /\ UNCHANGED <<input, size, found, ret>>
    BY <1>10 DEF Write
  <2>2. Sectors \in Nat
    <3>1. CASE Searches
      <4>1. offset \in 0 .. N - 1
        BY <2>1, <3>1, SectorsInside
      <4>2. fsize = LengthAt(offset)
        BY DEF fsize, LengthAt
      <4>3. fsize \in Nat
        BY <1>0, <4>1, <4>2
      <4>4. QED
        BY <3>1, <4>3 DEF Sectors, SECTOR
    <3>2. QED
      BY <3>1 DEF Sectors
  <2>3. offset' \in Nat /\ remain' \in Int /\ (Searches => remain' = input.size - offset' * SECTOR)
    BY <1>0, <2>1, <2>2 DEF SECTOR
  <2>4. count' \in [Kinds -> Nat] /\ count[found] \in Nat /\ count'[found] = count[found] + 1
        /\ \A k \in Kinds : count[k] <= count'[k]
    BY <2>1 DEF Numbered
  <2>5. IsFiniteSet(DOMAIN files')
    <3>1. IsFiniteSet(DOMAIN files)
      OBVIOUS
    <3>2. IsFiniteSet(DOMAIN files \cup {new})
      BY <3>1, FS_AddElement
    <3>3. QED
      BY <2>1, <3>2
  <2>6. ASSUME NEW n \in DOMAIN files'
        PROVE  n[1] \in Kinds /\ n[2] \in Nat /\ n[2] < count'[n[1]] /\ (Searches => n[1] = "BGM")
    <3>1. CASE n = new
      BY <2>4, <3>1
    <3>2. CASE n \in DOMAIN files
      <4>1. n[1] \in Kinds /\ n[2] \in Nat /\ n[2] < count[n[1]] /\ (Searches => n[1] = "BGM")
        BY <3>2
      <4>2. count[n[1]] \in Nat /\ count'[n[1]] \in Nat /\ count[n[1]] <= count'[n[1]]
        BY <2>4, <4>1
      <4>3. QED
        BY <4>1, <4>2
    <3>3. QED
      BY <2>1, <2>6, <3>1, <3>2
  <2>7. QED
    BY <2>1, <2>3, <2>4, <2>5, <2>6
<1>11. CASE UNCHANGED vars
  BY <1>11 DEF vars, measure
<1>12. QED
  BY <1>4, <1>5, <1>6, <1>7, <1>8, <1>9, <1>10, <1>11 DEF Next

(* The archive is only read.                                               *)
LEMMA ArchiveStays ==
  ASSUME input' = input
  PROVE  /\ prog' = prog /\ Cutter' = Cutter /\ Searches' = Searches /\ N' = N /\ Whole' = Whole
         /\ Marks' = Marks /\ Marked(0)' = Marked(0)
         /\ \A k : KindOf(k)' = KindOf(k) /\ LengthAt(k)' = LengthAt(k) /\ UpToNext(k)' = UpToNext(k)
<1>1. prog' = prog /\ Cutter' = Cutter /\ Searches' = Searches /\ N' = N /\ Whole' = Whole
  BY DEF prog, Searches, Cutter, Fray, Ds6, Toc, Wolfm, Arcusm, N, Whole
<1>2. \A k, n : Byte(k, n)' = Byte(k, n)
  BY DEF Byte
<1>3. \A k : Marked(k)' = Marked(k) /\ Letters(k)' = Letters(k) /\ LengthAt(k)' = LengthAt(k)
  BY <1>1, <1>2 DEF Marked, FrayMark, Ds6Mark, TocMark, WolfMark, ArcusMark, Letters, LengthAt
<1>4. Marks' = Marks
  BY <1>3 DEF Marks, AllSectors
<1>5. \A k : KindOf(k)' = KindOf(k) /\ UpToNext(k)' = UpToNext(k)
  BY <1>1, <1>3, <1>4 DEF KindOf, UpToNext
<1>6. QED
  BY <1>1, <1>3, <1>4, <1>5

(* As long as there is a sector left, the counter does not wrap.           *)
LEMMA LessIs ==
  ASSUME ArchivesAreRead, input \in Inputs, remain \in Int, SECTOR <= remain, remain <= input.size
  PROVE  Less(SECTOR) = remain - SECTOR
<1>1. WORD \in Nat /\ input.size \in Nat /\ input.size < WORD
  BY ArchiveIs
<1>2. remain - SECTOR \in 0 .. WORD - 1 /\ WORD > 0
  BY <1>1 DEF SECTOR
<1>3. (remain - SECTOR) % WORD = remain - SECTOR
  BY <1>1, <1>2
<1>4. QED
  BY <1>3 DEF Less

LEMMA NextMeasured ==
  ASSUME ArchivesAreRead, Control, Measured, [Next]_vars
  PROVE  Measured'
<1>0. input \in Inputs /\ input' = input /\ offset \in Nat /\ size \in Nat /\ remain \in Int
      /\ input.size \in Nat /\ N \in Nat
  BY NextControl, ArchiveIs DEF Control
<1>1. SUFFICES ASSUME ~Searches, Whole, input.size > 0
               PROVE  /\ pc' \in {"head", "measure", "write"} => offset' < N
                      /\ pc' = "head" => remain' = (N - offset') * SECTOR
                      /\ pc' \in {"measure", "write"} =>
                           size' >= 1 /\ offset' + size' <= N /\ remain' = (N - offset' - size') * SECTOR
  BY <1>0, ArchiveStays DEF Measured
<1>2. input.size = N * SECTOR /\ N > 0
  BY <1>0, <1>1, SectorsInside DEF SECTOR
<1>3. \A k \in Nat : Inside(k) <=> k < N
  BY <1>0, SectorsInside
<1>4. CASE Read
  <2>1. offset' = 0 /\ pc' = "head" /\ remain' = N * SECTOR
    BY <1>2, <1>4 DEF Read, Control
  <2>2. QED
    BY <1>0, <1>2, <2>1 DEF SECTOR
<1>5. CASE Begin
  <2>1. offset < N /\ remain = (N - offset) * SECTOR
    BY <1>1, <1>5 DEF Begin, Measured
  <2>2. remain <= input.size /\ SECTOR <= remain
    BY <1>0, <1>2, <2>1 DEF SECTOR
  <2>3. Less(SECTOR) = remain - SECTOR
    BY <1>0, <2>2, LessIs
  <2>4. remain - SECTOR = (N - offset - 1) * SECTOR
    BY <1>0, <2>1 DEF SECTOR
  <2>5. offset' = offset /\ ((pc' = "measure" /\ size' = 1 /\ remain' = Less(SECTOR)) \/ pc' = "exit")
    BY <1>5 DEF Begin
  <2>6. QED
    BY <1>0, <2>1, <2>3, <2>4, <2>5
<1>6. CASE Measure
  <2>1. offset < N /\ size >= 1 /\ offset + size <= N /\ remain = (N - offset - size) * SECTOR
    BY <1>1, <1>6 DEF Measure, Measured
  <2>2. CASE pc' = "write" /\ offset' = offset /\ size' = size /\ remain' = remain
    BY <2>1, <2>2
  <2>3. CASE ~(remain <= 0) /\ pc' = "measure"
             /\ offset' = offset /\ size' = size + 1 /\ remain' = Less(SECTOR)
    <3>1. offset + size < N
      BY <1>0, <2>1, <2>3 DEF SECTOR
    <3>2. remain <= input.size /\ SECTOR <= remain
      BY <1>0, <1>2, <2>1, <3>1 DEF SECTOR
    <3>3. Less(SECTOR) = remain - SECTOR
      BY <1>0, <3>2, LessIs
    <3>4. remain - SECTOR = (N - offset - (size + 1)) * SECTOR
      BY <1>0, <2>1 DEF SECTOR
    <3>5. QED
      BY <1>0, <2>1, <2>3, <3>1, <3>3, <3>4
  <2>4. QED
    BY <1>6, <2>2, <2>3 DEF Measure
<1>7. CASE Write
  <2>1. remain = (N - offset - size) * SECTOR /\ offset + size <= N
    BY <1>1, <1>7 DEF Write, Measured
  <2>2. /\ offset' = offset + size /\ remain' = remain
        /\ pc' = IF offset' * SECTOR < input.size THEN "head" ELSE "exit"
    BY <1>1, <1>7 DEF Write, Sectors
  <2>3. offset' * SECTOR < input.size => offset' < N
    BY <1>0, <1>2, <2>2 DEF SECTOR
  <2>4. (N - offset - size) = N - offset'
    BY <1>0, <2>2
  <2>5. QED
    BY <2>1, <2>2, <2>3, <2>4
<1>8. CASE CannotOpen \/ RunOff \/ WriteCrash
  BY <1>8 DEF CannotOpen, RunOff, WriteCrash
<1>9. CASE UNCHANGED vars
  BY <1>1, <1>9 DEF vars, measure, Measured
<1>10. ~Search
  BY <1>1 DEF Search
<1>11. QED
  BY <1>4, <1>5, <1>6, <1>7, <1>8, <1>9, <1>10 DEF Next

LEMMA NextFilesInside ==
  ASSUME ArchivesAreRead, Control, Measured, FilesInside, [Next]_vars
  PROVE  FilesInside'
<1>0. /\ input \in Inputs /\ input' = input /\ offset \in Nat /\ size \in Nat /\ N \in Nat
      /\ prog \in {"fray", "ds6", "toc", "wolfm", "arcusm"} /\ \A k \in 0 .. N - 1 : LengthAt(k) \in Nat
  BY NextControl, ArchiveIs DEF Control
<1>1. SUFFICES ASSUME Whole, input.size > 0, NEW n \in DOMAIN files'
               PROVE  /\ Searches => files'[n].len = LengthAt(files'[n].from \div SECTOR)
                      /\ ~Searches => files'[n].from + files'[n].len <= input.size
  <2>1. /\ Searches' = Searches /\ Whole' = Whole /\ input' = input
        /\ \A k : LengthAt(k)' = LengthAt(k)
    BY <1>0, ArchiveStays
  <2>2. \A n \in DOMAIN files' : LengthAt(files[n].from \div SECTOR)' = LengthAt(files'[n].from \div SECTOR)
    BY <1>0 DEF LengthAt, Byte, SECTOR
  <2>3. QED
    BY <2>1, <2>2 DEF FilesInside
<1>2. CASE Write
  <2> DEFINE new == <<found, count[found]>>
  <2>1. DOMAIN files' = DOMAIN files \cup {new}
        /\ \A m \in DOMAIN files' : files'[m] = IF m = new THEN Copied ELSE files[m]
    BY <1>2 DEF Write
  <2>2. CASE n # new
    BY <1>1, <2>1, <2>2 DEF FilesInside
  <2>3. CASE n = new
    <3>1. files'[n] = Copied
      BY <2>1, <2>3
    <3>2. CASE Searches
      <4>1. Copied.from = offset * SECTOR /\ Copied.len = fsize
        BY <1>0, <3>2, CutterIs DEF Copied, SECTOR
      <4>2. Copied.from \div SECTOR = offset
        BY <1>0, <4>1 DEF SECTOR
      <4>3. QED
        BY <3>1, <3>2, <4>1, <4>2 DEF fsize, LengthAt
    <3>3. CASE ~Searches
      <4>1. Copied.from = offset * SECTOR + Cutter.header /\ Copied.len = size * SECTOR - Cutter.header
        BY <3>3 DEF Copied
      <4>2. offset + size <= N /\ input.size = N * SECTOR
        BY <1>0, <1>1, <1>2, <3>3, SectorsInside DEF Measured, Write
      <4>3. Cutter.header \in Int
        BY <1>0, CutterIs
      <4>4. Copied.from + Copied.len <= input.size
        BY <1>0, <4>1, <4>2, <4>3 DEF SECTOR
      <4>5. QED
        BY <3>1, <3>3, <4>4
    <3>4. QED
      BY <3>2, <3>3
  <2>4. QED
    BY <2>2, <2>3
<1>3. CASE ~Write
  <2>1. files' = files
    BY <1>3 DEF Next, vars, CannotOpen, Read, Begin, Measure, RunOff, Search, WriteCrash
  <2>2. QED
    BY <1>1, <2>1 DEF FilesInside
<1>4. QED
  BY <1>2, <1>3

LEMMA UpToNextIs ==
  ASSUME Marks \in SUBSET (0 .. N - 1), N \in Nat, NEW k \in Nat, NEW s \in Nat, s >= 1, k + s <= N,
         k + s = N \/ k + s \in Marks, \A m \in k + 1 .. k + s - 1 : m \notin Marks
  PROVE  UpToNext(k) = s
<1> DEFINE later == {m \in Marks : m > k} \cup {N}
<1>1. k + s \in later
  OBVIOUS
<1>2. ASSUME NEW m \in later PROVE m \in Nat /\ k + s <= m
  <2>1. m \in Nat /\ m > k
    OBVIOUS
  <2>2. m \in Marks \/ m = N
    OBVIOUS
  <2>3. m \in Marks => m \notin k + 1 .. k + s - 1
    OBVIOUS
  <2>4. QED
    BY <2>1, <2>2, <2>3
<1>3. \A m \in later : (\A n \in later : m <= n) => m = k + s
  BY <1>1, <1>2
<1> DEFINE first == CHOOSE m \in later : \A n \in later : m <= n
<1>4. first = k + s
  BY <1>1, <1>2, <1>3
<1>5. UpToNext(k) = first - k
  BY DEF UpToNext, N
<1> HIDE DEF first
<1>6. QED
  BY <1>4, <1>5

(* What is passed when a tune is written is the mark it begins at.         *)
LEMMA PassesOneMark ==
  ASSUME NEW next \in Nat, offset \in Marks, offset < next, Marks \in SUBSET Nat,
         \A k \in offset + 1 .. next - 1 : k \notin Marks
  PROVE  {k \in Marks : k < next} = Passed \cup {offset}
<1>1. ASSUME NEW k \in Marks PROVE k < next <=> k < offset \/ k = offset
  <2>1. k \in Nat /\ offset \in Nat /\ k \notin offset + 1 .. next - 1
    OBVIOUS
  <2>2. QED
    BY <2>1
<1>2. QED
  BY <1>1 DEF Passed

LEMMA NextCutAtMarks ==
  ASSUME ArchivesAreRead, Control, Measured, CutAtMarks, [Next]_vars, ~Searches, Whole, Marks # {}
  PROVE  CutAtMarks'
<1>0. /\ input \in Inputs /\ input' = input /\ offset \in Nat /\ size \in Nat /\ remain \in Int
      /\ input.size \in Nat /\ N \in Nat /\ prog \in {"fray", "ds6", "toc", "wolfm", "arcusm"}
  BY NextControl, ArchiveIs DEF Control
<1>1. /\ Marks' = Marks /\ N' = N /\ \A k : KindOf(k)' = KindOf(k)
      /\ Marks \in SUBSET (0 .. N - 1) /\ Marks \in SUBSET Nat
      /\ N > 0 /\ \A k \in Nat : Inside(k) <=> k < N
  BY <1>0, ArchiveStays, SectorsInside
<1>2. input.size = N * SECTOR /\ input.size > 0
  BY <1>0, <1>1, SectorsInside DEF SECTOR
<1>3. KindOf(offset)' = KindOf(offset')
  BY <1>0 DEF KindOf, prog, Letters, Byte
<1>4. CASE Read
  BY <1>1, <1>3, <1>4 DEF Read, CutAtMarks, Control
<1>5. CASE Begin
  <2>1. offset \in Marks /\ Inside(offset) /\ Marked(offset)
    BY <1>0, <1>1, <1>5 DEF Begin, CutAtMarks, Marks
  <2>2. Accepted = {TRUE}
    <3>1. CASE prog = "ds6"
      <4>1. Byte(offset, 1) = \h20
        BY <2>1, <3>1 DEF Marked, Ds6Mark
      <4>2. QED
        BY <2>1, <4>1 DEF Accepted
    <3>2. CASE prog # "ds6"
      BY <1>0, <2>1, <3>2, CutterIs DEF Accepted
    <3>3. QED
      BY <3>1, <3>2
  <2>3. pc' = "measure" /\ size' = 1 /\ found' = Kind /\ offset' = offset
    BY <1>5, <2>2 DEF Begin
  <2>4. Kind = KindOf(offset)
    BY <2>1 DEF Kind, KindOf
  <2>5. QED
    BY <1>0, <1>1, <1>3, <2>1, <2>3, <2>4 DEF CutAtMarks
<1>6. CASE Measure
  <2>1. /\ offset + size <= N /\ remain = (N - offset - size) * SECTOR /\ offset \in Marks /\ size >= 1
        /\ found = KindOf(offset) /\ \A k \in offset + 1 .. offset + size - 1 : k \notin Marks
    BY <1>1, <1>2, <1>6 DEF Measure, Measured, CutAtMarks
  <2>2. offset' = offset /\ found' = found
    BY <1>6 DEF Measure
  <2>3. CASE remain <= 0
    <3>1. offset + size = N
      BY <1>0, <2>1, <2>3 DEF SECTOR
    <3>2. pc' = "write" /\ size' = size
      BY <1>6, <2>3 DEF Measure
    <3>3. QED
      BY <1>1, <1>3, <2>1, <2>2, <3>1, <3>2 DEF CutAtMarks
  <2>4. CASE ~(remain <= 0)
    <3>1. offset + size < N
      BY <1>0, <2>1, <2>4 DEF SECTOR
    <3>2. \A yes \in Seen(offset + size) : yes <=> offset + size \in Marks
      <4>1. Seen(offset + size) = {Marked(offset + size)}
        BY <1>0, <1>1, <3>1 DEF Seen
      <4>2. offset + size \in AllSectors
        BY <1>0, <3>1, SectorsInside
      <4>3. QED
        BY <4>1, <4>2 DEF Marks
    <3>3. CASE offset + size \in Marks
      <4>1. pc' = "write" /\ size' = size
        BY <1>6, <2>4, <3>2, <3>3 DEF Measure
      <4>2. QED
        BY <1>1, <1>3, <2>1, <2>2, <3>3, <4>1 DEF CutAtMarks
    <3>4. CASE offset + size \notin Marks
      <4>1. pc' = "measure" /\ size' = size + 1
        BY <1>6, <2>4, <3>2, <3>4 DEF Measure
      <4>2. \A k \in offset + 1 .. offset' + size' - 1 : k \notin Marks
        <5>1. SUFFICES ASSUME NEW k \in offset + 1 .. offset + size PROVE k \notin Marks
          BY <1>0, <2>2, <4>1
        <5>2. k = offset + size \/ k \in offset + 1 .. offset + size - 1
          BY <1>0
        <5>3. QED
          BY <2>1, <3>4, <5>2
      <4>3. QED
        BY <1>1, <1>3, <2>1, <2>2, <4>1, <4>2 DEF CutAtMarks
    <3>5. QED
      BY <3>3, <3>4
  <2>5. QED
    BY <2>3, <2>4
<1>7. CASE Write
  <2>1. offset' = offset + size /\ offset + size <= N /\ (offset + size = N \/ offset + size \in Marks)
    BY <1>2, <1>7 DEF Write, Sectors, Measured, CutAtMarks
  <2>2. offset' * SECTOR < input.size <=> offset' < N
    BY <1>0, <1>2, <2>1 DEF SECTOR
  <2>3. (pc' = "head" /\ offset' < N) \/ (pc' = "exit" /\ offset' = N)
    BY <1>0, <1>7, <2>1, <2>2 DEF Write
  <2>4. QED
    BY <1>0, <1>1, <2>1, <2>3 DEF CutAtMarks
<1>8. CASE CannotOpen \/ RunOff \/ WriteCrash
  BY <1>1, <1>8 DEF CannotOpen, RunOff, WriteCrash, CutAtMarks
<1>9. CASE UNCHANGED vars
  BY <1>1, <1>3, <1>9 DEF vars, measure, CutAtMarks
<1>10. ~Search
  BY DEF Search
<1>11. QED
  BY <1>4, <1>5, <1>6, <1>7, <1>8, <1>9, <1>10 DEF Next

LEMMA NextCutWhatIsPassed ==
  ASSUME ArchivesAreRead, Control, Measured, CutAtMarks, CutWhatIsPassed, [Next]_vars, ~Searches, Whole,
         Marks # {}
  PROVE  CutWhatIsPassed'
<1>0. /\ input \in Inputs /\ input' = input /\ offset \in Nat /\ size \in Nat
      /\ input.size \in Nat /\ N \in Nat /\ found \in Kinds /\ count \in [Kinds -> Nat] /\ IsFiniteSet(DOMAIN files)
  BY NextControl, ArchiveIs DEF Control
<1>1. /\ Marks' = Marks
      /\ \A k : KindOf(k)' = KindOf(k) /\ TuneAt(k)' = TuneAt(k) /\ NumberOf(k)' = NumberOf(k)
      /\ Marks \in SUBSET (0 .. N - 1) /\ Marks \in SUBSET Nat /\ N > 0
  <2>1. /\ Marks' = Marks /\ Cutter' = Cutter /\ \A k : KindOf(k)' = KindOf(k) /\ UpToNext(k)' = UpToNext(k)
    BY <1>0, ArchiveStays
  <2>2. \A k : TuneAt(k)' = TuneAt(k)
    BY <2>1 DEF TuneAt, SECTOR
  <2>3. \A k : NumberOf(k)' = NumberOf(k)
    BY <2>1 DEF NumberOf
  <2>4. QED
    BY <1>0, <2>1, <2>2, <2>3, SectorsInside
<1>2. CASE Write
  <2> DEFINE new == <<found, count[found]>>
             OfKind(kind) == {m \in Passed : KindOf(m) = kind}
  <2>1. /\ DOMAIN files' = DOMAIN files \cup {new} /\ count' = [count EXCEPT ![found] = @ + 1]
        /\ \A n \in DOMAIN files' : files'[n] = IF n = new THEN Copied ELSE files[n]
        /\ offset' = offset + size
    BY <1>2 DEF Write, Sectors, Numbered
  <2>2. /\ size >= 1 /\ offset + size <= N /\ offset \in Marks /\ found = KindOf(offset)
        /\ \A k \in offset + 1 .. offset + size - 1 : k \notin Marks
        /\ offset + size = N \/ offset + size \in Marks
    <3>1. input.size > 0
      BY <1>0, <1>1, SectorsInside DEF SECTOR
    <3>2. QED
      BY <1>2, <3>1 DEF Write, Measured, CutAtMarks
  <2>3. Passed' = Passed \cup {offset} /\ offset \notin Passed
    BY <1>0, <1>1, <2>1, <2>2, PassesOneMark DEF Passed
  <2>4. IsFiniteSet(Passed) /\ \A kind \in Kinds : IsFiniteSet(OfKind(kind))
    <3>1. IsFiniteSet(0 .. N - 1)
      BY <1>0, FS_Interval
    <3>2. Passed \in SUBSET (0 .. N - 1) /\ \A kind \in Kinds : OfKind(kind) \in SUBSET (0 .. N - 1)
      BY <1>1 DEF Passed
    <3>3. QED
      BY <3>1, <3>2, FS_Subset
  <2>5. Cardinality(Passed') = Cardinality(Passed) + 1
    BY <2>3, <2>4, FS_AddElement
  <2>6. NumberOf(offset) = new
    BY <1>0, <2>2 DEF NumberOf, Passed, CutWhatIsPassed
  <2>7. new \notin DOMAIN files
    BY <1>0 DEF Control
  <2>8. Cardinality(DOMAIN files') = Cardinality(Passed')
    BY <1>0, <2>1, <2>5, <2>7, FS_AddElement DEF CutWhatIsPassed
  <2>9. ASSUME NEW kind \in Kinds
        PROVE  count'[kind] = Cardinality({m \in Passed' : KindOf(m) = kind})
    <3>1. CASE kind = found
      <4>1. {m \in Passed' : KindOf(m) = kind} = OfKind(kind) \cup {offset} /\ offset \notin OfKind(kind)
        BY <2>2, <2>3, <3>1
      <4>2. Cardinality({m \in Passed' : KindOf(m) = kind}) = Cardinality(OfKind(kind)) + 1
        BY <2>4, <4>1, FS_AddElement
      <4>3. count'[kind] = count[kind] + 1 /\ count[kind] = Cardinality(OfKind(kind))
        BY <1>0, <2>1, <3>1 DEF CutWhatIsPassed
      <4>4. QED
        BY <4>2, <4>3
    <3>2. CASE kind # found
      <4>1. {m \in Passed' : KindOf(m) = kind} = OfKind(kind)
        BY <2>2, <2>3, <3>2
      <4>2. count'[kind] = count[kind] /\ count[kind] = Cardinality(OfKind(kind))
        BY <1>0, <2>1, <3>2 DEF CutWhatIsPassed
      <4>3. QED
        BY <4>1, <4>2
    <3>3. QED
      BY <3>1, <3>2
  <2>10. Copied = TuneAt(offset)
    <3>1. UpToNext(offset) = size
      BY <1>0, <1>1, <2>2, UpToNextIs
    <3>2. QED
      BY <3>1 DEF Copied, TuneAt
  <2>11. ASSUME NEW k \in Passed'
         PROVE  NumberOf(k) \in DOMAIN files' /\ files'[NumberOf(k)] = TuneAt(k)
    <3>1. CASE k = offset
      BY <2>1, <2>6, <2>10, <3>1
    <3>2. CASE k \in Passed
      BY <2>1, <2>7, <3>2 DEF CutWhatIsPassed
    <3>3. QED
      BY <2>3, <3>1, <3>2
  <2>12. \A k \in Passed' : NumberOf(k)' = NumberOf(k) /\ TuneAt(k)' = TuneAt(k)
    BY <1>1
  <2>13. QED
    BY <1>1, <2>8, <2>9, <2>11, <2>12 DEF CutWhatIsPassed
<1>3. CASE ~Write
  <2>1. files' = files /\ count' = count /\ offset' = offset
    BY <1>3 DEF Next, vars, measure, CannotOpen, Read, Begin, Measure, RunOff, Search, WriteCrash
  <2>2. Passed' = Passed
    BY <1>1, <2>1 DEF Passed
  <2>3. QED
    BY <1>1, <2>1, <2>2 DEF CutWhatIsPassed
<1>4. QED
  BY <1>2, <1>3

LEMMA NextCutSoFar ==
  ASSUME ArchivesAreRead, Control, Measured, CutSoFar, [Next]_vars
  PROVE  CutSoFar'
<1>1. /\ Searches' = Searches /\ Whole' = Whole /\ Marks' = Marks /\ Marked(0)' = Marked(0)
  BY NextControl, ArchiveStays
<1>2. SUFFICES ASSUME ~Searches, Whole, Marks # {}, Marked(0) PROVE CutAtMarks' /\ CutWhatIsPassed'
  BY <1>1 DEF CutSoFar
<1>3. QED
  BY <1>2, NextCutAtMarks, NextCutWhatIsPassed DEF CutSoFar

(* A file that begins at a mark, begins at a whole sector of the archive.  *)
LEMMA FoundTypes ==
  ASSUME ArchivesAreRead, Control, FoundAtMarks, FoundWhole
  PROVE  \A n \in DOMAIN files :
           LET b == files[n].from \div SECTOR
           IN  b \in Begins /\ b \in Passed /\ b \in Nat /\ LengthAt(b) \in Nat /\ files[n].from = b * SECTOR
<1>1. SUFFICES ASSUME NEW n \in DOMAIN files, NEW b, b = files[n].from \div SECTOR
               PROVE  b \in Begins /\ b \in Passed /\ b \in Nat /\ LengthAt(b) \in Nat /\ files[n].from = b * SECTOR
  OBVIOUS
<1>2. b \in Begins
  BY <1>1 DEF Begins
<1>3. b \in Passed /\ b \in Marks
  BY <1>2 DEF FoundAtMarks, Passed
<1>4. b \in 0 .. N - 1 /\ b \in Nat
  BY <1>3, SectorsInside DEF Control
<1>5. QED
  BY <1>1, <1>2, <1>3, <1>4, ArchiveIs DEF FoundWhole, Control

(* What a searching cutter writes: the tune behind the mark, and on to the *)
(* sector behind it.                                                       *)
LEMMA WritesTheTune ==
  ASSUME ArchivesAreRead, Control, Write, Searches
  PROVE  LET new == <<found, count[found]>>
             len == LengthAt(offset)
         IN  /\ new \notin DOMAIN files /\ DOMAIN files' = DOMAIN files \cup {new}
             /\ \A n \in DOMAIN files : files'[n] = files[n] /\ n[2] < new[2] /\ n[2] \in Nat
             /\ new[2] \in Nat
             /\ files'[new].from = offset * SECTOR /\ files'[new].len = len
             /\ offset' = offset + len \div SECTOR + 1 /\ len \in Nat /\ offset \in Marks /\ offset \in Nat
<1> DEFINE new == <<found, count[found]>>
<1>1. /\ input \in Inputs /\ offset \in Marks /\ offset \in Nat /\ found = "BGM" /\ count \in [Kinds -> Nat]
      /\ \A n \in DOMAIN files : n[1] = "BGM" /\ n[2] \in Nat /\ n[2] < count[n[1]]
  BY DEF Control, Write
<1>2. LengthAt(offset) \in Nat /\ prog \in {"fray", "ds6", "toc", "wolfm", "arcusm"}
  BY <1>1, ArchiveIs, SectorsInside
<1>3. Copied.from = offset * SECTOR /\ Copied.len = LengthAt(offset)
  BY <1>1, <1>2, CutterIs DEF Copied, fsize, LengthAt, SECTOR
<1>4. /\ DOMAIN files' = DOMAIN files \cup {new}
      /\ \A n \in DOMAIN files' : files'[n] = IF n = new THEN Copied ELSE files[n]
      /\ offset' = offset + Sectors
  BY DEF Write
<1>5. Sectors = LengthAt(offset) \div SECTOR + 1
  BY DEF Sectors, fsize, LengthAt
<1>6. offset' = offset + LengthAt(offset) \div SECTOR + 1
  BY <1>1, <1>2, <1>4, <1>5 DEF SECTOR
<1>7. new \notin DOMAIN files /\ new[2] \in Nat /\ \A n \in DOMAIN files : n[2] < new[2]
  BY <1>1 DEF Kinds
<1>8. QED
  BY <1>1, <1>2, <1>3, <1>4, <1>6, <1>7

(* A tune is shorter than the sectors behind it, and reaches into the last *)
(* of them unless it fills those before it.                                *)
LEMMA ReachesTheLast ==
  ASSUME NEW b \in Nat, NEW len \in Nat
  PROVE  /\ b * SECTOR + len < (b + len \div SECTOR + 1) * SECTOR
         /\ \A k \in Nat : len % SECTOR # 0 /\ k <= b + len \div SECTOR => k * SECTOR < b * SECTOR + len
<1>1. /\ len = (len \div SECTOR) * SECTOR + (len % SECTOR)
      /\ len % SECTOR \in 0 .. SECTOR - 1 /\ len \div SECTOR \in Nat
  BY DEF SECTOR
<1> DEFINE d == len \div SECTOR
           r == len % SECTOR
<1> HIDE DEF d, r
<1>2. d \in Nat /\ r \in 0 .. SECTOR - 1 /\ len = d * SECTOR + r
  BY <1>1 DEF d, r
<1>3. b * SECTOR + len < (b + d + 1) * SECTOR
  BY <1>2 DEF SECTOR
<1>4. \A k \in Nat : r # 0 /\ k <= b + d => k * SECTOR < b * SECTOR + len
  BY <1>2 DEF SECTOR
<1>5. QED
  BY <1>3, <1>4 DEF d, r

LEMMA WriteFinds ==
  ASSUME ArchivesAreRead, Control, FoundAtMarks, FoundWhole, FoundInOrder, Write, Searches,
         \A k \in Marks : ~FillsItsSectors(k)
  PROVE  FoundAtMarks' /\ FoundWhole' /\ FoundInOrder'
<1> DEFINE new == <<found, count[found]>>
           len == LengthAt(offset)
<1>1. /\ new \notin DOMAIN files /\ DOMAIN files' = DOMAIN files \cup {new}
      /\ \A n \in DOMAIN files : files'[n] = files[n] /\ n[2] < new[2] /\ n[2] \in Nat
      /\ new[2] \in Nat
      /\ files'[new].from = offset * SECTOR /\ files'[new].len = len
      /\ offset' = offset + len \div SECTOR + 1 /\ len \in Nat /\ offset \in Marks /\ offset \in Nat
  BY WritesTheTune
<1>2. /\ input' = input /\ Marks' = Marks /\ Marks \in SUBSET Nat /\ \A k \in Marks : LengthAt(k) \in Nat
      /\ \A k : LengthAt(k)' = LengthAt(k)
  <2>1. input \in Inputs /\ input' = input
    BY DEF Control, Write
  <2>2. QED
    BY <2>1, ArchiveIs, ArchiveStays, SectorsInside
<1>3. /\ offset * SECTOR + len < offset' * SECTOR /\ offset < offset' /\ offset' \in Nat
      /\ \A k \in Nat : k < offset' => k * SECTOR < offset * SECTOR + len
  <2>1. len \div SECTOR \in Nat
    BY <1>1 DEF SECTOR
  <2>2. len % SECTOR # 0
    BY <1>1 DEF FillsItsSectors
  <2>3. offset' = offset + len \div SECTOR + 1
    BY <1>1
  <2>4. \A k \in Nat : k < offset' => k <= offset + len \div SECTOR
    BY <1>1, <2>1, <2>3
  <2>5. \A k \in Nat : k < offset' => k * SECTOR < offset * SECTOR + len
    BY <1>1, <2>2, <2>4, ReachesTheLast
  <2>6. offset * SECTOR + len < offset' * SECTOR
    BY <1>1, <2>3, ReachesTheLast
  <2>7. offset < offset' /\ offset' \in Nat
    BY <1>1, <2>1, <2>3
  <2>8. QED
    BY <2>5, <2>6, <2>7
<1>4. (offset * SECTOR) \div SECTOR = offset
  BY <1>1 DEF SECTOR
<1>5. ASSUME NEW n \in DOMAIN files
      PROVE  /\ files[n].from \div SECTOR \in Passed /\ files[n].from \in Nat /\ files[n].len \in Nat
             /\ files[n].from + files[n].len < offset * SECTOR
             /\ files[n].from = (files[n].from \div SECTOR) * SECTOR
             /\ files[n].len = LengthAt(files[n].from \div SECTOR)
  BY <1>5, FoundTypes DEF FoundWhole, SECTOR
<1> HIDE DEF new, len
<1>6. FoundWhole'
  <2>1. ASSUME NEW n \in DOMAIN files'
        PROVE  /\ files'[n].from = (files'[n].from \div SECTOR) * SECTOR
               /\ files'[n].len = LengthAt(files'[n].from \div SECTOR)
               /\ files'[n].from + files'[n].len < offset' * SECTOR
    <3>1. CASE n = new
      BY <1>1, <1>3, <1>4, <3>1 DEF len
    <3>2. CASE n \in DOMAIN files
      BY <1>1, <1>3, <1>5, <3>2 DEF SECTOR
    <3>3. QED
      BY <1>1, <2>1, <3>1, <3>2
  <2>2. \A n \in DOMAIN files' : LengthAt(files[n].from \div SECTOR)' = LengthAt(files'[n].from \div SECTOR)
    BY <1>2 DEF LengthAt, Byte, SECTOR
  <2>3. QED
    BY <2>1, <2>2 DEF FoundWhole
<1>7. FoundInOrder'
  <2>1. ASSUME NEW n \in DOMAIN files', NEW m \in DOMAIN files', n[2] < m[2]
        PROVE  files'[n].from + files'[n].len <= files'[m].from
    <3>1. CASE n \in DOMAIN files /\ m \in DOMAIN files
      BY <1>1, <2>1, <3>1 DEF FoundInOrder
    <3>2. CASE n \in DOMAIN files /\ m = new
      <4>1. files[n].from + files[n].len < offset * SECTOR /\ files[n].from \in Nat /\ files[n].len \in Nat
        BY <1>5, <3>2
      <4>2. files'[n] = files[n] /\ files'[m].from = offset * SECTOR
        BY <1>1, <3>2
      <4>3. QED
        BY <1>1, <4>1, <4>2 DEF SECTOR
    <3>3. n # new
      <4>1. new[2] \in Nat /\ (m = new \/ (m \in DOMAIN files /\ m[2] < new[2] /\ m[2] \in Nat))
        BY <1>1, <2>1
      <4>2. QED
        BY <2>1, <4>1
    <3>4. QED
      BY <1>1, <2>1, <3>1, <3>2, <3>3
  <2>2. QED
    BY <2>1 DEF FoundInOrder
<1>8. FoundAtMarks'
  <2>1. Begins' = Begins \cup {offset}
    BY <1>1, <1>4 DEF Begins
  <2>2. /\ \A k \in Begins : k \in Nat /\ k < offset /\ LengthAt(k) \in Nat
        /\ \A k \in Begins : k * SECTOR + LengthAt(k) < offset * SECTOR
    <3>1. SUFFICES ASSUME NEW n \in DOMAIN files, NEW b, b = files[n].from \div SECTOR
                   PROVE  /\ b \in Nat /\ b < offset /\ LengthAt(b) \in Nat
                          /\ b * SECTOR + LengthAt(b) < offset * SECTOR
      BY DEF Begins
    <3>2. b \in Passed /\ b * SECTOR + LengthAt(b) < offset * SECTOR
      BY <1>5, <3>1
    <3>3. QED
      BY <1>2, <3>2 DEF Passed
  <2>3. ASSUME NEW k \in Marks
        PROVE  (k \in Passed' /\ ~Within(k)') <=> (k \in Passed /\ ~Within(k)) \/ k = offset
    <3>1. Within(k)' <=> Within(k) \/ (offset < k /\ k * SECTOR < offset * SECTOR + len)
      BY <1>2, <2>1 DEF Within, SECTOR, len
    <3>2. k \in Nat /\ (k \in Passed' <=> k < offset') /\ (k \in Passed <=> k < offset)
      BY <1>2 DEF Passed
    <3>3. CASE k < offset
      BY <1>1, <1>3, <3>1, <3>2, <3>3
    <3>4. CASE k = offset
      <4>1. ~Within(offset)
        BY <1>1, <2>2 DEF Within, SECTOR
      <4>2. QED
        BY <1>1, <1>3, <3>1, <3>2, <3>4, <4>1
    <3>5. CASE k > offset
      BY <1>1, <1>3, <3>1, <3>2, <3>5
    <3>6. QED
      BY <1>1, <3>2, <3>3, <3>4, <3>5
  <2>4. Passed' \in SUBSET Marks /\ Passed \in SUBSET Marks
    BY <1>2 DEF Passed
  <2>5. {k \in Passed : ~Within(k)} \cup {offset} = {k \in Passed' : ~Within(k)'}
    BY <1>1, <2>3, <2>4
  <2>6. QED
    BY <2>1, <2>5 DEF FoundAtMarks
<1>9. QED
  BY <1>6, <1>7, <1>8

LEMMA NextFoundSoFar ==
  ASSUME ArchivesAreRead, Control, FoundSoFar, [Next]_vars
  PROVE  FoundSoFar'
<1>0. /\ input \in Inputs /\ input' = input /\ offset \in Nat /\ input.size \in Nat /\ N \in Nat
  BY NextControl, ArchiveIs DEF Control
<1>1. /\ Searches' = Searches /\ Marks' = Marks /\ Marks \in SUBSET Nat
      /\ \A k : LengthAt(k)' = LengthAt(k) /\ FillsItsSectors(k)' = FillsItsSectors(k)
  BY <1>0, ArchiveStays, SectorsInside DEF FillsItsSectors, SECTOR
<1>2. SUFFICES ASSUME Searches, \A k \in Marks : ~FillsItsSectors(k)
               PROVE  /\ (pc' = "exit" /\ ret' = 0) => offset' * SECTOR >= input.size
                      /\ FoundAtMarks' /\ FoundWhole' /\ FoundInOrder'
  BY <1>0, <1>1 DEF FoundSoFar, SECTOR
<1>3. /\ FoundAtMarks /\ FoundWhole /\ FoundInOrder
      /\ ((pc = "exit" /\ ret = 0) => offset * SECTOR >= input.size)
  BY <1>2 DEF FoundSoFar
<1>4. CASE Write
  <2>1. offset' \in Nat /\ (pc' = "exit" => offset' * SECTOR >= input.size)
    BY <1>0, <1>4, NextControl DEF Control, Write, SECTOR
  <2>2. QED
    BY <1>2, <1>3, <1>4, <2>1, WriteFinds
<1>5. CASE ~Write
  <2>1. files' = files /\ Passed' = Passed /\ offset' \in Nat /\ offset <= offset'
        /\ ((pc' = "exit" /\ ret' = 0) => offset' * SECTOR >= input.size)
    <3>1. CASE Search
      <4>1. UNCHANGED <<input, size, found, count, files, ret>> /\ remain = input.size - offset * SECTOR
        BY <1>2, <3>1 DEF Search, Control
      <4>2. CASE remain <= 0 /\ pc' = "exit" /\ offset' = offset
        BY <1>0, <1>1, <4>1, <4>2 DEF Passed, SECTOR
      <4>3. CASE pc' = "write" /\ offset' = offset
        BY <1>0, <1>1, <4>1, <4>3 DEF Passed
      <4>4. CASE ~Marked(offset) /\ offset' = offset + 1 /\ pc' = pc
        <5>1. offset \notin Marks /\ pc' = "head"
          BY <3>1, <4>4 DEF Marks, Search
        <5>2. \A k \in Marks : k < offset + 1 <=> k < offset
          BY <1>0, <1>1, <5>1
        <5>3. Passed' = Passed
          BY <1>1, <4>4, <5>2 DEF Passed
        <5>4. offset' \in Nat /\ offset <= offset'
          BY <1>0, <4>4
        <5>5. QED
          BY <4>1, <5>1, <5>3, <5>4
      <4>5. QED
        BY <3>1, <4>2, <4>3, <4>4 DEF Search
    <3>2. CASE CannotOpen \/ Read \/ RunOff \/ WriteCrash
      BY <1>0, <1>1, <3>2 DEF CannotOpen, Read, RunOff, WriteCrash, measure, Passed, Control
    <3>3. ~Begin /\ ~Measure
      BY <1>2 DEF Begin, Measure, Control
    <3>4. CASE UNCHANGED vars
      BY <1>0, <1>1, <1>3, <3>4 DEF vars, measure, Passed
    <3>5. QED
      BY <1>5, <3>1, <3>2, <3>3, <3>4 DEF Next
  <2>2. Begins' = Begins /\ FoundInOrder'
    BY <1>3, <2>1 DEF Begins, FoundInOrder
  <2>3. \A k : Within(k)' = Within(k)
    BY <1>1, <2>2 DEF Within, SECTOR
  <2>4. FoundAtMarks'
    BY <1>3, <2>1, <2>2, <2>3 DEF FoundAtMarks
  <2>5. FoundWhole'
    <3>1. ASSUME NEW n \in DOMAIN files
          PROVE  /\ files[n].from = (files[n].from \div SECTOR) * SECTOR
                 /\ files[n].len = LengthAt(files[n].from \div SECTOR)
                 /\ files[n].from + files[n].len < offset' * SECTOR
      <4>1. files[n].from \in Nat /\ files[n].len \in Nat /\ files[n].from + files[n].len < offset * SECTOR
        BY <1>3, <3>1, FoundTypes DEF FoundWhole, SECTOR
      <4>2. files[n].from + files[n].len < offset' * SECTOR
        BY <1>0, <2>1, <4>1 DEF SECTOR
      <4>3. QED
        BY <1>3, <3>1, <4>2 DEF FoundWhole
    <3>2. \A n \in DOMAIN files' : LengthAt(files[n].from \div SECTOR)' = LengthAt(files'[n].from \div SECTOR)
      BY <1>0 DEF LengthAt, Byte, SECTOR
    <3>3. QED
      BY <2>1, <3>1, <3>2 DEF FoundWhole
  <2>6. QED
    BY <2>1, <2>2, <2>4, <2>5
<1>6. QED
  BY <1>4, <1>5

(* A file is numbered after those of its kind before it.                   *)
LEMMA NextTypes ==
  ASSUME ArchivesAreRead, Control, TypeOK, [Next]_vars
  PROVE  TypeOK'
<1>1. Control'
  BY NextControl
<1>2. ret' \in {-2, 0}
  BY DEF TypeOK, Next, vars, CannotOpen, Read, Begin, Measure, RunOff, Search, Write, WriteCrash
<1>3. ASSUME NEW k \in Kinds
      PROVE  count'[k] = Cardinality({n \in DOMAIN files' : n[1] = k})
  <2> DEFINE OfKind == {n \in DOMAIN files : n[1] = k}
  <2>1. count[k] = Cardinality(OfKind)
    BY DEF TypeOK, Kinds
  <2>2. CASE Write
    <3> DEFINE new == <<found, count[found]>>
    <3>1. /\ DOMAIN files' = DOMAIN files \cup {new} /\ new \notin DOMAIN files
          /\ count \in [Kinds -> Nat] /\ count' = [count EXCEPT ![found] = @ + 1] /\ IsFiniteSet(OfKind)
      <4>1. IsFiniteSet(OfKind)
        BY FS_Subset DEF Control
      <4>2. QED
        BY <2>2, <4>1 DEF Write, Numbered, Control
    <3>2. CASE k = found
      <4>1. {n \in DOMAIN files' : n[1] = k} = OfKind \cup {new} /\ new \notin OfKind
        BY <3>1, <3>2
      <4>2. Cardinality({n \in DOMAIN files' : n[1] = k}) = Cardinality(OfKind) + 1
        BY <3>1, <4>1, FS_AddElement
      <4>3. count'[k] = count[k] + 1
        BY <3>1, <3>2
      <4>4. QED
        BY <2>1, <4>2, <4>3
    <3>3. CASE k # found
      <4>1. {n \in DOMAIN files' : n[1] = k} = OfKind
        BY <3>1, <3>3
      <4>2. count'[k] = count[k]
        BY <3>1, <3>3
      <4>3. QED
        BY <2>1, <4>1, <4>2
    <3>4. QED
      BY <3>2, <3>3
  <2>3. CASE ~Write
    <3>1. files' = files /\ count' = count
      BY <2>3 DEF Next, vars, CannotOpen, Read, Begin, Measure, RunOff, Search, WriteCrash
    <3>2. QED
      BY <2>1, <3>1
  <2>4. QED
    BY <2>2, <2>3
<1>4. QED
  BY <1>1, <1>2, <1>3 DEF TypeOK, Control, Kinds

-------------------------------------------------------------------------------
LEMMA InitIInv == ASSUME ArchivesAreRead, Init PROVE IInv
<1>1. input \in Inputs /\ pc = "start" /\ offset = 0 /\ size = 0 /\ remain = 0 /\ found = "BGM"
      /\ count = [k \in Kinds |-> 0] /\ files = <<>> /\ ret = 0
  BY DEF Init, Kinds
<1>2. DOMAIN files = {}
  BY <1>1
<1>3. Control
  BY <1>1, <1>2, FS_EmptySet DEF Control, Kinds
<1>4. Measured /\ FilesInside
  BY <1>1, <1>2 DEF Measured, FilesInside
<1>5. Passed = {} /\ Begins = {}
  BY <1>1, <1>2, SectorsInside DEF Passed, Begins
<1>6. CutSoFar
  <2>1. SUFFICES ASSUME Marks # {}, Marked(0) PROVE CutAtMarks /\ CutWhatIsPassed
    BY DEF CutSoFar
  <2>2. 0 \in Marks
    BY <1>1, <2>1, SectorsInside, ArchiveIs DEF Marks
  <2>3. CutAtMarks
    BY <1>1, <2>2 DEF CutAtMarks
  <2>4. \A kind \in Kinds : {m \in Passed : KindOf(m) = kind} = {}
    BY <1>5
  <2>5. CutWhatIsPassed
    BY <1>1, <1>2, <1>5, <2>4, FS_EmptySet DEF CutWhatIsPassed
  <2>6. QED
    BY <2>3, <2>5
<1>7. FoundSoFar
  BY <1>1, <1>2, <1>5 DEF FoundSoFar, FoundAtMarks, FoundWhole, FoundInOrder
<1>8. QED
  BY <1>3, <1>4, <1>6, <1>7 DEF IInv

LEMMA IInvIsEnough ==
  ASSUME ArchivesAreRead, IInv
  PROVE  EveryTuneIsCut /\ EveryTuneIsFound /\ StaysInside
<1>0. /\ input \in Inputs /\ offset \in Nat /\ size \in Nat /\ input.size \in Nat /\ N \in Nat
      /\ input.size <= N * SECTOR /\ (N - 1) * SECTOR < input.size
      /\ Marks \in SUBSET (0 .. N - 1)
  BY ArchiveIs, SectorsInside DEF IInv, Control
<1>1. EveryTuneIsCut
  <2>1. SUFFICES ASSUME pc = "exit", ret = 0, ~Searches, Whole, Marks # {}, Marked(0)
                 PROVE  /\ Cardinality(DOMAIN files) = Cardinality(Marks)
                        /\ \A k \in Marks : NumberOf(k) \in DOMAIN files /\ files[NumberOf(k)] = TuneAt(k)
    BY DEF EveryTuneIsCut, NumberOf, TuneAt
  <2>2. offset = N /\ CutWhatIsPassed
    BY <2>1 DEF IInv, CutSoFar, CutAtMarks
  <2>3. Passed = Marks
    <3>1. \A k \in Marks : k < N
      BY <1>0
    <3>2. QED
      BY <2>2, <3>1 DEF Passed
  <2>4. QED
    BY <2>2, <2>3 DEF CutWhatIsPassed
<1>2. EveryTuneIsFound
  <2>1. SUFFICES ASSUME pc = "exit", ret = 0, Searches, \A k \in Marks : ~FillsItsSectors(k)
                 PROVE  /\ Begins = {k \in Marks : ~Within(k)}
                        /\ \A n \in DOMAIN files : files[n].len = LengthAt(files[n].from \div SECTOR)
                        /\ FoundInOrder
    BY DEF EveryTuneIsFound, Begins, Within, FoundInOrder
  <2>2. offset * SECTOR >= input.size /\ FoundAtMarks /\ FoundWhole /\ FoundInOrder
    BY <2>1 DEF IInv, FoundSoFar
  <2>3. N - 1 < offset
    BY <1>0, <2>2 DEF SECTOR
  <2>4. Passed = Marks
    <3>1. \A k \in Marks : k < offset
      BY <1>0, <2>3
    <3>2. QED
      BY <3>1 DEF Passed
  <2>5. QED
    BY <2>2, <2>4 DEF FoundAtMarks, FoundWhole
<1>3. StaysInside
  <2>1. SUFFICES ASSUME Whole, input.size > 0
                 PROVE  /\ pc = "measure" /\ remain > 0 => Inside(offset + size)
                        /\ \A n \in DOMAIN files :
                             (Searches => files[n].from + LengthAt(files[n].from \div SECTOR) <= input.size) =>
                               files[n].from + files[n].len <= input.size
    BY DEF StaysInside
  <2>2. ASSUME pc = "measure", remain > 0 PROVE Inside(offset + size)
    <3>1. offset + size <= N /\ remain = (N - offset - size) * SECTOR
      BY <2>1, <2>2 DEF IInv, Control, Measured
    <3>2. offset + size < N
      BY <1>0, <2>2, <3>1 DEF SECTOR
    <3>3. QED
      BY <1>0, <3>2, SectorsInside
  <2>3. QED
    BY <2>1, <2>2 DEF IInv, FilesInside
<1>4. QED
  BY <1>1, <1>2, <1>3

(***************************************************************************)
(* Whatever archive of first bytes the cutters are run on: one that is cut *)
(* at its marks is cut at every mark and nowhere else, each tune and voice *)
(* whole and in the file of its number; one that is searched gives a file  *)
(* for every mark that is not among another tune's bytes; and no sector    *)
(* behind the end is looked for or copied, as long as the lengths are true.*)
(***************************************************************************)
THEOREM MarksAlwaysCut ==
  ASSUME ArchivesAreRead
  PROVE  Spec => [](EveryTuneIsCut /\ EveryTuneIsFound /\ StaysInside)
<1>1. Init => IInv
  BY InitIInv
<1>2. IInv /\ [Next]_vars => IInv'
  BY NextControl, NextMeasured, NextFilesInside, NextCutSoFar, NextFoundSoFar DEF IInv
<1>3. IInv => EveryTuneIsCut /\ EveryTuneIsFound /\ StaysInside
  BY IInvIsEnough
<1>4. QED
  BY <1>1, <1>2, <1>3, PTL DEF Spec

(***************************************************************************)
(* The variables keep their types, and the next number of a kind is the    *)
(* number of files there are of it.                                        *)
(***************************************************************************)
THEOREM MarkTypesHold ==
  ASSUME ArchivesAreRead
  PROVE  Spec => []TypeOK
<1>1. Init => Control /\ TypeOK
  <2> SUFFICES ASSUME Init PROVE Control /\ TypeOK
    OBVIOUS
  <2>1. DOMAIN files = {} /\ \A k \in Kinds : count[k] = 0
    BY DEF Init, Kinds
  <2>2. \A k \in Kinds : {n \in DOMAIN files : n[1] = k} = {}
    BY <2>1
  <2>3. \A k \in Kinds : count[k] = Cardinality({n \in DOMAIN files : n[1] = k})
    BY <2>1, <2>2, FS_EmptySet
  <2>4. TypeOK
    BY <2>3 DEF Init, TypeOK, Kinds
  <2>5. QED
    BY <2>4, InitIInv DEF IInv
<1>2. Control /\ TypeOK /\ [Next]_vars => Control' /\ TypeOK'
  BY NextControl, NextTypes
<1>3. QED
  BY <1>1, <1>2, PTL DEF Spec
================================================================================
