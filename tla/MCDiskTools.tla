------------------------------ MODULE MCDiskTools ------------------------------
(***************************************************************************)
(* The programs that are built on the disk library, one of which is run:   *)
(* an extractor, or the cutter of the FM-7 Angelous disk, which is called  *)
(* "angelous" here. The disks are laid out here from the format's own      *)
(* description of a file, a first sector counted along the disk and a      *)
(* length, by other arithmetic than the programs'.                         *)
(*                                                                         *)
(* For every extractor, a file of two disks in three variants: everything  *)
(* there, the second disk's directory not, a file's second sector not.     *)
(***************************************************************************)
EXTENDS D88Tools, TLC

CONSTANTS
  AngelImage, AngelTable      \* the cutter's disks, and what their directories list

VARIABLES load, next, lost    \* the cutter's own; the others are the extractors'

LASTFILE == 9         \* behind it only the directory's track is formatted
ANGEL_TRACKS == 10    \* of the cutter's disks

MCSecSize == [n \in 0 .. 5 |-> 2 ^ n]
MCTools == {"ys3", "ys", "xzr", "tel", "cal", "fhm", "sknm", "lap", "ff", "ft", "elf", "txd",
            "ish", "jcf", "hs", "p2", "otm", "km", "kg", "ls2", "sm", "fc41", "fc39", "hare"}
MCVariants == {"good", "baddir", "short"}
MCArguments == {"0", "1", "2", "3"}

(* Sectors of a track, their size code, where the directory begins.        *)
Format(per, n, t, r) == [per |-> per, N |-> n, dtrk |-> t, dR |-> r]
Formats ==
  [t \in MCTools |->
    CASE t \in {"ys3", "ys", "xzr", "tel", "cal", "ft"} -> Format(9, 2, 0, 2)
      [] t = "fhm" -> Format(9, 2, 0, 5)
      [] t \in {"sknm", "ff"} -> Format(9, 2, 0, 9)
      [] t = "lap" -> Format(9, 2, 0, 7)
      [] t = "elf" -> Format(9, 2, 0, 8)
      [] t \in {"txd", "ish"} -> Format(16, 1, 2, 4)
      [] t = "jcf" -> Format(16, 1, 37, 1)
      [] t \in {"hs", "hare"} -> Format(16, 1, 1, 1)
      [] t \in {"p2", "otm", "kg"} -> Format(5, 3, 1, 1)
      [] t = "km" -> Format(8, 3, 0, 7)
      [] t = "ls2" -> Format(16, 1, 1, 1)
      [] t = "sm" -> Format(15, 2, 1, 1)
      [] t = "fc41" -> Format(16, 1, 39, 15)
      [] t = "fc39" -> Format(16, 1, 36, 15)]

(* Lipstick Adventure 2 has tracks of ten larger sectors behind the first. *)
TrackFormat(t, k) == IF t = "ls2" /\ k >= 2 THEN Format(10, 2, 1, 1) ELSE Formats[t]

(* Where byte i of a file is that begins with a sector of a track. Otome   *)
(* Party's directory track is not counted.                                 *)
PlaceOf(t, trk0, r0, i) ==
  LET f == TrackFormat(t, trk0)
      s == (r0 - 1) + i \div MCSecSize[f.N]
      k == trk0 + s \div f.per
  IN  <<IF t = "otm" /\ trk0 = 0 /\ k > 0 THEN k + 1 ELSE k, (s % f.per) + 1, (i % MCSecSize[f.N]) + 1>>

(* The files of a disk: where each begins, its length, how many bytes of   *)
(* the sector are its header. One crosses to the next track.               *)
Bytes(t) == LET z == MCSecSize[TrackFormat(t, 4).N] IN
  IF t \in {"elf", "jcf", "p2", "otm", "kg", "ls2", "hare", "txd", "ish", "hs"} THEN 2 * z - 1 ELSE 2 * z

HalfTrackTools == {"txd", "ish", "jcf"}
FirstR(t) == IF t \in HalfTrackTools THEN 9 ELSE TrackFormat(t, 4).per
FirstTrack(t, dd) == IF t = "otm" THEN 0 ELSE 4 + dd

DiskFile(n, trk0, r0, b, o) == [name |-> n, trk |-> trk0, R |-> r0, bytes |-> b, ofs |-> o]
DiskFiles(t, dd) ==
  LET z == MCSecSize[TrackFormat(t, 4).N]
      o == CASE t = "txd" -> 2 [] t \in {"ish", "hs"} -> 1 [] OTHER -> 0
      long == IF t \in HalfTrackTools THEN 9 * z ELSE Bytes(t)
  IN  <<DiskFile("A", FirstTrack(t, dd), FirstR(t), long, o)>>
      \o (IF t = "km" THEN <<DiskFile("B", FirstTrack(t, dd) + 1, 2, z, 0)>>
          ELSE <<DiskFile("B", 7 + dd, 1, z, IF t = "txd" THEN 1 ELSE o)>>)
      \o (IF t = "km" THEN <<DiskFile("end", FirstTrack(t, dd) + 1, 3, 0, 0)>> ELSE <<>>)

Says(t, f) == [i \in 1 .. f.bytes |-> PlaceOf(t, f.trk, f.R, f.ofs + i - 1)]

Lo(x) == x % 256
Hi(x) == x \div 256
At31(m) == [a \in 0 .. 31 |-> IF a \in DOMAIN m THEN m[a] ELSE 1]
Put(a, x) == (a :> Lo(x)) @@ (a + 1 :> Hi(x))
PutBig(a, x) == (a :> Hi(x)) @@ (a + 1 :> Lo(x))

MCEntry0 == [at |-> [a \in 0 .. 31 |-> 0], name |-> "", says |-> NULL]

(* How each format writes down a file. *)
Linear(t, f) == f.trk * Formats[t].per + f.R - 1
Sectors0(t, f) == f.bytes \div MCSecSize[Formats[t].N]
Encoded(t, f) ==
  CASE t \in {"ys3", "ys", "sknm", "ff"} ->
         Put(12, Linear(t, f)) @@ Put(14, Linear(t, f) + Sectors0(t, f) - 1)
    [] t = "lap" -> Put(4, Linear(t, f)) @@ Put(6, Linear(t, f) + Sectors0(t, f) - 1)
    [] t = "xzr" -> Put(8, Linear(t, f)) @@ (10 :> Sectors0(t, f))
    [] t \in {"tel", "cal"} -> Put(6, Linear(t, f)) @@ (8 :> Sectors0(t, f))
    [] t = "ft" -> Put(11, Linear(t, f)) @@ (13 :> Sectors0(t, f))
    [] t = "elf" -> (22 :> 3) @@ Put(23, Linear(t, f) - 3) @@ Put(28, f.bytes)
    [] t = "fhm" -> Put(12, Sectors0(t, f)) @@ (14 :> f.trk \div 2)
                    @@ (15 :> 16 * (f.trk % 2) + f.R)
    [] t \in {"txd", "ish"} -> (14 :> 2 * (f.trk - 4) + (f.R - 1) \div 8)
    [] t = "jcf" -> (9 :> 2 * f.trk + (f.R - 1) \div 8) @@ PutBig(10, f.bytes)
    [] t = "hs" -> (10 :> f.trk) @@ (11 :> f.R) @@ (9 :> 2)
    [] t = "p2" -> (11 :> f.trk) @@ (12 :> f.R - 1) @@ Put(14, f.bytes)
    [] t = "otm" -> Put(14, Linear(t, f)) @@ Put(12, f.bytes)
    [] t = "km" -> Put(11, (f.trk - 1) * 8 + f.R - 2)
    [] t = "kg" -> (14 :> f.trk) @@ (15 :> f.R) @@ Put(10, 9) @@ Put(12, 8 + f.bytes)
    [] t \in {"ls2", "hare"} -> (9 :> f.trk) @@ (10 :> f.R) @@ Put(13, f.bytes)
    [] t = "sm" -> (15 :> f.trk \div 2) @@ (14 :> f.R + 16 * (f.trk % 2)) @@ (13 :> Sectors0(t, f))
    [] t \in {"fc41", "fc39"} -> (0 :> f.trk) @@ (1 :> f.R) @@ (2 :> Sectors0(t, f))

FirstByte(t, f) == IF t = "km" /\ f.name = "end" THEN (0 :> 0) ELSE (0 :> 65)
EntryOf(t, f) ==
  [at |-> At31(Encoded(t, f) @@ FirstByte(t, f)), name |-> f.name, says |-> Says(t, f)]

(* An entry that is passed over, where the format has one, and the end.    *)
Special(b, n) == [at |-> At31((0 :> b) @@ (1 :> b)), name |-> n, says |-> NULL]
Deleted(t) ==
  CASE t \in {"tel", "fhm", "sknm", "lap", "ff", "kg"} -> <<Special(0, "")>>
    [] t = "xzr" -> <<Special(67, "COM")>>
    [] t = "p2" -> <<Special(255, "")>>
    [] t = "ft" -> <<Special(249, "")>>
    [] OTHER -> <<>>
Last(t) ==
  CASE t \in {"tel", "fhm", "ys3", "ys", "xzr", "cal", "ft", "txd", "ish", "jcf", "hs", "otm",
              "kg", "ls2", "sm", "hare"} -> <<Special(255, "")>>
    [] t = "sknm" -> <<Special(64, "")>>
    [] OTHER -> <<>>

Directory(t, dd) ==
  LET fs == DiskFiles(t, dd)
      es == [i \in DOMAIN fs |-> EntryOf(t, fs[i])]
  IN  (IF t \in {"ff", "ft"} THEN <<Special(65, "volume")>> ELSE <<>>)
      \o (IF t = "km" THEN es ELSE <<es[1]>> \o Deleted(t) \o <<es[2]>>) \o Last(t)

(* The headers that are in a file's first sector. *)
HeaderOf(t, f) ==
  LET at == CASE t = "txd" -> IF f.ofs = 2 THEN PutBig(2, f.bytes) @@ (0 :> 1)
                              ELSE PutBig(1, f.bytes) @@ (0 :> 0)
              [] t = "ish" -> PutBig(1, IF f.name = "B" THEN 65535 ELSE f.bytes)
              [] t = "hs" -> Put(0, 300) @@ Put(2, 300 + f.bytes)
  IN  [at |-> At31(at), name |-> "", says |-> Says(t, f)]

(* What there is in the sectors: the directory, headers, and for Hare no   *)
(* Chi Oosawagi the name of disk A and the version of its program.         *)
DirCells(t, dd) ==
  LET es == Directory(t, dd)
      starts == IF t = "ys" THEN {2, 5, 7} ELSE {Formats[t].dR}
  IN  {<<PlaceOf(t, Formats[t].dtrk, r, i - 1), es[i]>> : r \in starts, i \in DOMAIN es}

HeadCells(t, dd) ==
  IF t \in {"txd", "ish", "hs"}
  THEN LET fs == DiskFiles(t, dd) IN {<<PlaceOf(t, fs[i].trk, fs[i].R, 0), HeaderOf(t, fs[i])>> : i \in DOMAIN fs}
  ELSE {}

Version(v) == CASE v = "good" -> 25189 [] v = "baddir" -> 10760 [] v = "short" -> 12345
HareCells(t, dd, v) ==
  IF t # "hare" \/ dd = 1 THEN {}
  ELSE {<<<<0, 1, 2>>, Special(72, "HARE88:A")>>,
        <<<<0, 4, 1>>, [at |-> At31(Put(23, Version(v))), name |-> "", says |-> NULL]>>}

Cells(t, dd, v) == DirCells(t, dd) \cup HeadCells(t, dd) \cup HareCells(t, dd, v)

(* The sectors that are missing, by track and record. The magazines only   *)
(* look at the first disk, and lose the end of a long file besides.        *)
Missing(t, dd, v) ==
  CASE v = "baddir" /\ t \in {"fc41", "fc39"} -> {<<Formats[t].dtrk, Formats[t].dR>>, <<3, 1>>}
    [] v = "short" /\ t \in {"fc41", "fc39"} /\ dd = 0 -> {<<3, 1>>, <<5, 1>>}
    [] v = "baddir" /\ dd = 1 -> {<<Formats[t].dtrk, Formats[t].dR>>}
    [] v = "short" /\ dd = 1 ->
         LET f == DiskFiles(t, dd)[1] p == PlaceOf(t, f.trk, f.R, MCSecSize[TrackFormat(t, f.trk).N])
         IN  {<<p[1], p[2]>>}
    [] OTHER -> {}

DiskImage(t, dd, v) ==
  LET cells == Cells(t, dd, v)
  IN  [size |-> 1,
       trk |-> [k \in 0 .. TRACKS - 1 |->
         LET f == TrackFormat(t, k)
         IN  IF k > LASTFILE /\ k # f.dtrk THEN [at |-> 0, secs |-> <<>>] ELSE
             [at |-> 1,
              secs |-> [r \in 1 .. f.per |->
                LET here == {c \in cells : c[1][1] = k /\ c[1][2] = r}
                IN  [id |-> IF <<k, r>> \in Missing(t, dd, v) THEN <<>> ELSE <<k \div 2, k % 2, r, f.N>>,
                     size |-> MCSecSize[f.N], have |-> MCSecSize[f.N],
                     data |-> [i \in {c[1][3] : c \in here} |->
                                 (CHOOSE c \in here : c[1][3] = i)[2]]]]]]]

(* A table has a name of its own, by which TLC computes it once; comparing *)
(* it with itself has it computed whole. The constant stands for it.       *)
ImageTable ==
  LET all == [x \in MCTools \X MCVariants |-> <<DiskImage(x[1], 0, x[2]), DiskImage(x[1], 1, x[2])>>]
  IN  CHOOSE f \in {all} : f = all
MCImage == LET table == ImageTable IN table

MCPromise ==
  [x \in MCTools \X MCVariants |->
     IF x[2] # "good" THEN {} ELSE {0, 1} \X {"A", "B"}]

-------------------------------------------------------------------------------
(* The cutter's disks, of five and of six records a track, of both, and    *)
(* with a record missing; files that fit in a track and that go on over    *)
(* two more; a table that is full.                                         *)

AngelFAT == 5

AngelFiles == {"even", "uneven", "hole"} \X {5, 6} \X {1, 2, 5}
AngelRecords(f, t) == CASE f[1] = "uneven" -> IF t % 2 = 0 THEN 6 ELSE 5 [] OTHER -> f[2]
AngelMissing(f, t, r) == f[1] = "hole" /\ t = 5 /\ r = 2

(* What stands b bytes behind the beginning of a track, on a disk with the *)
(* same number of records everywhere.                                      *)
AngelPlace(per, t, b) ==
  <<0, t + b \div (8 * per), ((b % (8 * per)) \div 8) + 1, (b % 8) + 1>>

AngelEntry(f, n, t, o8, o9, bytes) ==
  [name |-> n, trk |-> t, b8 |-> o8, b9 |-> o9, size |-> bytes, there |-> AngelPlace(f[2], t, o8 + 2 * o9 + bytes)[2] < ANGEL_TRACKS,
   says |-> [i \in 1 .. bytes |-> AngelPlace(f[2], t, o8 + 2 * o9 + i - 1)]]

AngelEntries(f) ==
  SubSeq(<<AngelEntry(f, "A", 3, 0, 0, 7), AngelEntry(f, "B", 3, 1, 3, 90), AngelEntry(f, "C", 5, 1, 8, 31),
           AngelEntry(f, "D", 4, 0, 2, 92), AngelEntry(f, "E", ANGEL_TRACKS - 2, 0, 30, 60)>>, 1, f[3])

AngelDisk(f) ==
  [size |-> 1,
   trk |-> [t \in 0 .. ANGEL_TRACKS - 1 |->
     [at |-> 1,
      secs |-> [r \in 1 .. AngelRecords(f, t) |->
        [id |-> IF AngelMissing(f, t, r) THEN <<>> ELSE <<t \div 2, t % 2, r, 3>>,
         size |-> 8, have |-> 8]]]]]

AngelImageTable == LET all == [f \in AngelFiles |-> <<AngelDisk(f)>>] IN CHOOSE f \in {all} : f = all
MCAngelImage == LET table == AngelImageTable IN table

AngelEntryTable == LET all == [f \in AngelFiles |-> AngelEntries(f)] IN CHOOSE f \in {all} : f = all
MCAngelTable == LET table == AngelEntryTable IN table

AngelListed == [f \in AngelFiles |-> {x.name : x \in {AngelTable[f][i] : i \in {j \in 1 .. f[3] : AngelTable[f][j].there}}}]

AngelPlain(f, cell) ==
  IF Len(cell) # 4 \/ cell[4] > f[3] THEN NULL ELSE AngelTable[f][cell[4]]

Angelous == INSTANCE AngelFm7 WITH
  MAX_DISK <- 2, TRACKS <- ANGEL_TRACKS, SecSize <- MCSecSize, Image <- AngelImage, Files <- AngelFiles,
  Even <- {f \in AngelFiles : f[1] = "even"}, Listed <- AngelListed, Plain <- AngelPlain, BLOCK <- 2, FAT <- AngelFAT

-------------------------------------------------------------------------------
(* The program that is run. *)

Extracting == tool # "angelous"

MCInit ==
  \/ Init /\ load = 0 /\ next = 0 /\ lost = {}
  \/ Angelous!Init /\ tool = "angelous" /\ arg = "0" /\ d = 0 /\ dirOf = NULL

MCNext ==
  \/ Extracting /\ Next /\ UNCHANGED <<load, next, lost>>
  \/ ~Extracting /\ Angelous!Next /\ UNCHANGED <<tool, arg, d, dirOf>>

MCvars == <<vars, load, next, lost>>

(* One program that nothing waits for runs until it returns.               *)
MCSpec == MCInit /\ [][MCNext]_MCvars /\ WF_MCvars(MCNext)

(* The directory and the file being copied stay within the buffers they    *)
(* are read into, whatever the sector size and however many reads a file   *)
(* takes.                                                                  *)
TypeOK == IF Extracting THEN BuffersHold ELSE Angelous!TypeOK

(* A file that was written holds the bytes its entry says, if they are all *)
(* on the disk; a read that fell short brings in nothing but what an       *)
(* earlier one left where the program does not clear the buffer, and the   *)
(* cutter writes no byte it has not read.                                  *)
CutsWhatTheEntrySays ==
  IF Extracting THEN CutsAsListed /\ NothingForeign
  ELSE Angelous!FilesAreWhole /\ Angelous!NothingUnread

(* The program comes to its end whatever is missing from the disks, and    *)
(* has then copied every file that is all there, of every disk.            *)
EndsWithEverything ==
  <>(/\ pc \in {"exit", "crash"}
     /\ IF Extracting THEN CopiesEverything ELSE Angelous!EveryEntryIsCut)
===============================================================================
