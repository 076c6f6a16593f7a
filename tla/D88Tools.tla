------------------------------- MODULE D88Tools -------------------------------
(***************************************************************************)
(* The extractors built on the disk library.  Each opens a file of disks,  *)
(* reads the directory of every disk in it, and copies each file it lists  *)
(* out of the disk.  They share one main; what differs is where the        *)
(* directory is, what an entry looks like and what is done with a read     *)
(* that falls short.                                                       *)
(*                                                                         *)
(* Abstracted: one byte of the model is 0x80 bytes of a disk, so that      *)
(* 0x200 is SecSize[2], and holds one directory entry or file header       *)
(* whatever their strides; a name is a token; messages are left out.       *)
(***************************************************************************)
EXTENDS D88, FiniteSets

CONSTANTS
  Tools,    \* the extractors that are run
  Variants, \* a file for a tool is <<tool, variant>>
  Arguments,\* what may follow the file's name; only Ys looks at it
  Entry0,   \* the entry whose bytes are all zero
  Promise   \* the disk and name of every file in the directories of a file
            \* of disks that has every sector, <<>> for one that has not

VARIABLES
  tool, arg, pc,
  d, fn,    \* the disk, the slot of its directory
  cut,      \* the file being copied
  out,      \* the file written last, NULL when none is
  dirOf,    \* history: the disk the directory was read for, and if in full
  done      \* history: disk and name of each file written from a full read

toolvars == <<tool, arg, pc, d, fn, cut, out, dirOf, done>>
vars == <<d88vars, toolvars>>

-------------------------------------------------------------------------------
(* The directories. *)

(* The bytes a cell of a buffer stands for when it is an entry or header;  *)
(* deciphered bytes are none.                                              *)
Content(cell) ==
  IF Len(cell) # 4 THEN Entry0
  ELSE LET data == Image[m_fp][cell[1] + 1].trk[cell[2]].secs[cell[3]].data
       IN  IF cell[4] \in DOMAIN data THEN data[cell[4]] ELSE Entry0

Cell(b, i) == IF i \in DOMAIN buf[b] THEN buf[b][i] ELSE Zero
Slot(i) == Content(Cell("dir", i + 1))

Byte(e, a) == e.at[a]
Word(e, a) == Byte(e, a) + 256 * Byte(e, a + 1)
BigWord(e, a) == 256 * Byte(e, a) + Byte(e, a + 1)

Setup(t, c, h, r, n, bytes) == [trk |-> t, C |-> c, H |-> h, R |-> r, N |-> n, bytes |-> bytes]

EndOfDir == [kind |-> "end"]
Skipped == [kind |-> "skip"]
File(e, t, r, bytes) ==
  [kind |-> "file", name |-> e.name, trk |-> t, R |-> r, ofs |-> 0, bytes |-> bytes,
   says |-> e.says]

(* A disk of nine sectors of 0x200 bytes, counted from 0.                  *)
Counted(e, s, bytes) == File(e, s \div 9, (s % 9) + 1, bytes)
FromTo(e, first, last) == Counted(e, first, (last - first + 1) * SecSize[2])

(* A name COM... cannot be created on the host.                            *)
IsCom(e) == e.name = "COM"

Ys3Setup == [dir |-> Setup(0, 0, 0, 2, 2, 6 * SecSize[2]), slots |-> 6 * SecSize[2], first |-> 0,
             range |-> <<1, 9>>, filerange |-> <<1, 9>>, N |-> 2, clears |-> FALSE]
(* Mutant: the end is taken for the sector after the last.                 *)
Ys3EntryShort(e) ==
  IF Byte(e, 0) = 255 THEN EndOfDir
  ELSE Counted(e, Word(e, 12), (Word(e, 14) - Word(e, 12)) * SecSize[2])

Ys3Entry(e) == IF Byte(e, 0) = 255 THEN EndOfDir ELSE FromTo(e, Word(e, 12), Word(e, 14))

(* The argument says where the directory is. *)
YsSector == CASE arg = "0" -> 2 [] arg = "1" -> 5 [] arg = "2" -> 7
YsSetup == [dir |-> Setup(0, 0, 0, YsSector, 2, 6 * SecSize[2]), slots |-> 6 * SecSize[2], first |-> 0,
            range |-> <<1, 9>>, filerange |-> <<1, 9>>, N |-> 2, clears |-> FALSE]
YsEntry(e) == IF Byte(e, 0) = 255 THEN EndOfDir ELSE FromTo(e, Word(e, 12), Word(e, 14))

XzrSetup == [dir |-> Setup(0, 0, 0, 2, 2, 5 * SecSize[2]), slots |-> 5 * SecSize[2], first |-> 0,
             range |-> <<1, 9>>, filerange |-> <<1, 9>>, N |-> 2, clears |-> FALSE]
XzrEntry(e) ==
  IF Byte(e, 0) = 255 \/ (Byte(e, 0) = 32 /\ Byte(e, 1) = 32) THEN EndOfDir
  ELSE IF IsCom(e) THEN Skipped
  ELSE Counted(e, Word(e, 8), Byte(e, 10) * SecSize[2])

TelSetup == [dir |-> Setup(0, 0, 0, 2, 2, 5 * SecSize[2]), slots |-> 5 * SecSize[2], first |-> 0,
             range |-> <<1, 9>>, filerange |-> <<1, 9>>, N |-> 2, clears |-> FALSE]
TelEntry(e) ==
  IF Byte(e, 0) = 0 THEN Skipped
  ELSE IF Byte(e, 0) = 255 THEN EndOfDir
  ELSE IF IsCom(e) THEN Skipped
  ELSE Counted(e, Word(e, 6), Byte(e, 8) * SecSize[2])

CalSetup == [dir |-> Setup(0, 0, 0, 2, 2, 5 * SecSize[2]), slots |-> 5 * SecSize[2], first |-> 0,
             range |-> <<1, 9>>, filerange |-> <<1, 9>>, N |-> 2, clears |-> FALSE]
CalEntry(e) ==
  IF Byte(e, 0) = 255 THEN EndOfDir ELSE Counted(e, Word(e, 6), Byte(e, 8) * SecSize[2])

FhmSetup == [dir |-> Setup(0, 0, 0, 5, 2, 3 * SecSize[2]), slots |-> 3 * SecSize[2], first |-> 0,
             range |-> <<1, 9>>, filerange |-> <<1, 9>>, N |-> 2, clears |-> FALSE]
(* A hidden file has a zero where its name begins. *)
FhmEntry(e) ==
  IF Byte(e, 0) = 255 THEN EndOfDir
  ELSE IF Byte(e, 0) = 0 /\ Byte(e, 1) = 0 THEN Skipped
  ELSE File(e, Byte(e, 14) * 2 + (Byte(e, 15) \div 16), Byte(e, 15) % 16, Word(e, 12) * SecSize[2])

SknmSetup == [dir |-> Setup(0, 0, 0, 9, 2, 5 * SecSize[2]), slots |-> 5 * SecSize[2], first |-> 0,
              range |-> <<1, 9>>, filerange |-> <<1, 9>>, N |-> 2, clears |-> FALSE]
SknmEntry(e) ==
  IF Byte(e, 0) = 0 THEN Skipped
  ELSE IF Byte(e, 0) = 64 THEN EndOfDir
  ELSE FromTo(e, Word(e, 12), Word(e, 14))

LapSetup == [dir |-> Setup(0, 0, 0, 7, 2, 4 * SecSize[2]), slots |-> 4 * SecSize[2], first |-> 0,
             range |-> <<1, 9>>, filerange |-> <<1, 9>>, N |-> 2, clears |-> FALSE]
LapEntry(e) == IF Byte(e, 0) = 0 THEN Skipped ELSE FromTo(e, Word(e, 4), Word(e, 6))

FfSetup == [dir |-> Setup(0, 0, 0, 9, 2, 10 * SecSize[2]), slots |-> 10 * SecSize[2], first |-> 1,
            range |-> <<1, 9>>, filerange |-> <<1, 9>>, N |-> 2, clears |-> FALSE]
FfEntry(e) ==
  IF Byte(e, 0) \in {0, 64} THEN Skipped ELSE FromTo(e, Word(e, 12), Word(e, 14))

FtSetup == [dir |-> Setup(0, 0, 0, 2, 2, 6 * SecSize[2]), slots |-> 6 * SecSize[2], first |-> 1,
            range |-> <<1, 9>>, filerange |-> <<1, 9>>, N |-> 2, clears |-> FALSE]
FtEntry(e) ==
  IF Byte(e, 0) = 255 THEN EndOfDir
  ELSE IF Byte(e, 0) = 249 THEN Skipped
  ELSE Counted(e, Word(e, 11), Byte(e, 13) * SecSize[2])

ElfSetup == [dir |-> Setup(0, 0, 0, 8, 2, 7 * SecSize[2]), slots |-> 14 * SecSize[2], first |-> 0,
             range |-> <<1, 9>>, filerange |-> <<1, 9>>, N |-> 2, clears |-> FALSE]
ElfEntry(e) ==
  IF Byte(e, 0) = 0 THEN EndOfDir ELSE Counted(e, Word(e, 23) + Byte(e, 22), Word(e, 28))

(* Half a track of sixteen sectors of 0x100 bytes is the unit of the FM-7  *)
(* directories; the length is in a header in front of the file.            *)
HalfTracks(e, a, from0) == File(e, Byte(e, a) \div 2 + from0, (Byte(e, a) % 2) * 8 + 1, 0)

TxdSetup == [dir |-> Setup(2, 1, 0, 4, 1, 8 * SecSize[1]), slots |-> 8 * SecSize[1], first |-> 0,
             range |-> <<1, 16>>, filerange |-> <<1, 16>>, N |-> 1, clears |-> FALSE]
TxdEntry(e) == IF Byte(e, 0) = 255 THEN EndOfDir ELSE HalfTracks(e, 14, 4)

IshSetup == [dir |-> Setup(2, 1, 0, 4, 1, 8 * SecSize[1]), slots |-> 8 * SecSize[1], first |-> 0,
             range |-> <<1, 16>>, filerange |-> <<1, 16>>, N |-> 1, clears |-> FALSE]
IshEntry(e) == IF Byte(e, 0) = 255 THEN EndOfDir ELSE HalfTracks(e, 14, 4)

JcfSetup == [dir |-> Setup(37, 18, 1, 1, 1, 8 * SecSize[1]), slots |-> 8 * SecSize[1], first |-> 0,
             range |-> <<1, 16>>, filerange |-> <<1, 16>>, N |-> 1, clears |-> FALSE]
JcfEntry(e) ==
  IF Byte(e, 0) = 255 THEN EndOfDir
  ELSE [HalfTracks(e, 9, 0) EXCEPT !.bytes = BigWord(e, 10)]

HsSetup == [dir |-> Setup(1, 0, 1, 1, 1, 8 * SecSize[1]), slots |-> 8 * SecSize[1], first |-> 0,
            range |-> <<1, 16>>, filerange |-> <<1, 16>>, N |-> 1, clears |-> TRUE]
HsEntry(e) ==
  IF Byte(e, 0) = 255 THEN EndOfDir ELSE File(e, Byte(e, 10), Byte(e, 11), Byte(e, 9) * SecSize[1])

P2Setup == [dir |-> Setup(1, 0, 1, 1, 3, 5 * SecSize[1]), slots |-> 5 * SecSize[1], first |-> 0,
            range |-> <<1, 16>>, filerange |-> <<1, 16>>, N |-> 3, clears |-> TRUE]
P2Entry(e) ==
  IF Byte(e, 0) = 255 THEN Skipped ELSE File(e, Byte(e, 11), Byte(e, 12) + 1, Word(e, 14))

OtmSetup == [dir |-> Setup(1, 0, 1, 1, 3, SecSize[3]), slots |-> SecSize[3], first |-> 0,
             range |-> <<1, 5>>, filerange |-> <<1, 5>>, N |-> 3, clears |-> TRUE]
OtmEntry(e) ==
  IF Byte(e, 0) = 255 THEN EndOfDir
  ELSE File(e, Word(e, 14) \div 5, (Word(e, 14) % 5) + 1, Word(e, 12))

(* A file ends where the next one in the directory begins.                 *)
KmSetup == [dir |-> Setup(0, 0, 0, 7, 3, 7 * SecSize[2]), slots |-> 14 * SecSize[1], first |-> 0,
            range |-> <<1, 8>>, filerange |-> <<1, 8>>, N |-> 3, clears |-> FALSE]
KmEntry(e, next) ==
  LET s == Word(e, 11) + 1
  IN  IF Byte(e, 0) = 0 THEN Skipped
      ELSE File(e, s \div 8 + 1, (s % 8) + 1, (Word(next, 11) - s + 1) * SecSize[3])

KgSetup == [dir |-> Setup(1, 0, 1, 1, 3, 4 * SecSize[3]), slots |-> 4 * SecSize[3], first |-> 0,
            range |-> <<1, 16>>, filerange |-> <<1, 5>>, N |-> 3, clears |-> TRUE]
KgEntry(e) ==
  IF Byte(e, 0) = 255 THEN EndOfDir
  ELSE IF Byte(e, 0) = 0 \/ Byte(e, 14) = 255 THEN Skipped
  ELSE File(e, Byte(e, 14), Byte(e, 15), Word(e, 12) - Word(e, 10) + 1)

Ls2Setup == [dir |-> Setup(1, 0, 1, 1, 1, 10 * SecSize[1]), slots |-> 16 * SecSize[1], first |-> 0,
             range |-> <<1, 16>>, filerange |-> <<1, 10>>, N |-> 2, clears |-> TRUE]
Ls2Entry(e) ==
  IF Byte(e, 0) = 255 THEN EndOfDir ELSE File(e, Byte(e, 9), Byte(e, 10), Word(e, 13))

(* A sector number from 0x10 on is one of the other side.                  *)
SmSetup == [dir |-> Setup(1, 0, 1, 1, 2, 4 * SecSize[2]), slots |-> 4 * SecSize[2], first |-> 0,
            range |-> <<1, 8>>, filerange |-> <<1, 15>>, N |-> 2, clears |-> TRUE]
SmEntry(e) ==
  LET side == IF Byte(e, 14) >= 16 THEN 1 ELSE 0
  IN  IF Byte(e, 0) = 255 THEN EndOfDir
      ELSE File(e, Byte(e, 15) * 2 + side, Byte(e, 14) - 16 * side, Byte(e, 13) * SecSize[2])

(* The two disk magazines have a table of tunes, and two files besides.    *)
Fc41Setup == [dir |-> Setup(39, 19, 1, 15, 1, SecSize[1]), slots |-> SecSize[1], first |-> 0,
              range |-> <<1, 16>>, filerange |-> <<1, 16>>, N |-> 1, clears |-> FALSE]
Fc41Entry(e) ==
  IF Byte(e, 0) = 0 THEN EndOfDir ELSE File(e, Byte(e, 0), Byte(e, 1), Byte(e, 2) * SecSize[1])

Fc39Setup == [dir |-> Setup(36, 18, 0, 15, 1, SecSize[1]), slots |-> SecSize[1], first |-> 0,
              range |-> <<1, 16>>, filerange |-> <<1, 16>>, N |-> 1, clears |-> FALSE]
Fc39Entry(e) ==
  IF Byte(e, 0) = 0 THEN EndOfDir ELSE File(e, Byte(e, 0), Byte(e, 1), Byte(e, 2) * SecSize[1])

HareSetup == [dir |-> Setup(1, 0, 1, 1, 1, 8 * SecSize[1]), slots |-> 8 * SecSize[1], first |-> 0,
              range |-> <<1, 16>>, filerange |-> <<1, 16>>, N |-> 1, clears |-> FALSE]
HareEntry(e) ==
  IF Byte(e, 0) = 255 THEN EndOfDir ELSE File(e, Byte(e, 9), Byte(e, 10), Word(e, 13))

SetupOf ==
  CASE tool = "ys3" -> Ys3Setup [] tool = "ys" -> YsSetup [] tool = "xzr" -> XzrSetup
    [] tool = "tel" -> TelSetup [] tool = "cal" -> CalSetup [] tool = "fhm" -> FhmSetup
    [] tool = "sknm" -> SknmSetup [] tool = "lap" -> LapSetup [] tool = "ff" -> FfSetup
    [] tool = "ft" -> FtSetup [] tool = "elf" -> ElfSetup [] tool = "txd" -> TxdSetup
    [] tool = "ish" -> IshSetup [] tool = "jcf" -> JcfSetup [] tool = "hs" -> HsSetup
    [] tool = "p2" -> P2Setup [] tool = "otm" -> OtmSetup [] tool = "km" -> KmSetup
    [] tool = "kg" -> KgSetup [] tool = "ls2" -> Ls2Setup [] tool = "sm" -> SmSetup
    [] tool = "fc41" -> Fc41Setup [] tool = "fc39" -> Fc39Setup [] tool = "hare" -> HareSetup

EntryAt(i) ==
  LET e == Slot(i)
  IN  CASE tool = "ys3" -> Ys3Entry(e) [] tool = "ys" -> YsEntry(e) [] tool = "xzr" -> XzrEntry(e)
        [] tool = "tel" -> TelEntry(e) [] tool = "cal" -> CalEntry(e) [] tool = "fhm" -> FhmEntry(e)
        [] tool = "sknm" -> SknmEntry(e) [] tool = "lap" -> LapEntry(e) [] tool = "ff" -> FfEntry(e)
        [] tool = "ft" -> FtEntry(e) [] tool = "elf" -> ElfEntry(e) [] tool = "txd" -> TxdEntry(e)
        [] tool = "ish" -> IshEntry(e) [] tool = "jcf" -> JcfEntry(e) [] tool = "hs" -> HsEntry(e)
        [] tool = "p2" -> P2Entry(e) [] tool = "otm" -> OtmEntry(e)
        [] tool = "km" -> KmEntry(e, Slot(i + 1))
        [] tool = "kg" -> KgEntry(e) [] tool = "ls2" -> Ls2Entry(e) [] tool = "sm" -> SmEntry(e)
        [] tool = "fc41" -> Fc41Entry(e) [] tool = "fc39" -> Fc39Entry(e) [] tool = "hare" -> HareEntry(e)

Magazine == tool \in {"fc41", "fc39"}
HasHeader == tool \in {"txd", "ish"}

-------------------------------------------------------------------------------
(* The program. *)

At(l) == pc = l /\ ~reading
Goto(l) == pc' = l
Library == UNCHANGED <<reading, address, transfer, buf, ret>>

Init ==
  /\ D88Init
  /\ reading = FALSE
  /\ trk = 0 /\ C = 0 /\ H = 0 /\ R = 1 /\ N = 0
  /\ size = 0 /\ secsize = SecSize[0] /\ want = 0 /\ ret = 0
  /\ dest = [buffer |-> "dir", at |-> 0]
  /\ buf = [dir |-> <<>>, head |-> <<>>, buff |-> <<>>]
  /\ tool \in Tools /\ arg \in (IF tool = "ys" THEN Arguments ELSE {"0"})
  /\ pc = "start" /\ d = 0 /\ fn = 0
  /\ cut = NULL /\ out = NULL /\ dirOf = NULL /\ done = {}

Open ==
  /\ At("start")
  /\ \/ (\E v \in Variants : SetFile(<<tool, v>>)) /\ Goto("select")
     \/ SetFileFails /\ Goto("exit")
  /\ Library /\ UNCHANGED <<tool, arg, d, fn, cut, out, dirOf, done>>

Select ==
  /\ At("select")
  /\ IF Magazine \/ d < GetNumDisk
     THEN SelectDisk(d) /\ Goto("range")
     ELSE UNCHANGED object /\ Goto("exit")
  /\ Library /\ UNCHANGED <<tool, arg, d, fn, cut, out, dirOf, done>>

BadArgument == tool = "ys" /\ arg \notin {"0", "1", "2"}

SetRange ==
  /\ At("range")
  /\ LET r == IF tool = "ys" THEN <<1, 9>> ELSE SetupOf.range
     IN  SetRecordRange(r[1], r[2])
  /\ Goto(IF BadArgument THEN "exit"
          ELSE IF Magazine THEN "driver"
          ELSE IF tool = "hare" THEN "ident" ELSE "dir")
  /\ Library /\ UNCHANGED <<tool, arg, d, fn, cut, out, dirOf, done>>

(* The magazines clear the directory before they read it. *)
ReadDir ==
  /\ At("dir")
  /\ LET s == SetupOf.dir IN StartRead(s.trk, s.C, s.H, s.R, s.N, "dir", 0, s.bytes)
  /\ buf' = IF Magazine THEN [buf EXCEPT !.dir = <<>>] ELSE buf
  /\ Goto("dirread")
  /\ UNCHANGED <<tool, arg, d, fn, cut, out, dirOf, done>>

(* Only the magazines look at what reading the directory returned.         *)
DirRead ==
  /\ At("dirread")
  /\ dirOf' = [disk |-> d, whole |-> ret = SetupOf.dir.bytes]
  /\ fn' = SetupOf.first
  /\ Goto(IF Magazine /\ ret # SetupOf.dir.bytes THEN "exit" ELSE "filerange")
  /\ UNCHANGED <<d88vars, tool, arg, d, cut, out, done>>

FileRange ==
  /\ At("filerange")
  /\ SetRecordRange(SetupOf.filerange[1], SetupOf.filerange[2])
  /\ Goto("slot")
  /\ Library /\ UNCHANGED <<tool, arg, d, fn, cut, out, dirOf, done>>

Copy(e, next) ==
  [name |-> e.name, trk |-> e.trk, C |-> e.trk \div 2, H |-> e.trk % 2, R |-> e.R,
   ofs |-> e.ofs, bytes |-> e.bytes, left |-> e.bytes, short |-> FALSE,
   next |-> next, says |-> e.says]

Listed ==
  /\ At("slot")
  /\ fn < SetupOf.slots
  /\ LET e == EntryAt(fn)
     IN  \/ /\ e.kind = "skip"
            /\ UNCHANGED <<pc, cut>>
         \/ /\ e.kind = "file"
            /\ cut' = Copy(e, "slot")
            /\ Goto(IF HasHeader THEN "head" ELSE "cut")
  /\ fn' = fn + 1
  /\ UNCHANGED <<d88vars, tool, arg, d, out, dirOf, done>>

(* Mutant: the end of a directory that is full does not count. *)
EndOfDiskUnmarked ==
  /\ At("slot")
  /\ EntryAt(fn).kind = "end"
  /\ d' = d + 1
  /\ Goto(IF Magazine THEN "exit" ELSE "select")
  /\ UNCHANGED <<d88vars, tool, arg, fn, cut, out, dirOf, done>>

EndOfDisk ==
  /\ At("slot")
  /\ fn >= SetupOf.slots \/ EntryAt(fn).kind = "end"
  /\ d' = d + 1
  /\ Goto(IF Magazine THEN "exit" ELSE "select")
  /\ UNCHANGED <<d88vars, tool, arg, fn, cut, out, dirOf, done>>

(* The header of an FM-7 file has its length and decides where it starts.  *)
ReadHead ==
  /\ At("head")
  /\ StartRead(cut.trk, cut.C, cut.H, cut.R, 1, "head", 0, SecSize[1])
  /\ Goto("headread")
  /\ UNCHANGED <<buf, tool, arg, d, fn, cut, out, dirOf, done>>

HeadRead ==
  /\ At("headread")
  /\ LET h == Content(Cell("head", 1))
         long == tool = "txd" /\ Byte(h, 0) # 0
         len == BigWord(h, IF long THEN 2 ELSE 1)
         bytes == IF len = 65535 THEN SecSize[1] ELSE len
     IN  cut' = [cut EXCEPT !.bytes = bytes, !.left = bytes, !.ofs = IF long THEN 2 ELSE 1,
                            !.says = h.says]
  /\ Goto("cut")
  /\ UNCHANGED <<d88vars, tool, arg, d, fn, out, dirOf, done>>

-------------------------------------------------------------------------------
(* fcut: a file is read into the buffer and written from there.            *)

(* Mutant: the buffer is never cleared. *)
StartCutUncleared ==
  /\ At("cut")
  /\ UNCHANGED buf
  /\ IF tool \in {"p2", "otm"} /\ cut.bytes = 0
     THEN UNCHANGED <<object, reading, address, transfer, ret>> /\ Goto("write")
     ELSE /\ StartRead(cut.trk, cut.C, cut.H, cut.R, SetupOf.N, "buff", 0, cut.bytes + cut.ofs)
          /\ Goto("cutting")
  /\ UNCHANGED <<tool, arg, d, fn, cut, out, dirOf, done>>

StartCut ==
  /\ At("cut")
  /\ buf' = IF SetupOf.clears THEN [buf EXCEPT !.buff = <<>>] ELSE buf
  /\ IF tool \in {"p2", "otm"} /\ cut.bytes = 0
     THEN UNCHANGED <<object, reading, address, transfer, ret>> /\ Goto("write")
     ELSE /\ StartRead(cut.trk, cut.C, cut.H, cut.R, SetupOf.N, "buff", 0, cut.bytes + cut.ofs)
          /\ Goto("cutting")
  /\ UNCHANGED <<tool, arg, d, fn, cut, out, dirOf, done>>

NoFile ==
  /\ At("cutting")
  /\ ret = 0
  /\ Goto(cut.next)
  /\ UNCHANGED <<d88vars, tool, arg, d, fn, cut, out, dirOf, done>>

(* Mutant: the record goes on counting on the next track.                  *)
NextTrackCountsOn ==
  /\ At("cutting") /\ tool = "p2"
  /\ ret > 0 /\ ret < cut.left
  /\ cut' = [cut EXCEPT !.left = @ - ret, !.trk = @ + 1,
                        !.C = (cut.trk + 1) \div 2, !.H = (cut.trk + 1) % 2, !.R = R]
  /\ Goto("again")
  /\ UNCHANGED <<d88vars, tool, arg, d, fn, out, dirOf, done>>

(* Pure 2 looks for what is missing at the start of the next track.        *)
NextTrack ==
  /\ At("cutting") /\ tool = "p2"
  /\ ret > 0 /\ ret < cut.left
  /\ cut' = [cut EXCEPT !.left = @ - ret, !.trk = @ + 1,
                        !.C = (cut.trk + 1) \div 2, !.H = (cut.trk + 1) % 2, !.R = 1]
  /\ Goto("again")
  /\ UNCHANGED <<d88vars, tool, arg, d, fn, out, dirOf, done>>

Again ==
  /\ At("again")
  /\ StartRead(cut.trk, cut.C, cut.H, cut.R, SetupOf.N, "buff", cut.bytes - cut.left, cut.left)
  /\ Goto("cutting")
  /\ UNCHANGED <<buf, tool, arg, d, fn, cut, out, dirOf, done>>

(* On Otome Party's disks the directory is in the way: a file that leaves  *)
(* cylinder 0 goes on at track 2.                                          *)
Beyond == cut.bytes - (6 - cut.R) * SecSize[3]

Cross ==
  /\ At("cutting") /\ tool = "otm"
  /\ ret > 0 /\ cut.C = 0 /\ Beyond > 0
  /\ StartRead(2, 1, cut.H, 1, SetupOf.N, "buff", (6 - cut.R) * SecSize[3], Beyond)
  /\ Goto("crossing")
  /\ UNCHANGED <<buf, tool, arg, d, fn, cut, out, dirOf, done>>

HasRead ==
  /\ \/ /\ At("cutting")
        /\ ret > 0
        /\ ~(tool = "p2" /\ ret < cut.left)
        /\ ~(tool = "otm" /\ cut.C = 0 /\ Beyond > 0)
     \/ At("crossing")
  /\ cut' = [cut EXCEPT !.short = ret < want]
  /\ Goto("write")
  /\ UNCHANGED <<d88vars, tool, arg, d, fn, out, dirOf, done>>

Outside == <<"outside">>  \* a byte from before the buffer

(* Hoshi no Suna's files begin with their first and last address; a file   *)
(* whose last is below its first is written from before the buffer.        *)
Window ==
  IF tool # "hs" THEN [ofs |-> cut.ofs, bytes |-> cut.bytes]
  ELSE LET h == Content(Cell("buff", 1))
           len == IF Word(h, 2) # 0 THEN Word(h, 2) - Word(h, 0) ELSE cut.bytes
       IN  IF len < 0 THEN [ofs |-> -1, bytes |-> cut.bytes] ELSE [ofs |-> 1, bytes |-> len]

Write ==
  /\ At("write")
  /\ out' = [name |-> cut.name, disk |-> d, short |-> cut.short, says |-> cut.says,
             whole |-> dirOf # NULL /\ dirOf.whole,
             bytes |-> [i \in 1 .. Window.bytes |->
                          IF Window.ofs + i < 1 THEN Outside ELSE Cell("buff", Window.ofs + i)]]
  /\ done' = IF cut.short THEN done ELSE done \cup {<<d, cut.name>>}
  /\ Goto(cut.next)
  /\ UNCHANGED <<d88vars, tool, arg, d, fn, cut, dirOf>>

(* Nobody looks whether the file could be created.                         *)
CannotCreate ==
  /\ At("write") \/ At("cipher")
  /\ Goto("crash")
  /\ UNCHANGED <<d88vars, tool, arg, d, fn, cut, out, dirOf, done>>

-------------------------------------------------------------------------------
(* The two files of the magazines that are not in the table.               *)

Driver41 == [name |-> "PMD", trk |-> 38, R |-> 1, ofs |-> 0, bytes |-> 64, says |-> NULL]
Driver39 == [name |-> "PMD", trk |-> 35, R |-> 1, ofs |-> 0, bytes |-> 64, says |-> NULL]
Samples41 == [name |-> "ADPCM", trk |-> 1, R |-> 1, ofs |-> 0, bytes |-> 640, says |-> NULL]
Samples39 == [name |-> "ADPCM", trk |-> 1, R |-> 1, ofs |-> 0, bytes |-> 608, says |-> NULL]

CutDriver ==
  /\ At("driver")
  /\ cut' = Copy(IF tool = "fc41" THEN Driver41 ELSE Driver39, "samples")
  /\ Goto("cut")
  /\ UNCHANGED <<d88vars, tool, arg, d, fn, out, dirOf, done>>

CutSamples ==
  /\ At("samples")
  /\ cut' = Copy(IF tool = "fc41" THEN Samples41 ELSE Samples39, "dir")
  /\ Goto("cut")
  /\ UNCHANGED <<d88vars, tool, arg, d, fn, out, dirOf, done>>

(* Hare no Chi Oosawagi's disk A is known by its first sector, and its     *)
(* version by a word of the program; its driver is enciphered with a key   *)
(* that belongs to the version.                                            *)
ReadIdent ==
  /\ At("ident")
  /\ StartRead(0, 0, 0, 1, 1, "buff", 0, SecSize[1])
  /\ Goto("identread")
  /\ UNCHANGED <<buf, tool, arg, d, fn, cut, out, dirOf, done>>

IdentRead ==
  /\ At("identread")
  /\ IF Content(Cell("buff", 2)).name = "HARE88:A"
     THEN StartRead(0, 0, 0, 3, 1, "buff", 0, 13 * SecSize[1]) /\ Goto("version")
     ELSE UNCHANGED <<object, reading, address, transfer, ret>> /\ Goto("dir")
  /\ UNCHANGED <<buf, tool, arg, d, fn, cut, out, dirOf, done>>

Key(word) == CASE word = 25189 -> 59883 [] word = 10760 -> 7387

VersionRead ==
  /\ At("version")
  /\ LET word == Word(Content(Cell("buff", 3)), 23)
     IN  IF word \in {25189, 10760}
         THEN /\ cut' = [key |-> Key(word)]
              /\ StartRead(76, 38, 0, 1, 1, "buff", 0, 36 * SecSize[1])
              /\ Goto("cipher")
         ELSE UNCHANGED <<object, reading, address, transfer, ret, cut>> /\ Goto("exit")
  /\ UNCHANGED <<buf, tool, arg, d, fn, out, dirOf, done>>

(* The buffer is deciphered in place, whether or not it was filled. *)
Deciphered(i) == <<-1, cut.key, i>> \o Cell("buff", i)

SaveDriver ==
  /\ At("cipher")
  /\ buf' = [buf EXCEPT !.buff = [i \in 1 .. (IF Len(@) > 72 THEN Len(@) ELSE 72) |->
                                   IF i <= 72 THEN Deciphered(i) ELSE @[i]]]
  /\ out' = [name |-> "driver.bin", disk |-> d, short |-> ret < want, says |-> NULL, whole |-> FALSE,
             bytes |-> [i \in 1 .. 24 |-> Deciphered(14 + i)]]
  /\ Goto("dir")
  /\ UNCHANGED <<object, reading, address, transfer, ret, tool, arg, d, fn, cut, dirOf, done>>

Next ==
  \/ Open \/ Select \/ SetRange \/ ReadDir \/ DirRead \/ FileRange
  \/ Listed \/ EndOfDisk \/ ReadHead \/ HeadRead
  \/ StartCut \/ NoFile \/ NextTrack \/ Again \/ Cross \/ HasRead \/ Write \/ CannotCreate
  \/ CutDriver \/ CutSamples \/ ReadIdent \/ IdentRead \/ VersionRead \/ SaveDriver
  \/ ReadDATA /\ UNCHANGED toolvars

(* One program that nothing waits for runs until it returns.               *)
Spec == Init /\ [][Next]_vars /\ WF_vars(Next)

-------------------------------------------------------------------------------
(* Properties. *)

(* The directory and the file being copied stay within the static buffers  *)
(* they are read into, whatever the sector size of the track: ReadDATA is  *)
(* given sizes that are no multiple of it.                                 *)
BuffersHold ==
  /\ pc \in {"start", "select", "range", "dir", "dirread", "filerange", "slot", "head",
             "headread", "cut", "cutting", "again", "crossing", "write", "driver", "samples",
             "ident", "identread", "version", "cipher", "exit", "crash"}
  /\ d \in 0 .. MAX_DISK /\ fn \in Nat
  /\ pc \in {"dirread", "filerange", "slot"} => Len(buf.dir) <= SetupOf.dir.bytes
  /\ pc \in {"cutting", "again"} /\ cut.bytes # 0 /\ tool \notin {"hare"}
       => \/ Len(buf.buff) <= cut.bytes + cut.ofs
          \/ ~SetupOf.clears

(* The bytes of a file are where its entry says, counted in sectors along  *)
(* the disk, when the disk has the file's sectors and the directory is the *)
(* disk's own: through each format's arithmetic, the reads across tracks,  *)
(* the header that is cut off and the length that is only in the header.   *)
CutsAsListed ==
  (out # NULL /\ out.says # NULL /\ ~out.short /\ out.whole) =>
    out.bytes = [i \in 1 .. Len(out.says) |-> <<out.disk>> \o out.says[i]]

(* A byte that is not of the file gets into a copy only by a read that     *)
(* fell short, and only where an earlier read left it in the buffer: an    *)
(* extractor that clears the buffer writes zeroes. The exception is a file *)
(* of Otome Party that passes the directory: the first read fetches the    *)
(* directory and what the second does not replace is written as the file.  *)
NothingForeign ==
  (out # NULL /\ out.says # NULL /\ out.whole) =>
    \A i \in DOMAIN out.bytes :
      \/ i <= Len(out.says) /\ out.bytes[i] = <<out.disk>> \o out.says[i]
      \/ out.short /\ out.bytes[i] = Zero
      \/ out.short /\ ~SetupOf.clears
      \/ out.short /\ tool = "otm" /\ out.bytes[i][2] = SetupOf.dir.trk

(* When the program ends after a file of disks with nothing missing, it    *)
(* has copied every file of every disk (of the first, for the magazines).  *)
CopiesEverything ==
  (pc = "exit" /\ m_fp # NULL /\ ~BadArgument) =>
    \A f \in Promise[m_fp] : (Magazine => f[1] = 0) => f \in done
================================================================================
