------------------------------- MODULE D88Client -------------------------------
(***************************************************************************)
(* The disk library under any sequence of calls a program may make: files  *)
(* opened, closed and opened again, disks selected that are there and that *)
(* are not, records ranges set, tracks read.                               *)
(***************************************************************************)
EXTENDS D88

CONSTANTS
  Selections,  \* disk numbers a caller asks for
  Ranges,      \* record ranges <<first, last>>
  Reads        \* starts and lengths: [trk, C, H, R, N, want]

ASSUME ClientAssumption ==
  /\ Selections \subseteq 0 .. MAX_DISK - 1
  /\ Ranges \subseteq Nat \X Nat
  /\ Reads \subseteq [trk : Nat, C : Nat, H : {0, 1}, R : Nat, N : N_Codes, want : Nat]

(* What a D88 file holds of each of its disks: the size field of the header,  *)
(* which may be wrong, and by track the place the header gives and the        *)
(* sectors that follow there, each with the address and the size its own      *)
(* header claims and the bytes the file still has of it.                      *)
SectorHeaders == [id : Nat \X Nat \X Nat \X Nat, size : Nat, have : Nat]
Disks == [size : Nat,
          trk : [0 .. TRACKS - 1 -> [at : Nat, secs : Seq(SectorHeaders)]]]

ASSUME ImageAssumption ==
  /\ NULL \notin Int
  /\ \A f \in DOMAIN Image : Image[f] \in Seq(Disks)

(* The sectors of a track as a formatted disk has them: at least one where *)
(* the header gives a place, no more than ReadID lists in the 64 bytes a   *)
(* caller gives it, and none empty. (Of a track without sectors ReadID     *)
(* would list what lies behind it, which D88 does not model.)              *)
FewSectors ==
  \A f \in DOMAIN Image : \A d \in DOMAIN Image[f] : \A t \in 0 .. TRACKS - 1 :
    /\ Image[f][d].trk[t].at # 0 => Image[f][d].trk[t].secs # <<>>
    /\ Len(Image[f][d].trk[t].secs) <= 16
    /\ \A k \in DOMAIN Image[f][d].trk[t].secs : Image[f][d].trk[t].secs[k].size # 0

(* The file has every byte its sector headers promise. *)
WholeSectors ==
  \A f \in DOMAIN Image : \A d \in DOMAIN Image[f] : \A t \in 0 .. TRACKS - 1 :
    \A k \in DOMAIN Image[f][d].trk[t].secs :
      Image[f][d].trk[t].secs[k].have >= Image[f][d].trk[t].secs[k].size

VARIABLE from  \* history: the read that was started last

vars == <<d88vars, from>>

(* A program selects a disk in the file it has opened before it reads; one *)
(* past the last is excluded, for its table of tracks is not one.          *)
Usable == m_fp = NULL \/ sel = -1 \/ sel \in 0 .. m_numdisk - 1

Init ==
  /\ D88Init
  /\ reading = FALSE
  /\ trk = 0 /\ C = 0 /\ H = 0 /\ R = 1 /\ N = 0
  /\ size = 0 /\ secsize = SecSize[0] /\ want = 0
  /\ dest = [buffer |-> "caller", at |-> 0]
  /\ buf = [caller |-> <<>>]
  /\ ret = 0
  /\ from = [trk |-> 0, C |-> 0, H |-> 0, R |-> 1, N |-> 0, want |-> 0]

Configure ==
  /\ ~reading
  /\ \/ \E f \in DOMAIN Image : SetFile(f)
     \/ SetFileFails
     \/ Close
     \/ \E n \in Selections : SelectDisk(n)
     \/ \E r \in Ranges : SetRecordRange(r[1], r[2])
  /\ UNCHANGED <<reading, address, transfer, buf, ret, from>>

Ask ==
  /\ Usable
  /\ \E r \in Reads :
       /\ StartRead(r.trk, r.C, r.H, r.R, r.N, "caller", 0, r.want)
       /\ from' = r
  /\ UNCHANGED buf

Next ==
  \/ Configure
  \/ Ask
  \/ ReadSector /\ UNCHANGED from
  \/ EndRead /\ UNCHANGED from

Spec == Init /\ [][Next]_vars

-------------------------------------------------------------------------------
(* The fields and locals have the types of the class; ReadDATA never has   *)
(* more than it was asked for (the last sector is cut to what is left).    *)
TypeOK ==
  /\ m_fp \in DOMAIN Image \cup {NULL}
  /\ m_numdisk \in 0 .. MAX_DISK
  /\ m_curdisk \in -1 .. MAX_DISK - 1
  /\ m_minrec \in Nat /\ m_maxrec \in Nat
  /\ m_disk_offset \in [0 .. MAX_DISK - 1 -> Nat]
  /\ m_curdisk_offset \in Nat \cup {-1}
  /\ m_disksize \in Nat
  /\ m_trk \in [0 .. TRACKS - 1 -> Nat]
  /\ reading \in BOOLEAN
  /\ trk \in Nat /\ C \in Nat /\ H \in {0, 1} /\ R \in Nat /\ N \in N_Codes
  /\ size \in Nat /\ secsize \in Nat /\ want \in Nat /\ ret \in Nat
  /\ from \in Reads \cup {[trk |-> 0, C |-> 0, H |-> 0, R |-> 1, N |-> 0, want |-> 0]}
  /\ size <= want

PerTrack == m_maxrec - m_minrec + 1

Physical(a) ==
  /\ a.C = a.trk \div 2 /\ a.H = a.trk % 2
  /\ a.R \in m_minrec .. m_maxrec

(* A read that starts at a track's own cylinder and head is at a track's   *)
(* own cylinder and head for as long as it runs, inside the record range   *)
(* (the three counters of ReadDATA are kept by hand and never compared).   *)
StaysPhysical == reading /\ Physical(from) => Physical([trk |-> trk, C |-> C, H |-> H, R |-> R])

(* The sectors of a read are consecutive on the disk: the byte j of the    *)
(* buffer is the byte its number says of the sector that follows the start *)
(* by its number, in the disk that was selected, whatever tracks and heads *)
(* the read crossed and whatever was read or selected before.              *)
SectorOf(place) ==
  LET t == place \div PerTrack
  IN  <<t \div 2, t % 2, m_minrec + (place % PerTrack), from.N>>

ReadsTheLine ==
  reading /\ Physical(from) =>
    \A j \in 1 .. size :
      LET place == from.trk * PerTrack + from.R - m_minrec + (j - 1) \div SecSize[from.N]
          byte == buf.caller[j]
      IN  /\ byte # Kept /\ byte # Zero
          /\ byte[1] = m_disk_offset[sel]
          /\ byte[2] = place \div PerTrack
          /\ Sectors(byte[2])[byte[3]].id = SectorOf(place)
          /\ byte[4] = ((j - 1) % SecSize[from.N]) + 1

(* With no file open, or after a choice of a disk that was refused, a read *)
(* finds nothing, although the table of tracks and the last disk's offset  *)
(* may still be those of an earlier disk.                                  *)
NothingWithoutADisk == reading /\ (m_fp = NULL \/ sel = -1) => size = 0

(* In a file whose size fields are right every disk is found, each at its  *)
(* own offset, as far as MAX_DISK goes, also when another file was open    *)
(* before.                                                                 *)
FindsTheDisks ==
  m_fp # NULL /\ (\A d \in DOMAIN Image[m_fp] : Image[m_fp][d].size # 0) =>
    /\ GetNumDisk = Smaller(Len(Image[m_fp]), MAX_DISK)
    /\ \A i \in 0 .. GetNumDisk - 1 : m_disk_offset[i] = i

(* Of a disk that was chosen, what ReadID lists of a track is what         *)
(* ReadDATA1 finds there: the two walk the same headers by different       *)
(* loops.                                                                  *)
ListsWhatItReads ==
  m_fp # NULL /\ Usable /\ sel # -1 /\ ~reading =>
    \A t \in 0 .. TRACKS - 1 :
      LET ids == ReadID(t, 64)
      IN  \A c \in 0 .. 1, h \in 0 .. 1, r \in 1 .. 3, n \in {0, 1} :
            ReadDATA1(t, <<c, h, r, n>>, SecSize[n]) # <<>>
              <=> \E k \in DOMAIN ids : ids[k] = <<c, h, r, n>>

(* The number GetCurrentDisk answers with is that of the disk selected     *)
(* now, as the comments beside it and beside the field say.                *)
CurrentIsSelected == m_fp # NULL /\ sel \in 0 .. m_numdisk - 1 => GetCurrentDisk = sel

(* What the library answers is true of the file that is open, after any    *)
(* sequence of calls and whatever the tables still hold of an earlier file *)
(* or disk.                                                                *)
AnswersAsTheFileIs == NothingWithoutADisk /\ FindsTheDisks /\ ListsWhatItReads

(* The line of sectors under the counters.                                 *)
Line == INSTANCE LinearRead WITH
  running <- reading,
  place <- IF reading THEN trk * PerTrack + R - m_minrec ELSE 0,
  wanted <- want,
  taken <- size

(* ReadDATA implements a walk along that line: every sector it reads is    *)
(* the next one, and it stops with what was asked for or at one it cannot  *)
(* read, with the counters nowhere out of step.                            *)
ReadsLinearly == Line!Spec
================================================================================
