---------------------------------- MODULE D88 ----------------------------------
(***************************************************************************)
(* The library the disk extractors share: a file of up to MAX_DISK disk    *)
(* images, one of which is selected and read by track and sector ID.       *)
(*                                                                         *)
(* Abstracted: a place in the file is counted in disks, so an image's size *)
(* field moves on by one disk, or by none when it is zero; a byte is the   *)
(* place it was read from; names and types of disks, which no extractor    *)
(* looks at, are left out.                                                 *)
(***************************************************************************)
EXTENDS Integers, Sequences

CONSTANTS
  NULL,       \* no file
  Image,      \* the disks of each file that can be opened
  MAX_DISK,   \* 64 in the code
  TRACKS,     \* 164 in the code
  SecSize     \* bytes of a sector of code N: 0x80 << N

N_Codes == 0 .. 5

ASSUME D88Assumption ==
  /\ NULL \notin DOMAIN Image
  /\ MAX_DISK \in Nat \ {0}
  /\ TRACKS \in Nat \ {0}
  /\ SecSize \in [N_Codes -> Nat \ {0}]

VARIABLES
  m_fp, m_numdisk, m_curdisk, m_minrec, m_maxrec,
  m_disk_offset, m_curdisk_offset, m_disksize, m_trk,
  reading,             \* inside ReadDATA
  trk, C, H, R, N,     \* its locals: the address of the next sector
  size, secsize, want, \* bytes read, bytes of a sector, bytes asked for
  dest, buf,           \* where in the caller's buffers they go, the buffers
  ret,                 \* what the last ReadDATA returned
  sel                  \* history: the disk last selected in the open file, -1
                       \* when the choice was refused, NULL when none was made

object == <<m_fp, m_numdisk, m_curdisk, m_minrec, m_maxrec,
            m_disk_offset, m_curdisk_offset, m_disksize, m_trk, sel>>
address == <<trk, C, H, R, N>>
transfer == <<size, secsize, want, dest>>
d88vars == <<object, reading, address, transfer, buf, ret>>

Kept == <<>>    \* a byte fread did not reach: the buffer keeps what it had
Zero == <<0>>   \* a byte of a static buffer nothing was read into

Smaller(a, b) == IF a <= b THEN a ELSE b

-------------------------------------------------------------------------------
(* The object. *)

D88Init ==
  /\ m_fp = NULL /\ m_numdisk = 0 /\ m_curdisk = -1
  /\ m_minrec = 1 /\ m_maxrec = 16
  /\ m_disk_offset = [i \in 0 .. MAX_DISK - 1 |-> 0]
  /\ m_curdisk_offset = -1 /\ m_disksize = 0
  /\ m_trk = [t \in 0 .. TRACKS - 1 |-> 0]
  /\ sel = NULL

(* The place of each disk as the walk over the size fields finds it.       *)
Offset(f) ==
  LET at[i \in Nat] ==
        IF i = 0 THEN 0
        ELSE IF at[i-1] < Len(Image[f]) /\ Image[f][at[i-1] + 1].size # 0
             THEN at[i-1] + 1 ELSE at[i-1]
  IN  at

NumDisks(f) ==
  CHOOSE n \in 0 .. MAX_DISK :
    /\ n = MAX_DISK \/ Offset(f)[n] >= Len(Image[f])
    /\ \A i \in 0 .. n - 1 : Offset(f)[i] < Len(Image[f])

(* Mutant: the offset is stored after it was moved on.                     *)
SetFileMovesFirst(f) ==
  /\ m_fp' = f
  /\ m_numdisk' = NumDisks(f)
  /\ m_disk_offset' = [i \in 0 .. MAX_DISK - 1 |->
                         IF i <= NumDisks(f) THEN Offset(f)[i + 1] ELSE m_disk_offset[i]]
  /\ sel' = NULL
  /\ UNCHANGED <<m_curdisk, m_minrec, m_maxrec, m_curdisk_offset, m_disksize, m_trk>>

(* Opening a file leaves the selection, the table of tracks and an earlier *)
(* file as they are.                                                       *)
SetFile(f) ==
  /\ m_fp' = f
  /\ m_numdisk' = NumDisks(f)
  /\ m_disk_offset' = [i \in 0 .. MAX_DISK - 1 |->
                         IF i <= NumDisks(f) THEN Offset(f)[i] ELSE m_disk_offset[i]]
  /\ sel' = NULL
  /\ UNCHANGED <<m_curdisk, m_minrec, m_maxrec, m_curdisk_offset, m_disksize, m_trk>>

SetFileFails ==
  /\ m_fp' = NULL
  /\ sel' = NULL
  /\ UNCHANGED <<m_numdisk, m_curdisk, m_minrec, m_maxrec, m_disk_offset,
                 m_curdisk_offset, m_disksize, m_trk>>

Close ==
  /\ m_fp # NULL
  /\ m_fp' = NULL /\ m_numdisk' = 0 /\ m_curdisk' = -1
  /\ sel' = NULL
  /\ UNCHANGED <<m_minrec, m_maxrec, m_disk_offset, m_curdisk_offset, m_disksize, m_trk>>

SetRecordRange(min, max) ==
  /\ m_minrec' = min /\ m_maxrec' = max
  /\ UNCHANGED <<m_fp, m_numdisk, m_curdisk, m_disk_offset, m_curdisk_offset,
                 m_disksize, m_trk, sel>>

GetNumDisk == m_numdisk
GetCurrentDisk == m_curdisk

(* The header of a disk that is there; past the last one the buffer the    *)
(* header was to be read into holds whatever it held.                      *)
Header(f, place) ==
  IF place < Len(Image[f])
  THEN {[size |-> Image[f][place + 1].size,
         trk |-> [t \in 0 .. TRACKS - 1 |-> Image[f][place + 1].trk[t].at]]}
  ELSE {[size |-> s, trk |-> [t \in 0 .. TRACKS - 1 |-> at]] : s \in {0, 1}, at \in {0, 1}}

(* Mutant: the number is looked at before the last disk is let go.         *)
DeselectedLate ==
  /\ sel' = -1
  /\ UNCHANGED <<m_curdisk_offset, m_disksize, m_trk>>

Deselected ==
  /\ m_curdisk_offset' = -1
  /\ m_disksize' = 0
  /\ sel' = -1
  /\ UNCHANGED m_trk

SelectDisk(n) ==
  /\ IF m_fp = NULL THEN UNCHANGED <<m_curdisk, m_curdisk_offset, m_disksize, m_trk, sel>>
     ELSE /\ m_curdisk' = -1
          /\ IF n > m_numdisk THEN Deselected
             ELSE /\ m_curdisk_offset' = m_disk_offset[n]
                  /\ \E h \in Header(m_fp, m_disk_offset[n]) :
                       m_disksize' = h.size /\ m_trk' = h.trk
                  /\ sel' = n
  /\ UNCHANGED <<m_fp, m_numdisk, m_minrec, m_maxrec, m_disk_offset>>

-------------------------------------------------------------------------------
(* Reading. *)

Sectors(t) == Image[m_fp][m_curdisk_offset + 1].trk[t].secs

TrackReads(t) ==
  /\ m_fp # NULL
  /\ t < TRACKS /\ m_trk[t] # 0 /\ m_trk[t] <= m_disksize

(* Mutant: the scan stops before the last sector.                          *)
MatchingShort(t, id) ==
  {k \in DOMAIN Sectors(t) : Sectors(t)[k].id = id /\ k < Len(Sectors(t))}

Matching(t, id) == {k \in DOMAIN Sectors(t) : Sectors(t)[k].id = id}

(* The bytes of the first sector of the track with this ID, no more than   *)
(* were asked for, and none when there is no such sector.                  *)
ReadDATA1(t, id, bytes) ==
  IF ~TrackReads(t) THEN <<>>
  ELSE IF Matching(t, id) = {} THEN <<>>
  ELSE LET k == CHOOSE k \in Matching(t, id) : \A j \in Matching(t, id) : k <= j
           s == Sectors(t)[k]
       IN  [i \in 1 .. Smaller(bytes, s.size) |->
              IF i <= s.have THEN <<m_curdisk_offset, t, k, i>> ELSE Kept]

(* What the IDs of a track that has sectors are read as. *)
ReadID(t, bytes) ==
  IF ~TrackReads(t) THEN <<>>
  ELSE [k \in 1 .. Smaller((bytes + 3) \div 4, Len(Sectors(t))) |-> Sectors(t)[k].id]

Written(old, at, new) ==
  [i \in 1 .. (IF at + Len(new) > Len(old) THEN at + Len(new) ELSE Len(old)) |->
     IF i \in at + 1 .. at + Len(new) /\ new[i - at] # Kept THEN new[i - at]
     ELSE IF i <= Len(old) THEN old[i] ELSE Zero]

(* A call of ReadDATA for some bytes, into a buffer from one of its places. *)
StartRead(t, c, h, r, n, buffer, at, bytes) ==
  /\ ~reading /\ reading' = TRUE
  /\ trk' = t /\ C' = c /\ H' = h /\ R' = r /\ N' = n
  /\ size' = 0 /\ secsize' = SecSize[n]
  /\ want' = bytes /\ dest' = [buffer |-> buffer, at |-> at]
  /\ UNCHANGED <<object, ret>>

(* Mutant: the record goes on counting on the next track.                  *)
NextSectorCountsOn ==
  IF R = m_maxrec
  THEN /\ trk' = trk + 1
       /\ IF H = 0 THEN H' = 1 /\ C' = C ELSE H' = 0 /\ C' = C + 1
       /\ R' = R + 1
  ELSE R' = R + 1 /\ UNCHANGED <<trk, C, H>>

(* The sector after this one: the next record, or the first record of the  *)
(* other side or of the next cylinder.                                     *)
NextSector ==
  IF R = m_maxrec
  THEN /\ trk' = trk + 1
       /\ IF H = 0 THEN H' = 1 /\ C' = C ELSE H' = 0 /\ C' = C + 1
       /\ R' = m_minrec
  ELSE R' = R + 1 /\ UNCHANGED <<trk, C, H>>

(* Mutants: the last sector is not cut; the buffer pointer stays.          *)
ReadSectorUncut ==
  /\ reading /\ size < want
  /\ LET got == ReadDATA1(trk, <<C, H, R, N>>, secsize)
     IN  /\ buf' = [buf EXCEPT ![dest.buffer] = Written(@, dest.at + size, got)]
         /\ IF Len(got) < secsize
            THEN /\ reading' = FALSE /\ ret' = size
                 /\ UNCHANGED <<trk, C, H, R, size>>
            ELSE /\ size' = size + secsize
                 /\ NextSector
                 /\ UNCHANGED <<reading, ret>>
  /\ UNCHANGED <<object, N, want, dest, secsize>>

ReadSectorInPlace ==
  /\ reading /\ size < want
  /\ LET bytes == Smaller(secsize, want - size)
         got == ReadDATA1(trk, <<C, H, R, N>>, bytes)
     IN  /\ secsize' = bytes
         /\ buf' = [buf EXCEPT ![dest.buffer] = Written(@, dest.at, got)]
         /\ IF Len(got) < bytes
            THEN /\ reading' = FALSE /\ ret' = size
                 /\ UNCHANGED <<trk, C, H, R, size>>
            ELSE /\ size' = size + bytes
                 /\ NextSector
                 /\ UNCHANGED <<reading, ret>>
  /\ UNCHANGED <<object, N, want, dest>>

ReadSector ==
  /\ reading /\ size < want
  /\ LET bytes == Smaller(secsize, want - size)
         got == ReadDATA1(trk, <<C, H, R, N>>, bytes)
     IN  /\ secsize' = bytes
         /\ buf' = [buf EXCEPT ![dest.buffer] = Written(@, dest.at + size, got)]
         /\ IF Len(got) < bytes
            THEN /\ reading' = FALSE /\ ret' = size
                 /\ UNCHANGED <<trk, C, H, R, size>>
            ELSE /\ size' = size + bytes
                 /\ NextSector
                 /\ UNCHANGED <<reading, ret>>
  /\ UNCHANGED <<object, N, want, dest>>

EndRead ==
  /\ reading /\ size >= want
  /\ reading' = FALSE /\ ret' = size
  /\ UNCHANGED <<object, address, transfer, buf>>

ReadDATA == ReadSector \/ EndRead
================================================================================
