------------------------------- MODULE D88Proofs -------------------------------
(***************************************************************************)
(* The disk library under any sequence of calls, for every set of files,   *)
(* record ranges and reads:                                                *)
(*   - the walk of ReadDATA over tracks, heads and records is a walk along *)
(*     the line of sectors;                                                *)
(*   - the walk over the size fields finds the disks that are there;       *)
(*   - what the object still holds of an earlier file or disk never shows; *)
(*   - the bytes in the caller's buffer are those of the sectors in line.  *)
(***************************************************************************)
EXTENDS D88Client, NaturalsInduction, WellFoundedInduction, TLAPS

(* The types of what the walk uses. *)
WalkTypes ==
  /\ m_minrec \in Nat /\ m_maxrec \in Nat
  /\ reading \in BOOLEAN
  /\ trk \in Nat /\ C \in Nat /\ H \in {0, 1} /\ R \in Nat
  /\ size \in Nat /\ secsize \in Nat \ {0} /\ want \in Nat
  /\ size <= want
  /\ from \in [trk : Nat, C : Nat, H : {0, 1}, R : Nat, N : N_Codes, want : Nat]

WalkInv == WalkTypes /\ StaysPhysical

(* The last sector is cut to what is left to read, and is never empty.     *)
LEMMA CutToWhatIsLeft ==
  ASSUME NEW a \in Nat \ {0}, NEW w \in Nat, NEW s \in Nat, s < w
  PROVE  /\ Smaller(a, w - s) \in Nat \ {0}
         /\ s + Smaller(a, w - s) <= w
BY DEF Smaller

(* One sector further is one place further on the line.                    *)
LEMMA NextIsOneFurther ==
  ASSUME WalkTypes, NextSector, UNCHANGED <<m_minrec, m_maxrec>>
  PROVE  trk' * PerTrack + R' - m_minrec = (trk * PerTrack + R - m_minrec) + 1
<1> DEFINE per == m_maxrec - m_minrec + 1
<1>1. per \in Int /\ PerTrack = per
  BY DEF WalkTypes, PerTrack
<1>2. CASE R = m_maxrec
  <2>1. trk' = trk + 1 /\ R' = m_minrec
    BY <1>2 DEF NextSector
  <2>2. (trk + 1) * per = trk * per + per
    BY <1>1 DEF WalkTypes
  <2>3. trk * per \in Int
    BY <1>1 DEF WalkTypes
  <2>4. QED
    BY <1>1, <1>2, <2>1, <2>2, <2>3 DEF WalkTypes
<1>3. CASE R # m_maxrec
  <2>1. trk' = trk /\ R' = R + 1
    BY <1>3 DEF NextSector
  <2>2. trk * per \in Int
    BY <1>1 DEF WalkTypes
  <2>3. QED
    BY <1>1, <2>1, <2>2 DEF WalkTypes
<1>4. QED
  BY <1>2, <1>3

(* The head turns over with every track and the cylinder with every other, *)
(* so that they stay those of the track.                                   *)
LEMMA NextStaysPhysical ==
  ASSUME WalkTypes, NextSector, UNCHANGED <<m_minrec, m_maxrec>>,
         Physical([trk |-> trk, C |-> C, H |-> H, R |-> R])
  PROVE  /\ Physical([trk |-> trk, C |-> C, H |-> H, R |-> R])'
         /\ trk' \in Nat /\ C' \in Nat /\ H' \in {0, 1} /\ R' \in Nat
<1> USE DEF WalkTypes, Physical
<1>1. CASE R = m_maxrec /\ H = 0
  BY <1>1 DEF NextSector
<1>2. CASE R = m_maxrec /\ H # 0
  BY <1>2 DEF NextSector
<1>3. CASE R # m_maxrec
  BY <1>3 DEF NextSector
<1>4. QED
  BY <1>1, <1>2, <1>3

LEMMA NextTypes ==
  ASSUME WalkTypes, NextSector
  PROVE  trk' \in Nat /\ C' \in Nat /\ H' \in {0, 1} /\ R' \in Nat
BY DEF WalkTypes, NextSector

LEMMA InitWalk == Init => WalkInv
<1> SUFFICES ASSUME Init PROVE WalkInv
  OBVIOUS
<1>1. ~reading /\ reading \in BOOLEAN
  BY DEF Init
<1>2. from \in [trk : Nat, C : Nat, H : {0, 1}, R : Nat, N : N_Codes, want : Nat]
  BY DEF Init, N_Codes
<1>3. /\ m_minrec \in Nat /\ m_maxrec \in Nat
      /\ trk \in Nat /\ C \in Nat /\ H \in {0, 1} /\ R \in Nat
      /\ size \in Nat /\ want \in Nat /\ size <= want
  BY DEF Init, D88Init
<1>4. secsize \in Nat \ {0}
  BY D88Assumption DEF Init, N_Codes
<1>5. QED
  BY <1>1, <1>2, <1>3, <1>4 DEF WalkInv, WalkTypes, StaysPhysical

(* A step of the walk, taken or failed. *)
LEMMA ReadSectorWalk ==
  ASSUME WalkInv, ReadSector, UNCHANGED from
  PROVE  WalkInv'
<1> DEFINE bytes == Smaller(secsize, want - size)
           got == ReadDATA1(trk, <<C, H, R, N>>, bytes)
<1>1. /\ reading /\ size < want /\ secsize' = bytes
      /\ UNCHANGED <<m_minrec, m_maxrec, want>>
  BY DEF ReadSector, object
<1>2. bytes \in Nat \ {0} /\ size + bytes <= want
  BY <1>1, CutToWhatIsLeft DEF WalkInv, WalkTypes
<1>3. CASE Len(got) < bytes
  <2>1. reading' = FALSE /\ UNCHANGED <<trk, C, H, R, size>>
    BY <1>3 DEF ReadSector
  <2>2. QED
    BY <1>1, <1>2, <2>1 DEF WalkInv, WalkTypes, StaysPhysical
<1>4. CASE ~(Len(got) < bytes)
  <2>1. size' = size + bytes /\ NextSector /\ reading' = reading
    BY <1>4 DEF ReadSector
  <2>2. WalkTypes'
    BY <1>1, <1>2, <2>1, NextTypes DEF WalkInv, WalkTypes
  <2>3. StaysPhysical'
    <3>1. SUFFICES ASSUME Physical(from)'
                   PROVE  Physical([trk |-> trk, C |-> C, H |-> H, R |-> R])'
      BY DEF StaysPhysical
    <3>2. Physical(from)
      BY <1>1, <3>1 DEF Physical
    <3>3. QED
      BY <1>1, <2>1, <3>2, NextStaysPhysical DEF WalkInv, StaysPhysical
  <2>4. QED
    BY <2>2, <2>3 DEF WalkInv
<1>5. QED
  BY <1>3, <1>4

LEMMA NextWalk == WalkInv /\ [Next]_vars => WalkInv'
<1> SUFFICES ASSUME WalkInv, [Next]_vars PROVE WalkInv'
  OBVIOUS
<1>1. CASE Configure
  <2>1. ~reading /\ ~reading' /\ UNCHANGED <<address, transfer, from>>
    BY <1>1 DEF Configure, WalkInv, WalkTypes
  <2>2. m_minrec' \in Nat /\ m_maxrec' \in Nat
    BY <1>1, ClientAssumption
       DEF Configure, SetFile, SetFileFails, Close, SelectDisk, SetRecordRange, WalkInv, WalkTypes
  <2>3. reading' \in BOOLEAN
    BY <1>1 DEF Configure, WalkInv, WalkTypes
  <2>4. QED
    BY <2>1, <2>2, <2>3 DEF WalkInv, WalkTypes, StaysPhysical, address, transfer
<1>2. CASE Ask
  <2>1. PICK r \in Reads : /\ StartRead(r.trk, r.C, r.H, r.R, r.N, "caller", 0, r.want)
                           /\ from' = r
    BY <1>2 DEF Ask
  <2>2. r \in [trk : Nat, C : Nat, H : {0, 1}, R : Nat, N : N_Codes, want : Nat]
    BY ClientAssumption
  <2>3. /\ trk' = r.trk /\ C' = r.C /\ H' = r.H /\ R' = r.R
        /\ size' = 0 /\ secsize' = SecSize[r.N] /\ want' = r.want
        /\ reading' = TRUE /\ UNCHANGED <<m_minrec, m_maxrec>>
    BY <2>1 DEF StartRead, object
  <2>4. secsize' \in Nat \ {0}
    BY <2>2, <2>3, D88Assumption
  <2>5. WalkTypes'
    BY <2>1, <2>2, <2>3, <2>4 DEF WalkInv, WalkTypes
  <2>6. StaysPhysical'
    BY <2>1, <2>2, <2>3 DEF StaysPhysical, Physical
  <2>7. QED
    BY <2>5, <2>6 DEF WalkInv
<1>3. CASE ReadSector /\ UNCHANGED from
  BY <1>3, ReadSectorWalk
<1>4. CASE EndRead /\ UNCHANGED from
  BY <1>4 DEF EndRead, object, address, transfer, WalkInv, WalkTypes, StaysPhysical
<1>5. CASE UNCHANGED vars
  BY <1>5 DEF vars, d88vars, object, address, transfer, WalkInv, WalkTypes, StaysPhysical, Physical
<1>6. QED
  BY <1>1, <1>2, <1>3, <1>4, <1>5 DEF Next

(* Whatever is opened, selected and read, in any order: a read that starts *)
(* at a track's own cylinder and head never leaves them.                   *)
THEOREM ReadsStayPhysical == Spec => []StaysPhysical
<1>1. WalkInv => StaysPhysical
  BY DEF WalkInv
<1>2. QED
  BY InitWalk, NextWalk, <1>1, PTL DEF Spec

(* The counters of ReadDATA implement the line of sectors: every step of a *)
(* read moves one place along it and takes no more than was asked for.     *)
THEOREM ReadsAreLinear == Spec => ReadsLinearly
<1>1. Init => Line!Init
  BY DEF Init, Line!Init
<1>2. WalkInv /\ [Next]_vars => [Line!Next]_Line!vars
  <2> SUFFICES ASSUME WalkInv, [Next]_vars PROVE [Line!Next]_Line!vars
    OBVIOUS
  <2>1. CASE Configure
    <3>1. ~reading /\ ~reading'
      BY <2>1 DEF Configure
    <3>2. UNCHANGED <<reading, want, size>>
      BY <2>1 DEF Configure, transfer
    <3>3. QED
      BY <3>1, <3>2 DEF Line!vars
  <2>2. CASE Ask
    <3>1. PICK r \in Reads : StartRead(r.trk, r.C, r.H, r.R, r.N, "caller", 0, r.want)
      BY <2>2 DEF Ask
    <3>2. r \in [trk : Nat, C : Nat, H : {0, 1}, R : Nat, N : N_Codes, want : Nat]
      BY ClientAssumption
    <3>3. /\ ~reading /\ reading' /\ trk' = r.trk /\ R' = r.R /\ want' = r.want /\ size' = 0
          /\ UNCHANGED <<m_minrec, m_maxrec>>
      BY <3>1 DEF StartRead, object
    <3>4. trk' * PerTrack' + R' - m_minrec' \in Int
      <4>1. PerTrack' \in Int /\ trk' \in Int /\ R' \in Int /\ m_minrec' \in Int
        BY <3>2, <3>3 DEF PerTrack, WalkInv, WalkTypes
      <4>2. QED
        BY <4>1
    <3>5. QED
      BY <3>2, <3>3, <3>4 DEF Line!Next, Line!Begin
  <2>3. CASE ReadSector /\ UNCHANGED from
    <3> DEFINE bytes == Smaller(secsize, want - size)
               got == ReadDATA1(trk, <<C, H, R, N>>, bytes)
    <3>1. /\ reading /\ size < want
          /\ UNCHANGED <<m_minrec, m_maxrec, want>>
      BY <2>3 DEF ReadSector, object
    <3>2. bytes \in Nat \ {0} /\ size + bytes <= want
      BY <3>1, CutToWhatIsLeft DEF WalkInv, WalkTypes
    <3>3. CASE Len(got) < bytes
      <4>1. reading' = FALSE /\ size' = size
        BY <2>3, <3>3 DEF ReadSector
      <4>2. QED
        BY <3>1, <4>1 DEF Line!Next, Line!Finish
    <3>4. CASE ~(Len(got) < bytes)
      <4>1. size' = size + bytes /\ NextSector /\ reading' = reading
        BY <2>3, <3>4 DEF ReadSector
      <4>2. size' \in size + 1 .. want
        BY <3>2, <4>1 DEF WalkInv, WalkTypes
      <4>3. trk' * PerTrack' + R' - m_minrec' = (trk * PerTrack + R - m_minrec) + 1
        <5>1. PerTrack' = PerTrack /\ m_minrec' = m_minrec
          BY <3>1 DEF PerTrack
        <5>2. QED
          BY <3>1, <4>1, <5>1, NextIsOneFurther DEF WalkInv
      <4>4. QED
        BY <3>1, <4>1, <4>2, <4>3 DEF Line!Next, Line!Take
    <3>5. QED
      BY <3>3, <3>4
  <2>4. CASE EndRead /\ UNCHANGED from
    BY <2>4 DEF EndRead, transfer, Line!Next, Line!Finish
  <2>5. CASE UNCHANGED vars
    BY <2>5 DEF vars, d88vars, object, address, transfer, Line!vars, PerTrack
  <2>6. QED
    BY <2>1, <2>2, <2>3, <2>4, <2>5 DEF Next
<1>3. QED
  BY InitWalk, NextWalk, <1>1, <1>2, PTL DEF Spec, ReadsLinearly, Line!Spec

-------------------------------------------------------------------------------
(* The walk over the size fields. Offset is a recursive function: that it is *)
(* one at all is shown by giving its values outright, and that it has no     *)
(* other values by looking at the least number where two such functions      *)
(* would differ.                                                             *)

LEMMA LeastOfNat ==
  ASSUME NEW T \in SUBSET Nat, T # {}
  PROVE  \E m \in T : \A x \in T : m <= x
<1> DEFINE Less == {ss \in Nat \X Nat : ss[1] < ss[2]}
<1>1. IsWellFoundedOn(Less, Nat)
  BY NatLessThanWellFounded DEF OpToRel
<1>2. \A x \in Nat, y \in Nat : <<x, y>> \in Less <=> x < y
  OBVIOUS
<1> HIDE DEF Less
<1>3. PICK m \in T : \A x \in T : ~(<<x, m>> \in Less)
  BY <1>1, WFMin
<1>4. ASSUME NEW x \in T PROVE m <= x
  <2>1. m \in Nat /\ x \in Nat
    OBVIOUS
  <2>2. ~(x < m)
    BY <1>2, <1>3, <2>1
  <2>3. QED
    BY <2>1, <2>2
<1>5. QED
  BY <1>4


(* The walk over the size fields visits one disk after the other and stays *)
(* where a size field is zero or the file ends: the i-th place is i as far *)
(* as that point and that point from there on.                             *)
WalkTo(f, stop) == [i \in Nat |-> Smaller(i, stop)]

StopsAt(f, stop) ==
  /\ stop \in 0 .. Len(Image[f])
  /\ \A i \in 0 .. stop - 1 : Image[f][i + 1].size # 0
  /\ stop < Len(Image[f]) => Image[f][stop + 1].size = 0

(* The walk stops somewhere: at the first size field of zero or at the end. *)
LEMMA WalkStops ==
  ASSUME NEW f \in DOMAIN Image
  PROVE  \E stop : StopsAt(f, stop)
<1> DEFINE len == Len(Image[f])
           Zeros == {i \in 0 .. len - 1 : Image[f][i + 1].size = 0}
<1>1. len \in Nat
  BY ImageAssumption
<1>2. CASE Zeros = {}
  <2>1. \A i \in 0 .. len - 1 : Image[f][i + 1].size # 0
    BY <1>2
  <2>2. StopsAt(f, len)
    BY <1>1, <2>1 DEF StopsAt
  <2>3. QED
    BY <2>2
<1>3. CASE Zeros # {}
  <2>1. Zeros \in SUBSET Nat
    BY <1>1
  <2>2. PICK m \in Zeros : \A x \in Zeros : m <= x
    <3> HIDE DEF Zeros
    <3>1. QED
      BY <1>3, <2>1, LeastOfNat
  <2>3. m \in 0 .. len - 1
    OBVIOUS
  <2>4. \A i \in 0 .. m - 1 : i \notin Zeros /\ i \in 0 .. len - 1
    <3> HIDE DEF Zeros, len
    <3>1. QED
      BY <1>1, <2>1, <2>2, <2>3
  <2>5. StopsAt(f, m)
    <3>1. \A i \in 0 .. m - 1 : Image[f][i + 1].size # 0
      BY <2>4
    <3>2. m \in 0 .. len /\ Image[f][m + 1].size = 0
      BY <1>1, <2>3
    <3>3. QED
      BY <3>1, <3>2 DEF StopsAt
  <2>6. QED
    BY <2>5
<1>4. QED
  BY <1>2, <1>3

(* One turn of the loop of SetFile. *)
WalkStep(f, g) ==
  [i \in Nat |->
     IF i = 0 THEN 0
     ELSE IF g[i-1] < Len(Image[f]) /\ Image[f][g[i-1] + 1].size # 0
          THEN g[i-1] + 1 ELSE g[i-1]]

LEMMA WalkToIsAWalk ==
  ASSUME NEW f \in DOMAIN Image, NEW stop, StopsAt(f, stop)
  PROVE  WalkTo(f, stop) = WalkStep(f, WalkTo(f, stop))
<1> DEFINE g == WalkTo(f, stop)
           len == Len(Image[f])
<1>1. len \in Nat /\ stop \in Nat /\ stop <= len
  BY ImageAssumption DEF StopsAt
<1>2. \A i \in Nat : g[i] = Smaller(i, stop)
  BY DEF WalkTo
<1>3. ASSUME NEW i \in Nat, i # 0
      PROVE  g[i] = IF g[i-1] < len /\ Image[f][g[i-1] + 1].size # 0
                    THEN g[i-1] + 1 ELSE g[i-1]
  <2>1. i - 1 \in Nat
    BY <1>3
  <2>2. g[i] = Smaller(i, stop) /\ g[i-1] = Smaller(i-1, stop)
    BY <1>2, <2>1
  <2> HIDE DEF g
  <2>3. CASE i <= stop
    <3>1. g[i-1] = i - 1 /\ g[i] = i
      BY <1>1, <2>1, <2>2, <2>3 DEF Smaller
    <3>2. i - 1 < len /\ i - 1 \in 0 .. stop - 1
      BY <1>1, <2>1, <2>3
    <3>3. Image[f][(i - 1) + 1].size # 0
      BY <3>2 DEF StopsAt
    <3>4. QED
      BY <3>1, <3>2, <3>3, <2>1
  <2>4. CASE stop < i
    <3>1. g[i-1] = stop /\ g[i] = stop
      BY <1>1, <2>1, <2>2, <2>4 DEF Smaller
    <3>2. ~(stop < len /\ Image[f][stop + 1].size # 0)
      BY DEF StopsAt
    <3>3. QED
      BY <3>1, <3>2
  <2>5. QED
    BY <1>1, <2>3, <2>4
<1>4. g[0] = 0
  BY <1>1, <1>2 DEF Smaller
<1>5. \A i \in Nat : g[i] = WalkStep(f, g)[i]
  <2> HIDE DEF g
  <2>1. QED
    BY <1>3, <1>4 DEF WalkStep
<1>6. QED
  BY <1>5 DEF WalkTo, WalkStep

LEMMA OffsetIsAWalk ==
  ASSUME NEW f \in DOMAIN Image
  PROVE  Offset(f) = WalkStep(f, Offset(f))
<1>1. PICK stop : StopsAt(f, stop)
  BY WalkStops
<1>2. PICK g : g = WalkStep(f, g)
  BY <1>1, WalkToIsAWalk
<1>3. QED
  BY <1>2 DEF Offset, WalkStep

(* No two walks differ: at the first place where they did they would take  *)
(* the same step from the same place.                                      *)
LEMMA OneWalk ==
  ASSUME NEW f \in DOMAIN Image, NEW g, NEW h,
         g = WalkStep(f, g), h = WalkStep(f, h)
  PROVE  g = h
<1> DEFINE T == {i \in Nat : g[i] # h[i]}
<1>1. T = {}
  <2>1. SUFFICES ASSUME T # {} PROVE FALSE
    OBVIOUS
  <2>2. PICK m \in T : \A x \in T : m <= x
    <3>1. T \in SUBSET Nat
      OBVIOUS
    <3> HIDE DEF T
    <3>2. QED
      BY <2>1, <3>1, LeastOfNat
  <2>3. m \in Nat /\ g[m] # h[m]
    OBVIOUS
  <2>4. \A i \in Nat : i # 0 =>
          /\ g[i] = IF g[i-1] < Len(Image[f]) /\ Image[f][g[i-1] + 1].size # 0
                    THEN g[i-1] + 1 ELSE g[i-1]
          /\ h[i] = IF h[i-1] < Len(Image[f]) /\ Image[f][h[i-1] + 1].size # 0
                    THEN h[i-1] + 1 ELSE h[i-1]
    BY DEF WalkStep
  <2>5. g[0] = 0 /\ h[0] = 0
    BY DEF WalkStep
  <2>6. m # 0
    BY <2>3, <2>5
  <2>7. g[m-1] = h[m-1]
    BY <2>2, <2>3, <2>6
  <2>8. QED
    BY <2>3, <2>4, <2>6, <2>7
<1>2. \A i \in Nat : g[i] = h[i]
  BY <1>1
<1>3. QED
  BY <1>2 DEF WalkStep

(* So the place of the i-th disk is i as far as the walk goes. *)
LEMMA OffsetIs ==
  ASSUME NEW f \in DOMAIN Image, NEW stop, StopsAt(f, stop)
  PROVE  \A i \in Nat : Offset(f)[i] = Smaller(i, stop)
<1>1. Offset(f) = WalkTo(f, stop)
  BY OffsetIsAWalk, WalkToIsAWalk, OneWalk
<1>2. QED
  BY <1>1 DEF WalkTo

(* The loop ends at MAX_DISK or at the first place past the file. *)
LEMMA NumDisksIs ==
  ASSUME NEW f \in DOMAIN Image
  PROVE  /\ NumDisks(f) \in 0 .. MAX_DISK
         /\ NumDisks(f) = MAX_DISK \/ Offset(f)[NumDisks(f)] >= Len(Image[f])
         /\ \A i \in 0 .. NumDisks(f) - 1 : Offset(f)[i] < Len(Image[f])
<1> DEFINE T == {n \in Nat : n = MAX_DISK \/ (n <= MAX_DISK /\ Offset(f)[n] >= Len(Image[f]))}
<1>1. T \in SUBSET Nat /\ T # {} /\ MAX_DISK \in T /\ MAX_DISK \in Nat
  BY D88Assumption
<1>2. PICK m \in T : \A x \in T : m <= x
  <2> HIDE DEF T
  <2>1. QED
    BY <1>1, LeastOfNat
<1>3. m \in 0 .. MAX_DISK
  BY <1>1
<1>4. m = MAX_DISK \/ Offset(f)[m] >= Len(Image[f])
  OBVIOUS
<1>5. PICK stop : StopsAt(f, stop)
  BY WalkStops
<1>6. \A i \in Nat : Offset(f)[i] \in Nat
  BY <1>5, OffsetIs DEF StopsAt, Smaller
<1>7. Len(Image[f]) \in Nat
  BY ImageAssumption
<1>8. ASSUME NEW i \in 0 .. m - 1 PROVE Offset(f)[i] < Len(Image[f])
  <2>1. i \in Nat /\ i < m /\ i \notin T
    <3> HIDE DEF T
    <3>1. QED
      BY <1>1, <1>2, <1>3
  <2>2. i <= MAX_DISK
    BY <1>1, <1>3, <2>1
  <2>3. QED
    BY <1>6, <1>7, <2>1, <2>2
<1> HIDE DEF T
<1>9. QED
  BY <1>3, <1>4, <1>8 DEF NumDisks


-------------------------------------------------------------------------------
(* The object: what it says of the disks is what the walk found in the file *)
(* that is open, and of a disk that was chosen in that file it has the      *)
(* offset; after a refused choice it has the size zero.                     *)
ObjectInv ==
  /\ m_fp \in DOMAIN Image \cup {NULL}
  /\ m_numdisk \in 0 .. MAX_DISK
  /\ m_curdisk = -1
  /\ m_disk_offset \in [0 .. MAX_DISK - 1 -> Nat]
  /\ m_curdisk_offset \in Nat \cup {-1}
  /\ m_disksize \in Nat
  /\ m_trk \in [0 .. TRACKS - 1 -> Nat]
  /\ sel \in Nat \cup {NULL, -1}
  /\ m_fp # NULL =>
       /\ m_numdisk = NumDisks(m_fp)
       /\ \A i \in 0 .. m_numdisk - 1 : m_disk_offset[i] = Offset(m_fp)[i]
  /\ m_fp # NULL /\ sel = -1 => m_disksize = 0
  /\ m_fp # NULL /\ sel \in 0 .. m_numdisk - 1 =>
       m_curdisk_offset = m_disk_offset[sel]

LEMMA OffsetIsPlace ==
  ASSUME NEW f \in DOMAIN Image, NEW i \in Nat
  PROVE  Offset(f)[i] \in Nat
<1>1. PICK stop : StopsAt(f, stop)
  BY WalkStops
<1>2. QED
  BY <1>1, OffsetIs DEF StopsAt, Smaller

LEMMA InitObject == Init => ObjectInv
<1> SUFFICES ASSUME Init PROVE ObjectInv
  OBVIOUS
<1>1. /\ m_fp = NULL /\ m_numdisk = 0 /\ m_curdisk = -1
      /\ m_curdisk_offset = -1 /\ m_disksize = 0 /\ sel = NULL
      /\ m_disk_offset = [i \in 0 .. MAX_DISK - 1 |-> 0]
      /\ m_trk = [t \in 0 .. TRACKS - 1 |-> 0]
  BY DEF Init, D88Init
<1>2. 0 \in 0 .. MAX_DISK
  BY D88Assumption
<1>3. QED
  BY <1>1, <1>2 DEF ObjectInv

LEMMA SetFileObject ==
  ASSUME ObjectInv, NEW f \in DOMAIN Image, SetFile(f)
  PROVE  ObjectInv'
<1>1. /\ m_fp' = f /\ m_numdisk' = NumDisks(f) /\ sel' = NULL
      /\ UNCHANGED <<m_curdisk, m_curdisk_offset, m_disksize, m_trk>>
      /\ m_disk_offset' = [i \in 0 .. MAX_DISK - 1 |->
                             IF i <= NumDisks(f) THEN Offset(f)[i] ELSE m_disk_offset[i]]
  BY DEF SetFile
<1>2. NumDisks(f) \in 0 .. MAX_DISK /\ MAX_DISK \in Nat
  BY NumDisksIs, D88Assumption
<1>3. m_disk_offset' \in [0 .. MAX_DISK - 1 -> Nat]
  BY <1>1, <1>2, OffsetIsPlace DEF ObjectInv
<1>4. \A i \in 0 .. m_numdisk' - 1 : m_disk_offset'[i] = Offset(f)[i]
  BY <1>1, <1>2
<1>5. NULL # -1 /\ \A i \in Int : NULL # i
  BY ImageAssumption
<1>6. (m_fp # NULL =>
       /\ m_numdisk = NumDisks(m_fp)
       /\ \A i \in 0 .. m_numdisk - 1 : m_disk_offset[i] = Offset(m_fp)[i])'
  BY <1>1, <1>4
<1>7. ~(sel' = -1) /\ ~(sel' \in 0 .. m_numdisk' - 1)
  BY <1>1, <1>2, <1>5
<1>8. QED
  BY <1>1, <1>2, <1>3, <1>6, <1>7 DEF ObjectInv

LEMMA HeaderIs ==
  ASSUME NEW f \in DOMAIN Image, NEW place \in Nat, NEW h \in Header(f, place)
  PROVE  h.size \in Nat /\ h.trk \in [0 .. TRACKS - 1 -> Nat]
<1>1. CASE place < Len(Image[f])
  <2>1. Image[f][place + 1] \in Disks
    BY <1>1, ImageAssumption
  <2>2. h = [size |-> Image[f][place + 1].size,
             trk |-> [t \in 0 .. TRACKS - 1 |-> Image[f][place + 1].trk[t].at]]
    BY <1>1 DEF Header
  <2>3. \A t \in 0 .. TRACKS - 1 : Image[f][place + 1].trk[t].at \in Nat
    BY <2>1 DEF Disks
  <2>4. QED
    BY <2>1, <2>2, <2>3 DEF Disks
<1>2. CASE ~(place < Len(Image[f]))
  BY <1>2 DEF Header
<1>3. QED
  BY <1>1, <1>2

LEMMA SelectDiskObject ==
  ASSUME ObjectInv, NEW n \in 0 .. MAX_DISK - 1, SelectDisk(n)
  PROVE  ObjectInv'
<1>0. UNCHANGED <<m_fp, m_numdisk, m_disk_offset>>
  BY DEF SelectDisk
<1>1. CASE m_fp = NULL
  BY <1>0, <1>1 DEF SelectDisk, ObjectInv
<1>2. CASE m_fp # NULL /\ n > m_numdisk
  <2>1. /\ m_curdisk' = -1 /\ m_curdisk_offset' = -1 /\ m_disksize' = 0
        /\ sel' = -1 /\ m_trk' = m_trk
    BY <1>2 DEF SelectDisk, Deselected
  <2>2. -1 \notin 0 .. m_numdisk - 1
    BY DEF ObjectInv
  <2>3. QED
    BY <1>0, <2>1, <2>2 DEF ObjectInv
<1>3. CASE m_fp # NULL /\ ~(n > m_numdisk)
  <2>1. /\ m_curdisk' = -1 /\ m_curdisk_offset' = m_disk_offset[n] /\ sel' = n
        /\ \E h \in Header(m_fp, m_disk_offset[n]) : m_disksize' = h.size /\ m_trk' = h.trk
    BY <1>3 DEF SelectDisk
  <2>2. m_disk_offset[n] \in Nat /\ m_fp \in DOMAIN Image /\ n \in Nat
    BY <1>3, D88Assumption DEF ObjectInv
  <2>3. m_disksize' \in Nat /\ m_trk' \in [0 .. TRACKS - 1 -> Nat]
    BY <2>1, <2>2, HeaderIs
  <2>4. QED
    BY <1>0, <1>3, <2>1, <2>2, <2>3 DEF ObjectInv
<1>4. QED
  BY <1>1, <1>2, <1>3

LEMMA ConfigureObject ==
  ASSUME ObjectInv, Configure
  PROVE  ObjectInv'
<1>1. CASE \E f \in DOMAIN Image : SetFile(f)
  BY <1>1, SetFileObject
<1>2. CASE SetFileFails
  BY <1>2, ImageAssumption DEF SetFileFails, ObjectInv
<1>3. CASE Close
  BY <1>3, ImageAssumption, D88Assumption DEF Close, ObjectInv
<1>4. CASE \E n \in Selections : SelectDisk(n)
  BY <1>4, SelectDiskObject, ClientAssumption
<1>5. CASE \E r \in Ranges : SetRecordRange(r[1], r[2])
  BY <1>5 DEF SetRecordRange, ObjectInv
<1>6. QED
  BY <1>1, <1>2, <1>3, <1>4, <1>5 DEF Configure

LEMMA ObjectKept ==
  ASSUME ObjectInv, UNCHANGED object
  PROVE  ObjectInv'
BY DEF ObjectInv, object

LEMMA NextObject == ObjectInv /\ [Next]_vars => ObjectInv'
<1> SUFFICES ASSUME ObjectInv, [Next]_vars PROVE ObjectInv'
  OBVIOUS
<1>1. CASE Configure
  BY <1>1, ConfigureObject
<1>2. CASE Ask
  BY <1>2, ObjectKept DEF Ask, StartRead
<1>3. CASE ReadSector /\ UNCHANGED from
  BY <1>3, ObjectKept DEF ReadSector
<1>4. CASE EndRead /\ UNCHANGED from
  BY <1>4, ObjectKept DEF EndRead
<1>5. CASE UNCHANGED vars
  BY <1>5, ObjectKept DEF vars, d88vars
<1>6. QED
  BY <1>1, <1>2, <1>3, <1>4, <1>5 DEF Next


-------------------------------------------------------------------------------
(* A read runs on a disk that may be used, and where there is none it has  *)
(* nothing yet.                                                            *)
ReadInv ==
  /\ N \in N_Codes /\ ret \in Nat
  /\ from \in Reads \cup {[trk |-> 0, C |-> 0, H |-> 0, R |-> 1, N |-> 0, want |-> 0]}
  /\ reading => Usable
  /\ NothingWithoutADisk

(* Without a file m_fp stops ReadDATA1, after a refused choice the size: the *)
(* entry of a track that exists is more than zero.                           *)
LEMMA NoDiskNoTrack ==
  ASSUME ObjectInv, m_fp = NULL \/ sel = -1, NEW t \in Nat, NEW id, NEW bytes
  PROVE  ReadDATA1(t, id, bytes) = <<>>
<1>1. ~TrackReads(t)
  <2>1. CASE m_fp = NULL
    BY <2>1 DEF TrackReads
  <2>2. CASE m_fp # NULL /\ sel = -1
    <3>1. m_disksize = 0
      BY <2>2 DEF ObjectInv
    <3>2. t < TRACKS => m_trk[t] \in Nat
      BY D88Assumption DEF ObjectInv
    <3>3. QED
      BY <3>1, <3>2 DEF TrackReads
  <2>3. QED
    BY <2>1, <2>2
<1>2. QED
  BY <1>1 DEF ReadDATA1

LEMMA InitRead == Init => ReadInv
BY DEF Init, ReadInv, N_Codes, NothingWithoutADisk

LEMMA NextRead ==
  ASSUME WalkInv, ObjectInv, ReadInv, [Next]_vars
  PROVE  ReadInv'
<1>1. CASE Configure
  BY <1>1 DEF Configure, ReadInv, NothingWithoutADisk, address
<1>2. CASE Ask
  <2>1. PICK r \in Reads : /\ StartRead(r.trk, r.C, r.H, r.R, r.N, "caller", 0, r.want)
                           /\ from' = r
    BY <1>2 DEF Ask
  <2>2. r.N \in N_Codes
    BY ClientAssumption
  <2>3. Usable /\ N' = r.N /\ size' = 0 /\ UNCHANGED <<ret, object>>
    BY <1>2, <2>1 DEF Ask, StartRead
  <2>4. Usable'
    BY <2>3 DEF Usable, object
  <2>5. QED
    BY <2>1, <2>2, <2>3, <2>4 DEF ReadInv, NothingWithoutADisk
<1>3. CASE ReadSector /\ UNCHANGED from
  <2> DEFINE bytes == Smaller(secsize, want - size)
             got == ReadDATA1(trk, <<C, H, R, N>>, bytes)
  <2>1. /\ reading /\ size < want /\ UNCHANGED <<object, N, from>>
    BY <1>3 DEF ReadSector
  <2>2. bytes \in Nat \ {0}
    BY <2>1, CutToWhatIsLeft DEF WalkInv, WalkTypes
  <2>3. reading' => Usable'
    BY <2>1 DEF ReadInv, Usable, object
  <2>4. CASE Len(got) < bytes
    <3>1. reading' = FALSE /\ ret' = size
      BY <1>3, <2>4 DEF ReadSector
    <3>2. QED
      BY <2>1, <3>1 DEF ReadInv, NothingWithoutADisk, WalkInv, WalkTypes
  <2>5. CASE ~(Len(got) < bytes)
    <3>1. ret' = ret
      BY <1>3, <2>5 DEF ReadSector
    <3>2. ~(m_fp = NULL \/ sel = -1)
      <4>1. SUFFICES ASSUME m_fp = NULL \/ sel = -1 PROVE FALSE
        OBVIOUS
      <4>2. got = <<>>
        BY <4>1, NoDiskNoTrack DEF WalkInv, WalkTypes
      <4>3. Len(got) = 0
        <5> HIDE DEF got
        <5>1. QED
          BY <4>2
      <4>4. QED
        BY <2>2, <2>5, <4>3
    <3>3. ~(m_fp' = NULL \/ sel' = -1)
      BY <2>1, <3>2 DEF object
    <3>4. QED
      BY <2>1, <2>3, <3>1, <3>3 DEF ReadInv, NothingWithoutADisk
  <2>6. QED
    BY <2>4, <2>5
<1>4. CASE EndRead /\ UNCHANGED from
  BY <1>4 DEF EndRead, address, ReadInv, NothingWithoutADisk, WalkInv, WalkTypes
<1>5. CASE UNCHANGED vars
  <2>1. UNCHANGED <<object, reading, N, ret, from, size>>
    BY <1>5 DEF vars, d88vars, address, transfer
  <2>2. UNCHANGED <<m_fp, m_numdisk, sel>>
    BY <2>1 DEF object
  <2>3. QED
    BY <2>1, <2>2 DEF ReadInv, NothingWithoutADisk, Usable
<1>6. QED
  BY <1>1, <1>2, <1>3, <1>4, <1>5 DEF Next

ClientInv == WalkInv /\ ObjectInv /\ ReadInv

(* The invariant of the library under any sequence of calls. *)
THEOREM ClientCorrect == Spec => []ClientInv
<1>1. Init => ClientInv
  BY InitWalk, InitObject, InitRead DEF ClientInv
<1>2. ClientInv /\ [Next]_vars => ClientInv'
  BY NextWalk, NextObject, NextRead DEF ClientInv
<1>3. QED
  BY <1>1, <1>2, PTL DEF Spec

(* Every field, and every local of ReadDATA, keeps its type. *)
THEOREM ClientTypes == Spec => []TypeOK
<1>1. ClientInv => TypeOK
  BY D88Assumption DEF ClientInv, WalkInv, WalkTypes, ObjectInv, ReadInv, TypeOK
<1>2. QED
  BY <1>1, ClientCorrect, PTL

(* Whatever was open and selected before, a read with no file open or after *)
(* a choice that was refused finds nothing.                                 *)
THEOREM NeverWithoutADisk == Spec => []NothingWithoutADisk
<1>1. ClientInv => NothingWithoutADisk
  BY DEF ClientInv, ReadInv
<1>2. QED
  BY <1>1, ClientCorrect, PTL

(* SetFile finds every disk of a file whose size fields are right, each at   *)
(* its own offset, as far as MAX_DISK goes and whatever file was open before. *)
THEOREM DisksAreFound == Spec => []FindsTheDisks
<1>1. ASSUME ClientInv PROVE FindsTheDisks
  <2>1. SUFFICES ASSUME m_fp # NULL, \A d \in DOMAIN Image[m_fp] : Image[m_fp][d].size # 0
                 PROVE  /\ GetNumDisk = Smaller(Len(Image[m_fp]), MAX_DISK)
                        /\ \A i \in 0 .. GetNumDisk - 1 : m_disk_offset[i] = i
    BY DEF FindsTheDisks
  <2> DEFINE len == Len(Image[m_fp])
  <2>2. m_fp \in DOMAIN Image /\ m_numdisk = NumDisks(m_fp)
    BY <1>1, <2>1 DEF ClientInv, ObjectInv
  <2>3. len \in Nat /\ DOMAIN Image[m_fp] = 1 .. len
    BY <2>2, ImageAssumption
  <2>4. StopsAt(m_fp, len)
    <3>1. \A i \in 0 .. len - 1 : i + 1 \in DOMAIN Image[m_fp]
      BY <2>3
    <3>2. \A i \in 0 .. len - 1 : Image[m_fp][i + 1].size # 0
      BY <2>1, <3>1
    <3>3. QED
      BY <2>3, <3>2 DEF StopsAt
  <2>5. \A i \in Nat : Offset(m_fp)[i] = Smaller(i, len)
    BY <2>2, <2>4, OffsetIs
  <2> DEFINE n == m_numdisk
  <2>6. /\ n \in 0 .. MAX_DISK
        /\ n = MAX_DISK \/ Offset(m_fp)[n] >= len
        /\ \A i \in 0 .. n - 1 : Offset(m_fp)[i] < len
    BY <2>2, NumDisksIs
  <2>7. \A i \in 0 .. n - 1 : m_disk_offset[i] = Offset(m_fp)[i]
    BY <1>1, <2>1 DEF ClientInv, ObjectInv
  <2> HIDE DEF len, n
  <2>8. MAX_DISK \in Nat
    BY D88Assumption
  <2>9. n <= len
    <3>1. SUFFICES ASSUME n > len PROVE FALSE
      BY <2>3, <2>6, <2>8
    <3>2. len \in 0 .. n - 1
      BY <2>3, <2>6, <2>8, <3>1
    <3>3. Offset(m_fp)[len] = len
      BY <2>3, <2>5 DEF Smaller
    <3>4. QED
      BY <2>3, <2>6, <3>2, <3>3
  <2>10. n = Smaller(len, MAX_DISK)
    <3>1. CASE n = MAX_DISK
      BY <2>3, <2>8, <2>9, <3>1 DEF Smaller
    <3>2. CASE n # MAX_DISK
      <4>1. Offset(m_fp)[n] = n
        BY <2>3, <2>5, <2>6, <2>8, <2>9 DEF Smaller
      <4>2. n = len
        BY <2>3, <2>6, <2>8, <2>9, <3>2, <4>1
      <4>3. QED
        BY <2>3, <2>6, <2>8, <4>2 DEF Smaller
    <3>3. QED
      BY <3>1, <3>2
  <2>11. \A i \in 0 .. n - 1 : m_disk_offset[i] = i
    BY <2>3, <2>5, <2>6, <2>7, <2>8, <2>9 DEF Smaller
  <2>12. QED
    BY <2>10, <2>11 DEF GetNumDisk, n, len
<1>2. QED
  BY <1>1, ClientCorrect, PTL


-------------------------------------------------------------------------------
(* The disk a program has selected is one of the file that is open. *)
LEMMA SelectedSectors ==
  ASSUME ObjectInv, Usable, m_fp # NULL, sel # -1, NEW t \in 0 .. TRACKS - 1
  PROVE  /\ m_curdisk_offset \in Nat /\ m_curdisk_offset + 1 \in DOMAIN Image[m_fp]
         /\ Image[m_fp][m_curdisk_offset + 1] \in Disks
         /\ Sectors(t) \in Seq(SectorHeaders)
<1>1. m_fp \in DOMAIN Image /\ sel \in 0 .. m_numdisk - 1
  BY DEF ObjectInv, Usable
<1>2. m_numdisk = NumDisks(m_fp) /\ m_curdisk_offset = Offset(m_fp)[sel]
  BY <1>1 DEF ObjectInv
<1>3. Offset(m_fp)[sel] < Len(Image[m_fp]) /\ Offset(m_fp)[sel] \in Nat
  BY <1>1, <1>2, NumDisksIs, OffsetIsPlace
<1>4. Image[m_fp] \in Seq(Disks)
  BY <1>1, ImageAssumption
<1>5. Image[m_fp][m_curdisk_offset + 1] \in Disks /\ m_curdisk_offset + 1 \in DOMAIN Image[m_fp]
  BY <1>2, <1>3, <1>4
<1>6. QED
  BY <1>2, <1>3, <1>5 DEF Disks, Sectors

(* ReadDATA1 finds the first of the sectors with the ID, if there is one. *)
LEMMA MatchingIs ==
  ASSUME NEW t \in Nat, NEW id, Matching(t, id) # {}, Sectors(t) \in Seq(SectorHeaders), NEW bytes,
         TrackReads(t)
  PROVE  \E k \in Matching(t, id) :
           ReadDATA1(t, id, bytes) =
             [i \in 1 .. Smaller(bytes, Sectors(t)[k].size) |->
                IF i <= Sectors(t)[k].have THEN <<m_curdisk_offset, t, k, i>> ELSE Kept]
<1>1. Matching(t, id) \in SUBSET Nat
  BY DEF Matching
<1>2. \E k \in Matching(t, id) : \A j \in Matching(t, id) : k <= j
  BY <1>1, LeastOfNat
<1> DEFINE first == CHOOSE k \in Matching(t, id) : \A j \in Matching(t, id) : k <= j
<1>3. first \in Matching(t, id)
  BY <1>2
<1>4. ReadDATA1(t, id, bytes) =
             [i \in 1 .. Smaller(bytes, Sectors(t)[first].size) |->
                IF i <= Sectors(t)[first].have THEN <<m_curdisk_offset, t, first, i>> ELSE Kept]
  BY DEF ReadDATA1
<1>5. QED
  BY <1>3, <1>4

LEMMA MatchTypes ==
  ASSUME NEW t, NEW id, Sectors(t) \in Seq(SectorHeaders), NEW k \in Matching(t, id)
  PROVE  /\ k \in Nat /\ k \in DOMAIN Sectors(t)
         /\ Sectors(t)[k].id = id
         /\ Sectors(t)[k].size \in Nat /\ Sectors(t)[k].have \in Nat
<1> DEFINE secs == Sectors(t)
<1>1. k \in DOMAIN secs /\ secs[k].id = id /\ secs \in Seq(SectorHeaders)
  BY DEF Matching
<1> HIDE DEF secs
<1>2. k \in Nat /\ secs[k] \in SectorHeaders
  BY <1>1
<1>3. secs[k].size \in Nat /\ secs[k].have \in Nat
  BY <1>2 DEF SectorHeaders
<1>4. QED
  BY <1>1, <1>2, <1>3 DEF secs

LEMMA NothingIsRead ==
  ASSUME NEW t, NEW id, NEW bytes, ~TrackReads(t) \/ Matching(t, id) = {}
  PROVE  ReadDATA1(t, id, bytes) = <<>>
BY DEF ReadDATA1

(* ReadID and ReadDATA1 agree on the sectors of a track, whatever calls came *)
(* before.                                                                   *)
THEOREM ListsAreReads ==
  ASSUME FewSectors
  PROVE  Spec => []ListsWhatItReads
<1>1. ASSUME ClientInv PROVE ListsWhatItReads
  <2>1. SUFFICES ASSUME m_fp # NULL, Usable, sel # -1,
                        NEW t \in 0 .. TRACKS - 1,
                        NEW c \in 0 .. 1, NEW h \in 0 .. 1, NEW r \in 1 .. 3, NEW n \in {0, 1}
                 PROVE  LET ids == ReadID(t, 64)
                            id == <<c, h, r, n>>
                        IN  ReadDATA1(t, id, SecSize[n]) # <<>>
                              <=> \E k \in DOMAIN ids : ids[k] = id
    BY DEF ListsWhatItReads
  <2> DEFINE ids == ReadID(t, 64)
             id == <<c, h, r, n>>
  <2>2. t \in Nat /\ TRACKS \in Nat
    BY D88Assumption
  <2>3. CASE ~TrackReads(t)
    <3>1. ids = <<>> /\ ReadDATA1(t, id, SecSize[n]) = <<>>
      BY <2>3 DEF ReadID, ReadDATA1
    <3>2. QED
      BY <3>1
  <2>4. CASE TrackReads(t)
    <3> DEFINE secs == Sectors(t)
               len == Len(secs)
    <3>1. /\ secs \in Seq(SectorHeaders) /\ len \in Nat /\ DOMAIN secs = 1 .. len
          /\ len <= 16
          /\ \A k \in DOMAIN secs : secs[k].size \in Nat \ {0}
      <4>1. secs \in Seq(SectorHeaders)
        BY <1>1, <2>1, SelectedSectors DEF ClientInv
      <4>2. m_fp \in DOMAIN Image /\ m_curdisk_offset + 1 \in DOMAIN Image[m_fp]
        BY <1>1, <2>1, SelectedSectors DEF ClientInv, ObjectInv
      <4>3. len <= 16 /\ \A k \in DOMAIN secs : secs[k].size # 0
        BY <4>2 DEF FewSectors, Sectors
      <4>4. \A k \in DOMAIN secs : secs[k] \in SectorHeaders
        BY <4>1
      <4>5. QED
        BY <4>1, <4>3, <4>4 DEF SectorHeaders
    <3>2. ids = [k \in 1 .. len |-> secs[k].id]
      <4>1. ids = [k \in 1 .. Smaller((64 + 3) \div 4, len) |-> secs[k].id]
        BY <2>4 DEF ReadID
      <4>2. (64 + 3) \div 4 = 16
        OBVIOUS
      <4>3. Smaller(16, len) = len
        <5> HIDE DEF len, secs
        <5>1. QED
          BY <3>1 DEF Smaller
      <4>4. QED
        BY <4>1, <4>2, <4>3
    <3>3. (\E k \in DOMAIN ids : ids[k] = id) <=> Matching(t, id) # {}
      BY <3>1, <3>2 DEF Matching
    <3>4. CASE Matching(t, id) = {}
      <4>1. ReadDATA1(t, id, SecSize[n]) = <<>>
        BY <2>4, <3>4 DEF ReadDATA1
      <4>2. QED
        BY <3>3, <3>4, <4>1
    <3>5. CASE Matching(t, id) # {}
      <4>1. PICK k \in Matching(t, id) :
              ReadDATA1(t, id, SecSize[n]) =
                [i \in 1 .. Smaller(SecSize[n], secs[k].size) |->
                   IF i <= secs[k].have THEN <<m_curdisk_offset, t, k, i>> ELSE Kept]
        <5>1. Sectors(t) \in Seq(SectorHeaders)
          BY <3>1
        <5> DEFINE bytes == SecSize[n]
        <5> HIDE DEF id, bytes
        <5>2. \E k \in Matching(t, id) :
                ReadDATA1(t, id, bytes) =
                  [i \in 1 .. Smaller(bytes, Sectors(t)[k].size) |->
                     IF i <= Sectors(t)[k].have THEN <<m_curdisk_offset, t, k, i>> ELSE Kept]
          BY <2>2, <2>4, <3>5, <5>1, MatchingIs
        <5>3. QED
          BY <5>2 DEF bytes
      <4>2. secs[k].size \in Nat \ {0} /\ SecSize[n] \in Nat \ {0}
        BY <3>1, D88Assumption DEF Matching, N_Codes
      <4>3. Smaller(SecSize[n], secs[k].size) \in Nat \ {0}
        BY <4>2 DEF Smaller
      <4>4. ReadDATA1(t, id, SecSize[n]) # <<>>
        <5>1. 1 \in DOMAIN ReadDATA1(t, id, SecSize[n])
          <6>1. DOMAIN ReadDATA1(t, id, SecSize[n]) = 1 .. Smaller(SecSize[n], secs[k].size)
            BY <4>1
          <6>2. QED
            BY <4>3, <6>1
        <5>2. QED
          BY <5>1
      <4>5. QED
        BY <3>3, <3>5, <4>4
    <3>6. QED
      BY <3>4, <3>5
  <2>5. QED
    BY <2>3, <2>4
<1>2. QED
  BY <1>1, ClientCorrect, PTL

(* What the library answers is true of the file that is open, after any *)
(* sequence of calls.                                                    *)
THEOREM AnswersAreTrue ==
  ASSUME FewSectors
  PROVE  Spec => []AnswersAsTheFileIs
<1>1. Spec => []ListsWhatItReads
  BY ListsAreReads
<1>2. QED
  BY <1>1, NeverWithoutADisk, DisksAreFound, PTL DEF AnswersAsTheFileIs


-------------------------------------------------------------------------------
(* What is in the caller's buffer: the places bytes were read from. *)
Cells == Seq(Nat)

LEMMA FourAreACell ==
  ASSUME NEW a \in Nat, NEW b \in Nat, NEW c \in Nat, NEW d \in Nat
  PROVE  /\ <<a, b, c, d>> \in Cells
         /\ <<a, b, c, d>> # Kept /\ <<a, b, c, d>> # Zero
<1>1. <<a, b, c, d>> \in Cells
  BY DEF Cells
<1>2. Len(<<a, b, c, d>>) = 4 /\ Len(<<>>) = 0 /\ Len(<<0>>) = 1
  OBVIOUS
<1>3. QED
  BY <1>1, <1>2 DEF Kept, Zero

LEMMA KeptAndZeroAreCells == Kept \in Cells /\ Zero \in Cells
BY DEF Kept, Zero, Cells

LEMMA FunctionIsSeq ==
  ASSUME NEW n \in Nat, NEW S, NEW g \in [1 .. n -> S]
  PROVE  g \in Seq(S) /\ Len(g) = n
OBVIOUS

(* A write into the buffer leaves what is before it and puts what it got in  *)
(* its place.                                                                *)
LEMMA WrittenIs ==
  ASSUME NEW old \in Seq(Cells), NEW new \in Seq(Cells), NEW at \in Nat
  PROVE  /\ Written(old, at, new) \in Seq(Cells)
         /\ Len(Written(old, at, new)) >= at + Len(new)
         /\ \A j \in 1 .. at : j <= Len(old) => Written(old, at, new)[j] = old[j]
         /\ \A i \in 1 .. Len(new) : new[i] # Kept => Written(old, at, new)[at + i] = new[i]
<1> DEFINE n == Len(new)
           m == Len(old)
           len == IF at + n > m THEN at + n ELSE m
           W == Written(old, at, new)
           Cell(i) == IF i \in at + 1 .. at + n /\ new[i - at] # Kept THEN new[i - at]
                      ELSE IF i <= m THEN old[i] ELSE Zero
<1>1. n \in Nat /\ m \in Nat /\ DOMAIN old = 1 .. m /\ DOMAIN new = 1 .. n
  OBVIOUS
<1>2. W = [i \in 1 .. len |-> Cell(i)]
  BY DEF Written
<1>3. len \in Nat /\ len >= at + n /\ len >= m
  <2> HIDE DEF n, m
  <2>1. QED
    BY <1>1
<1>4. \A i \in 1 .. m : old[i] \in Cells
  OBVIOUS
<1>5. \A i \in 1 .. n : new[i] \in Cells
  OBVIOUS
<1> HIDE DEF n, m
<1>6. ASSUME NEW i \in 1 .. len PROVE Cell(i) \in Cells
  <2>1. i \in at + 1 .. at + n => i - at \in 1 .. n
    BY <1>1
  <2>2. i <= m => i \in 1 .. m
    BY <1>1, <1>3
  <2>3. QED
    BY <1>4, <1>5, <2>1, <2>2, KeptAndZeroAreCells
<1> HIDE DEF len, W
<1>7. W \in [1 .. len -> Cells]
  BY <1>2, <1>6
<1>8. W \in Seq(Cells) /\ Len(W) = len
  BY <1>3, <1>7, FunctionIsSeq
<1>9. ASSUME NEW j \in 1 .. at, j <= m PROVE W[j] = old[j]
  <2>1. j \in 1 .. len /\ j \notin at + 1 .. at + n
    BY <1>1, <1>3, <1>9
  <2>2. QED
    BY <1>2, <1>9, <2>1
<1>10. ASSUME NEW i \in 1 .. n, new[i] # Kept PROVE W[at + i] = new[i]
  <2>1. at + i \in 1 .. len /\ at + i \in at + 1 .. at + n /\ (at + i) - at = i
    BY <1>1, <1>3
  <2>2. QED
    BY <1>2, <1>10, <2>1
<1>11. QED
  BY <1>3, <1>8, <1>9, <1>10 DEF n, m, W

LEMMA GotIsCells ==
  ASSUME ObjectInv, Usable, NEW t \in Nat, NEW id, NEW bytes \in Nat
  PROVE  ReadDATA1(t, id, bytes) \in Seq(Cells)
<1>1. CASE TrackReads(t) /\ Matching(t, id) # {} /\ sel # -1
  <2>1. t \in 0 .. TRACKS - 1 /\ m_fp # NULL
    BY <1>1, D88Assumption DEF TrackReads
  <2>2. Sectors(t) \in Seq(SectorHeaders) /\ m_curdisk_offset \in Nat
    BY <1>1, <2>1, SelectedSectors
  <2>3. PICK k \in Matching(t, id) :
          ReadDATA1(t, id, bytes) =
            [i \in 1 .. Smaller(bytes, Sectors(t)[k].size) |->
               IF i <= Sectors(t)[k].have THEN <<m_curdisk_offset, t, k, i>> ELSE Kept]
    BY <1>1, <2>2, MatchingIs
  <2>4. Sectors(t)[k].size \in Nat /\ k \in Nat
    BY <2>2, MatchTypes
  <2>5. Smaller(bytes, Sectors(t)[k].size) \in Nat
    BY <2>4 DEF Smaller
  <2> DEFINE n == Smaller(bytes, Sectors(t)[k].size)
             have == Sectors(t)[k].have
  <2>6. ReadDATA1(t, id, bytes) =
          [i \in 1 .. n |-> IF i <= have THEN <<m_curdisk_offset, t, k, i>> ELSE Kept]
    BY <2>3
  <2> HIDE DEF n, have
  <2>7. ReadDATA1(t, id, bytes) \in [1 .. n -> Cells]
    BY <2>2, <2>4, <2>6, FourAreACell, KeptAndZeroAreCells
  <2>8. QED
    BY <2>5, <2>7, FunctionIsSeq DEF n
<1>2. CASE ~TrackReads(t) \/ Matching(t, id) = {} \/ sel = -1
  <2>1. ReadDATA1(t, id, bytes) = <<>>
    <3>1. CASE sel = -1
      BY <3>1, NoDiskNoTrack
    <3>2. CASE ~TrackReads(t) \/ Matching(t, id) = {}
      BY <3>2, NothingIsRead
    <3>3. QED
      BY <1>2, <3>1, <3>2
  <2>2. QED
    BY <2>1
<1>3. QED
  BY <1>1, <1>2

(* A sector that delivers what was asked for delivers its first bytes. *)
LEMMA SectorIsRead ==
  ASSUME ObjectInv, Usable, WholeSectors, NEW t \in Nat, NEW id, NEW bytes \in Nat \ {0},
         ~(Len(ReadDATA1(t, id, bytes)) < bytes)
  PROVE  /\ m_fp # NULL /\ sel # -1 /\ m_curdisk_offset \in Nat
         /\ \E k \in Matching(t, id) :
              /\ k \in Nat
              /\ ReadDATA1(t, id, bytes) = [i \in 1 .. bytes |-> <<m_curdisk_offset, t, k, i>>]
<1> DEFINE got == ReadDATA1(t, id, bytes)
<1>1. got # <<>>
  <2>1. SUFFICES ASSUME got = <<>> PROVE FALSE
    OBVIOUS
  <2> HIDE DEF got
  <2>2. Len(got) = 0
    BY <2>1
  <2>3. QED
    BY <2>2 DEF got
<1>2. TrackReads(t) /\ Matching(t, id) # {} /\ m_fp # NULL /\ sel # -1
  <2>1. TrackReads(t) /\ Matching(t, id) # {}
    BY <1>1, NothingIsRead
  <2>2. m_fp # NULL /\ sel # -1
    BY <1>1, NoDiskNoTrack
  <2>3. QED
    BY <2>1, <2>2
<1>3. t \in 0 .. TRACKS - 1
  BY <1>2, D88Assumption DEF TrackReads
<1>4. /\ m_curdisk_offset \in Nat /\ m_curdisk_offset + 1 \in DOMAIN Image[m_fp]
      /\ Sectors(t) \in Seq(SectorHeaders)
  BY <1>2, <1>3, SelectedSectors
<1>5. PICK k \in Matching(t, id) :
        got = [i \in 1 .. Smaller(bytes, Sectors(t)[k].size) |->
                 IF i <= Sectors(t)[k].have THEN <<m_curdisk_offset, t, k, i>> ELSE Kept]
  BY <1>2, <1>4, MatchingIs
<1> DEFINE sz == Sectors(t)[k].size
           have == Sectors(t)[k].have
           n == Smaller(bytes, sz)
<1>6. sz \in Nat /\ have \in Nat /\ k \in Nat /\ k \in DOMAIN Sectors(t)
  BY <1>4, MatchTypes
<1>7. have >= sz
  <2>1. m_fp \in DOMAIN Image
    BY <1>2 DEF ObjectInv
  <2>2. QED
    BY <1>3, <1>4, <1>6, <2>1 DEF WholeSectors, Sectors
<1> HIDE DEF got, sz, have
<1>8. n \in Nat /\ n <= sz /\ n <= bytes
  BY <1>6 DEF Smaller
<1>9. got = [i \in 1 .. n |-> IF i <= have THEN <<m_curdisk_offset, t, k, i>> ELSE Kept]
  BY <1>5 DEF sz, have
<1> HIDE DEF n
<1>10. got = [i \in 1 .. n |-> <<m_curdisk_offset, t, k, i>>]
  BY <1>6, <1>7, <1>8, <1>9
<1>11. Len(got) = n
  BY <1>8, <1>10
<1>12. n = bytes
  BY <1>8, <1>11 DEF got
<1>13. QED
  BY <1>2, <1>4, <1>6, <1>10, <1>12 DEF got

LEMMA QuotientIs ==
  ASSUME NEW c \in Nat \ {0}, NEW q \in Nat, NEW r \in 0 .. c - 1
  PROVE  (c * q + r) \div c = q /\ (c * q + r) % c = r
<1> DEFINE a == c * q + r
           d == a \div c
           e == a % c
<1>1. a \in Nat /\ c * q \in Nat
  OBVIOUS
<1>2. d \in Nat /\ e \in 0 .. c - 1 /\ a = c * d + e
  <2> HIDE DEF a
  <2>1. QED
    BY <1>1
<1> HIDE DEF d, e
<1>3. c * d \in Nat
  BY <1>2
<1>4. d = q
  <2>1. CASE d < q
    <3>1. c * q >= c * (d + 1)
      BY <1>2, <2>1
    <3>2. c * (d + 1) = c * d + c
      BY <1>2
    <3>3. QED
      BY <1>1, <1>2, <1>3, <3>1, <3>2
  <2>2. CASE d > q
    <3>1. c * d >= c * (q + 1)
      BY <1>2, <2>2
    <3>2. c * (q + 1) = c * q + c
      OBVIOUS
    <3>3. QED
      BY <1>1, <1>2, <1>3, <3>1, <3>2
  <2>3. QED
    BY <1>2, <2>1, <2>2
<1>5. QED
  BY <1>1, <1>2, <1>3, <1>4 DEF d, e

(* What a read has so far, and where it is: as many whole sectors from where *)
(* it started as it has counted, unless it has all that was asked for.       *)
LineInv ==
  /\ "caller" \in DOMAIN buf /\ buf.caller \in Seq(Cells)
  /\ reading =>
       /\ dest = [buffer |-> "caller", at |-> 0]
       /\ N = from.N
       /\ size <= Len(buf.caller)
  /\ reading /\ size < want =>
       /\ secsize = SecSize[from.N]
       /\ \E q \in Nat :
            /\ size = SecSize[from.N] * q
            /\ trk * PerTrack + R - m_minrec = from.trk * PerTrack + from.R - m_minrec + q
  /\ ReadsTheLine

LEMMA InitLine == Init => LineInv
<1> SUFFICES ASSUME Init PROVE LineInv
  OBVIOUS
<1>1. buf = [caller |-> <<>>] /\ ~reading
  BY DEF Init
<1>2. <<>> \in Seq(Cells)
  OBVIOUS
<1>3. QED
  BY <1>1, <1>2 DEF LineInv, ReadsTheLine

LEMMA BufferWritten ==
  ASSUME "caller" \in DOMAIN buf, NEW W, dest.buffer = "caller",
         buf' = [buf EXCEPT ![dest.buffer] = W]
  PROVE  "caller" \in DOMAIN buf' /\ buf'.caller = W
OBVIOUS

LEMMA ReadSectorLine ==
  ASSUME WholeSectors, WalkInv, ObjectInv, ReadInv, LineInv, ReadSector, UNCHANGED from
  PROVE  LineInv'
<1> DEFINE id == <<C, H, R, N>>
           bytes == Smaller(secsize, want - size)
           got == ReadDATA1(trk, id, bytes)
           W == Written(buf.caller, 0 + size, got)
           S == SecSize[from.N]
<1>1. /\ reading /\ size < want /\ secsize' = bytes
      /\ UNCHANGED <<object, N, want, dest, from>>
      /\ buf' = [buf EXCEPT ![dest.buffer] = Written(@, dest.at + size, got)]
  BY DEF ReadSector
<1>2. bytes \in Nat \ {0} /\ size + bytes <= want /\ size \in Nat /\ want \in Nat
  BY <1>1, CutToWhatIsLeft DEF WalkInv, WalkTypes
<1>3. /\ dest = [buffer |-> "caller", at |-> 0] /\ N = from.N /\ size <= Len(buf.caller)
      /\ "caller" \in DOMAIN buf /\ buf.caller \in Seq(Cells)
      /\ secsize = S /\ Usable
  BY <1>1 DEF LineInv, ReadInv
<1>4. "caller" \in DOMAIN buf' /\ buf'.caller = W
  <2>1. dest.buffer = "caller" /\ dest.at = 0
    BY <1>3
  <2>2. buf' = [buf EXCEPT ![dest.buffer] = W]
    <3>1. buf[dest.buffer] = buf.caller
      BY <2>1
    <3>2. QED
      BY <1>1, <2>1, <3>1
  <2> HIDE DEF W
  <2>3. QED
    BY <1>3, <2>1, <2>2, BufferWritten
<1>5. got \in Seq(Cells)
  <2> HIDE DEF bytes, id
  <2>1. QED
    BY <1>2, <1>3, GotIsCells DEF WalkInv, WalkTypes
<1>6. /\ W \in Seq(Cells) /\ Len(W) >= size + Len(got)
      /\ \A j \in 1 .. size : j <= Len(buf.caller) => W[j] = buf.caller[j]
      /\ \A i \in 1 .. Len(got) : got[i] # Kept => W[size + i] = got[i]
  <2> HIDE DEF got
  <2>1. 0 + size = size
    BY <1>2
  <2> DEFINE old == buf.caller
  <2>2. old \in Seq(Cells)
    BY <1>3
  <2>3. W = Written(old, size, got)
    BY <2>1
  <2> HIDE DEF W, old
  <2>4. /\ Written(old, size, got) \in Seq(Cells)
        /\ Len(Written(old, size, got)) >= size + Len(got)
        /\ \A j \in 1 .. size : j <= Len(old) => Written(old, size, got)[j] = old[j]
        /\ \A i \in 1 .. Len(got) : got[i] # Kept => Written(old, size, got)[size + i] = got[i]
    BY <1>2, <1>5, <2>2, WrittenIs
  <2>5. QED
    BY <2>3, <2>4 DEF old
<1> HIDE DEF W
<1>7. CASE Len(got) < bytes
  <2>1. reading' = FALSE
    BY <1>7 DEF ReadSector
  <2>2. QED
    BY <1>4, <1>6, <2>1 DEF LineInv, ReadsTheLine
<1>8. CASE ~(Len(got) < bytes)
  <2>1. size' = size + bytes /\ NextSector /\ reading' = reading
    BY <1>8 DEF ReadSector
  <2>2. PICK k \in Matching(trk, id) :
          /\ k \in Nat
          /\ got = [i \in 1 .. bytes |-> <<m_curdisk_offset, trk, k, i>>]
          /\ m_fp # NULL /\ sel # -1 /\ m_curdisk_offset \in Nat
    <3> HIDE DEF bytes, id
    <3>1. QED
      BY <1>2, <1>3, <1>8, SectorIsRead DEF WalkInv, WalkTypes
  <2>3. Sectors(trk)[k].id = id
    BY DEF Matching
  <2>4. Len(got) = bytes
    <3> HIDE DEF bytes, got
    <3>1. QED
      BY <1>2, <2>2
  <2>5. size' <= Len(buf'.caller)
    BY <1>4, <1>6, <2>1, <2>4
  <2>6. PICK q \in Nat :
          /\ size = S * q
          /\ trk * PerTrack + R - m_minrec = from.trk * PerTrack + from.R - m_minrec + q
    BY <1>1 DEF LineInv
  <2>7. S \in Nat \ {0}
    BY <1>3 DEF WalkInv, WalkTypes
  <2>8. bytes <= S
    BY <1>2, <1>3, <2>7 DEF Smaller
  <2>9. /\ PerTrack' = PerTrack /\ m_minrec' = m_minrec /\ m_maxrec' = m_maxrec
        /\ m_disk_offset' = m_disk_offset /\ sel' = sel
        /\ m_fp' = m_fp /\ m_curdisk_offset' = m_curdisk_offset
    BY <1>1 DEF PerTrack, object
  <2>10. PerTrack \in Int /\ m_minrec \in Nat /\ m_maxrec \in Nat /\ R \in Nat /\ trk \in Nat
         /\ from.trk \in Nat /\ from.R \in Nat
    BY DEF PerTrack, WalkInv, WalkTypes
  <2>11. size' < want' =>
           /\ secsize' = S
           /\ size' = S * (q + 1)
           /\ trk' * PerTrack' + R' - m_minrec' = from'.trk * PerTrack' + from'.R - m_minrec' + (q + 1)
    <3>1. SUFFICES ASSUME size' < want'
                   PROVE  /\ secsize' = S
                          /\ size' = S * (q + 1)
                          /\ trk' * PerTrack' + R' - m_minrec' = from'.trk * PerTrack' + from'.R - m_minrec' + (q + 1)
      OBVIOUS
    <3>2. bytes = S
      BY <1>1, <1>2, <1>3, <2>1, <2>7, <3>1 DEF Smaller
    <3>3. S * (q + 1) = S * q + S
      BY <2>7
    <3>4. trk' * PerTrack + R' - m_minrec = (trk * PerTrack + R - m_minrec) + 1
      BY <2>1, <2>9, NextIsOneFurther DEF WalkInv
    <3>5. from.trk * PerTrack \in Int
      BY <2>10
    <3>6. (from.trk * PerTrack + from.R - m_minrec + q) + 1 = from.trk * PerTrack + from.R - m_minrec + (q + 1)
      <4> DEFINE x == from.trk * PerTrack
                 y == from.R
      <4>1. x \in Int /\ y \in Int
        BY <2>10, <3>5
      <4> HIDE DEF x, y
      <4>2. (x + y - m_minrec + q) + 1 = x + y - m_minrec + (q + 1)
        BY <2>10, <4>1
      <4>3. QED
        BY <4>2 DEF x, y
    <3>7. trk' * PerTrack + R' - m_minrec = from.trk * PerTrack + from.R - m_minrec + (q + 1)
      BY <2>6, <3>4, <3>6
    <3>8. size' = S * (q + 1)
      BY <2>1, <2>6, <3>2, <3>3
    <3>9. secsize' = S
      BY <1>1, <3>2
    <3>10. QED
      BY <1>1, <2>9, <3>7, <3>8, <3>9
  <2>12. ReadsTheLine'
    <3> DEFINE per == PerTrack
               place(j) == from.trk * per + from.R - m_minrec + (j - 1) \div S
               Right(j, byte) ==
                 /\ byte # Kept /\ byte # Zero
                 /\ byte[1] = m_disk_offset[sel]
                 /\ byte[2] = place(j) \div per
                 /\ Sectors(byte[2])[byte[3]].id = SectorOf(place(j))
                 /\ byte[4] = ((j - 1) % S) + 1
    <3>1. SUFFICES ASSUME Physical(from), NEW j \in 1 .. size + bytes
                   PROVE  Right(j, W[j])
      <4>1. from' = from /\ Physical(from)' = Physical(from)
        BY <1>1, <2>9 DEF Physical
      <4>2. \A t : Sectors(t)' = Sectors(t)
        BY <2>9 DEF Sectors
      <4>3. \A p : SectorOf(p)' = SectorOf(p)
        BY <1>1, <2>9 DEF SectorOf
      <4>4. QED
        BY <1>1, <1>4, <2>1, <2>9, <4>1, <4>2, <4>3 DEF ReadsTheLine
    <3>2. CASE j <= size
      <4>1. j \in 1 .. size /\ W[j] = buf.caller[j]
        BY <1>2, <1>3, <1>6, <3>2
      <4>2. Right(j, buf.caller[j])
        BY <1>1, <3>1, <4>1 DEF LineInv, ReadsTheLine
      <4>3. QED
        BY <4>1, <4>2
    <3>3. CASE size < j
      <4> DEFINE i == j - size
      <4>1. i \in 1 .. bytes /\ j = size + i
        BY <1>2, <3>3
      <4>2. W[j] = <<m_curdisk_offset, trk, k, i>>
        <5>1. got[i] = <<m_curdisk_offset, trk, k, i>>
          BY <2>2, <4>1
        <5>2. got[i] # Kept
          <6>1. i \in Nat
            BY <1>2, <4>1
          <6>2. <<m_curdisk_offset, trk, k, i>> # Kept
            <7> HIDE DEF i
            <7>1. QED
              BY <2>2, <2>10, <6>1, FourAreACell
          <6>3. QED
            BY <5>1, <6>2
        <5>3. W[size + i] = got[i]
          <6> HIDE DEF got, i
          <6>1. QED
            BY <1>6, <2>4, <4>1, <5>2
        <5>4. QED
          BY <4>1, <5>1, <5>3
      <4>3. /\ W[j] # Kept /\ W[j] # Zero /\ W[j][1] = m_curdisk_offset
            /\ W[j][2] = trk /\ W[j][3] = k /\ W[j][4] = i
        BY <2>2, <2>10, <4>1, <4>2, FourAreACell
      <4>4. m_curdisk_offset = m_disk_offset[sel]
        BY <1>3, <2>2 DEF Usable, ObjectInv
      <4>5. (j - 1) \div S = q /\ (j - 1) % S = i - 1
        <5>1. j - 1 = S * q + (i - 1) /\ i - 1 \in 0 .. S - 1
          BY <1>2, <2>6, <2>7, <2>8, <4>1
        <5> HIDE DEF S, i
        <5>2. QED
          BY <2>7, <5>1, QuotientIs
      <4>6. place(j) = trk * per + R - m_minrec
        BY <2>6, <4>5
      <4>7. Physical([trk |-> trk, C |-> C, H |-> H, R |-> R])
        BY <1>1, <3>1 DEF WalkInv, StaysPhysical
      <4>8. C = trk \div 2 /\ H = trk % 2 /\ m_minrec <= R /\ R <= m_maxrec
        BY <2>10, <4>7 DEF Physical
      <4>9. place(j) \div per = trk /\ place(j) % per = R - m_minrec
        <5>1. per = m_maxrec - m_minrec + 1
          BY DEF PerTrack
        <5>2. per \in Nat \ {0} /\ R - m_minrec \in 0 .. per - 1
          BY <2>10, <4>8, <5>1
        <5> HIDE DEF per, place
        <5>3. place(j) = per * trk + (R - m_minrec)
          BY <2>10, <4>6, <5>2
        <5>4. QED
          BY <2>10, <5>2, <5>3, QuotientIs
      <4>10. SectorOf(place(j)) = id
        <5>1. m_minrec + (R - m_minrec) = R
          BY <2>10
        <5> HIDE DEF place
        <5>2. QED
          BY <1>3, <4>8, <4>9, <5>1 DEF SectorOf
      <4>11. QED
        BY <2>3, <4>1, <4>3, <4>4, <4>5, <4>9, <4>10
    <3>4. QED
      BY <1>2, <3>2, <3>3
  <2>13. QED
    BY <1>1, <1>3, <1>4, <1>6, <2>1, <2>5, <2>11, <2>12 DEF LineInv
<1>9. QED
  BY <1>7, <1>8

LEMMA NextLine ==
  ASSUME WholeSectors, WalkInv, ObjectInv, ReadInv, LineInv, [Next]_vars
  PROVE  LineInv'
<1>1. CASE Configure
  <2>1. ~reading' /\ buf' = buf
    BY <1>1 DEF Configure
  <2>2. QED
    BY <2>1 DEF LineInv, ReadsTheLine
<1>2. CASE Ask
  <2>1. PICK r \in Reads : /\ StartRead(r.trk, r.C, r.H, r.R, r.N, "caller", 0, r.want)
                           /\ from' = r
    BY <1>2 DEF Ask
  <2>2. r \in [trk : Nat, C : Nat, H : {0, 1}, R : Nat, N : N_Codes, want : Nat]
    BY ClientAssumption
  <2>3. /\ trk' = r.trk /\ R' = r.R /\ N' = r.N /\ size' = 0 /\ secsize' = SecSize[r.N]
        /\ want' = r.want /\ dest' = [buffer |-> "caller", at |-> 0]
        /\ UNCHANGED <<m_minrec, m_maxrec>> /\ buf' = buf
    BY <1>2, <2>1 DEF Ask, StartRead, object
  <2>4. size' <= Len(buf'.caller)
    <3>1. Len(buf.caller) \in Nat
      BY DEF LineInv
    <3>2. QED
      BY <2>3, <3>1
  <2>5. /\ secsize' = SecSize[from'.N] /\ size' = SecSize[from'.N] * 0
        /\ trk' * PerTrack' + R' - m_minrec' = from'.trk * PerTrack' + from'.R - m_minrec' + 0
    <3>1. secsize' = SecSize[from'.N] /\ SecSize[from'.N] \in Nat
      BY <2>1, <2>2, <2>3, D88Assumption
    <3>2. PerTrack' \in Int /\ m_minrec' \in Int
      BY <2>3 DEF PerTrack, WalkInv, WalkTypes
    <3>3. r.trk * PerTrack' \in Int
      BY <2>2, <3>2
    <3>4. r.trk * PerTrack' + r.R - m_minrec' + 0 = r.trk * PerTrack' + r.R - m_minrec'
      BY <2>2, <3>2, <3>3
    <3>5. QED
      BY <2>1, <2>3, <3>1, <3>4
  <2>6. ReadsTheLine'
    BY <2>3 DEF ReadsTheLine
  <2>7. QED
    BY <2>1, <2>3, <2>4, <2>5, <2>6 DEF LineInv
<1>3. CASE ReadSector /\ UNCHANGED from
  BY <1>3, ReadSectorLine
<1>4. CASE EndRead /\ UNCHANGED from
  <2>1. ~reading' /\ buf' = buf
    BY <1>4 DEF EndRead
  <2>2. QED
    BY <2>1 DEF LineInv, ReadsTheLine
<1>5. CASE UNCHANGED vars
  <2>1. UNCHANGED <<m_fp, m_minrec, m_maxrec, m_disk_offset, m_curdisk_offset, sel, buf, reading,
                    dest, N, from, size, want, secsize, trk, R>>
    BY <1>5 DEF vars, d88vars, object, address, transfer
  <2>2. PerTrack' = PerTrack /\ Physical(from)' = Physical(from)
    BY <2>1 DEF PerTrack, Physical
  <2>3. \A t : Sectors(t)' = Sectors(t)
    BY <2>1 DEF Sectors
  <2>4. \A p : SectorOf(p)' = SectorOf(p)
    BY <2>1, <2>2 DEF SectorOf
  <2>5. ReadsTheLine'
    BY <2>1, <2>2, <2>3, <2>4 DEF LineInv, ReadsTheLine
  <2>6. QED
    BY <2>1, <2>2, <2>5 DEF LineInv
<1>6. QED
  BY <1>1, <1>2, <1>3, <1>4, <1>5 DEF Next

(* However many tracks and heads a read crosses, and whatever was read or    *)
(* selected before, each byte of the buffer is the byte its number says of   *)
(* the sector that many places after the start, in the selected disk.        *)
THEOREM LineIsRead ==
  ASSUME WholeSectors
  PROVE  Spec => []ReadsTheLine
<1>1. Init => ClientInv /\ LineInv
  BY InitWalk, InitObject, InitRead, InitLine DEF ClientInv
<1>2. ClientInv /\ LineInv /\ [Next]_vars => (ClientInv /\ LineInv)'
  BY NextWalk, NextObject, NextRead, NextLine DEF ClientInv
<1>3. LineInv => ReadsTheLine
  BY DEF LineInv
<1>4. QED
  BY <1>1, <1>2, <1>3, PTL DEF Spec
================================================================================
