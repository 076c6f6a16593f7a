---------------------------- MODULE MusicScanProofs ----------------------------
(***************************************************************************)
(* The scan of load_music against the format it reads, for every file,     *)
(* buffer, number of pointers and number of channels: the one pass over    *)
(* the bytes, with the pointers it has room for, accepts what is           *)
(* well-formed and nothing else.                                           *)
(***************************************************************************)
EXTENDS MusicScan, FiniteSetTheorems, SequenceTheorems, TLAPS

(* The bytes looked at: all before si, and in a string its own start too.  *)
Seen == {i \in Starts(file) : i < si \/ (pc = "next" /\ i = si)}

Increasing(s) == \A i, j \in 1 .. Len(s) : i < j => s[i] < s[j]

Elements(s) == {s[i] : i \in 1 .. Len(s)}

ScanTypes ==
  /\ file \in Seq(Nat)
  /\ si \in 1 .. Len(file) + 1
  /\ ptrs \in Seq(Nat)
  /\ count \in Nat
  /\ pc \in {"read", "scan", "next", "end", "loaded", "fatal"}

(* The pointers are the starts the scan has passed, none of them a         *)
(* terminator; and at each label, where in the file it stands.             *)
Scanned ==
  /\ Len(ptrs) <= PtrRoom
  /\ Increasing(ptrs)
  /\ Elements(ptrs) = Seen
  /\ \A i \in Seen : file[i] # TERMINATOR

Placed ==
  /\ pc = "read" => si = 1
  /\ pc \notin {"read", "fatal"} => Len(file) \in 2 .. BufferSize - 1
  /\ pc = "scan" => si = Len(file) + 1 \/ si \in Starts(file)
  /\ pc \in {"end", "loaded"} => si \in Terminators(file)

Judged ==
  /\ pc = "loaded" => WellFormed(file) /\ Channels * count = Cardinality(Strings(file))
  /\ pc = "fatal" => ~WellFormed(file)

ScanInv == ScanTypes /\ Scanned /\ Placed /\ Judged

-------------------------------------------------------------------------------
(* Division, as far as End uses it. *)
LEMMA DivideExactly ==
  ASSUME NEW a \in Nat, NEW c \in Nat \ {0}
  PROVE  /\ a \div c \in Nat /\ a % c \in 0 .. c - 1
         /\ a = c * (a \div c) + (a % c)
OBVIOUS

LEMMA QuotientsInOrder ==
  ASSUME NEW c \in Nat \ {0}, NEW p \in Nat, NEW q \in Nat,
         NEW r \in 0 .. c - 1, NEW s \in 0 .. c - 1,
         c * q + r <= c * p + s
  PROVE  q <= p
<1>1. SUFFICES ASSUME q > p PROVE FALSE
  OBVIOUS
<1>2. c * q >= c * (p + 1)
  BY <1>1
<1>3. c * (p + 1) = c * p + c /\ c * p \in Nat /\ c * q \in Nat
  OBVIOUS
<1>4. QED
  BY <1>2, <1>3

LEMMA DivideMonotonic ==
  ASSUME NEW a \in Nat, NEW b \in Nat, NEW c \in Nat \ {0}, a <= b
  PROVE  a \div c <= b \div c
BY DivideExactly, QuotientsInOrder

LEMMA DivideMultiple ==
  ASSUME NEW q \in Nat, NEW c \in Nat \ {0}
  PROVE  (c * q) \div c = q /\ (c * q) % c = 0
OBVIOUS

-------------------------------------------------------------------------------
(* A pointer more than all before it keeps them in order. *)
LEMMA OneMore ==
  ASSUME NEW s \in Seq(Nat), Increasing(s), NEW x \in Nat, \A y \in Elements(s) : y < x
  PROVE  /\ Append(s, x) \in Seq(Nat)
         /\ Increasing(Append(s, x))
         /\ Elements(Append(s, x)) = Elements(s) \cup {x}
<1>1. /\ Append(s, x) \in Seq(Nat)
      /\ Len(Append(s, x)) = Len(s) + 1
      /\ \A i \in 1 .. Len(s) : Append(s, x)[i] = s[i]
      /\ Append(s, x)[Len(s) + 1] = x
  BY AppendProperties
<1>2. Increasing(Append(s, x))
  <2>1. SUFFICES ASSUME NEW i \in 1 .. Len(s) + 1, NEW j \in 1 .. Len(s) + 1, i < j
                 PROVE  Append(s, x)[i] < Append(s, x)[j]
    BY <1>1 DEF Increasing
  <2>2. i \in 1 .. Len(s) /\ Append(s, x)[i] = s[i]
    BY <1>1, <2>1
  <2>3. CASE j \in 1 .. Len(s)
    BY <1>1, <2>1, <2>2, <2>3 DEF Increasing
  <2>4. CASE j = Len(s) + 1
    BY <1>1, <2>2, <2>4 DEF Elements
  <2>5. QED
    BY <2>1, <2>3, <2>4
<1>3. Elements(Append(s, x)) = Elements(s) \cup {x}
  <2>1. ASSUME NEW y \in Elements(Append(s, x)) PROVE y \in Elements(s) \cup {x}
    <3>1. PICK i \in 1 .. Len(s) + 1 : y = Append(s, x)[i]
      BY <1>1, <2>1 DEF Elements
    <3>2. QED
      BY <1>1, <3>1 DEF Elements
  <2>2. ASSUME NEW y \in Elements(s) PROVE y \in Elements(Append(s, x))
    <3>1. PICK i \in 1 .. Len(s) : y = s[i]
      BY <2>2 DEF Elements
    <3>2. i \in 1 .. Len(Append(s, x)) /\ y = Append(s, x)[i]
      BY <1>1, <3>1
    <3>3. QED
      BY <3>2 DEF Elements
  <2>3. x \in Elements(Append(s, x))
    BY <1>1 DEF Elements
  <2>4. QED
    BY <2>1, <2>2, <2>3
<1>4. QED
  BY <1>1, <1>2, <1>3

(* As many pointers as there are places they point to. *)
LEMMA AsManyAsElements ==
  ASSUME NEW s \in Seq(Nat), Increasing(s)
  PROVE  Cardinality(Elements(s)) = Len(s)
<1>1. s \in [1 .. Len(s) -> Elements(s)]
  <2>1. DOMAIN s = 1 .. Len(s) /\ s = [i \in 1 .. Len(s) |-> s[i]]
    BY LenProperties
  <2>2. \A i \in 1 .. Len(s) : s[i] \in Elements(s)
    BY DEF Elements
  <2>3. QED
    BY <2>1, <2>2
<1>2. ASSUME NEW i \in 1 .. Len(s), NEW j \in 1 .. Len(s), s[i] = s[j] PROVE i = j
  <2>1. s[i] \in Nat /\ s[j] \in Nat /\ i \in Nat /\ j \in Nat
    BY ElementOfSeq, LenProperties
  <2>2. i < j \/ j < i \/ i = j
    BY <2>1
  <2>3. QED
    BY <1>2, <2>1, <2>2 DEF Increasing
<1>3. s \in Bijection(1 .. Len(s), Elements(s))
  BY <1>1, <1>2, LenProperties DEF Bijection, Injection, Surjection, IsInjective, Elements
<1>4. ExistsBijection(1 .. Len(s), Elements(s)) /\ Len(s) \in Nat
  BY <1>3, LenProperties DEF ExistsBijection
<1>5. QED
  BY <1>4, FS_CountingElements

LEMMA StringsAreFinite ==
  ASSUME NEW f \in Seq(Nat)
  PROVE  IsFiniteSet(Strings(f)) /\ Strings(f) \in SUBSET (1 .. Len(f))
<1>1. Strings(f) \in SUBSET (1 .. Len(f))
  BY DEF Strings, Starts
<1>2. Len(f) \in Nat
  BY LenProperties
<1>3. IsFiniteSet(1 .. Len(f))
  BY <1>2, FS_Interval
<1>4. QED
  BY <1>1, <1>3, FS_Subset

LEMMA FirstTerminator ==
  ASSUME NEW f \in Seq(Nat), NEW t \in Terminators(f), \A u \in Terminators(f) : t <= u
  PROVE  /\ Min(Terminators(f)) = t
         /\ Strings(f) = {i \in Starts(f) : i < t}
<1>1. Terminators(f) \subseteq Nat /\ Starts(f) \subseteq Nat
  BY LenProperties DEF Terminators, Starts
<1>2. Min(Terminators(f)) \in Terminators(f) /\ \A u \in Terminators(f) : Min(Terminators(f)) <= u
  BY DEF Min
<1>3. Min(Terminators(f)) = t
  BY <1>1, <1>2
<1>4. Strings(f) = {i \in Starts(f) : i < t}
  BY <1>1 DEF Strings
<1>5. QED
  BY <1>3, <1>4

(* A file of less than two bytes has no room for the end of the format.    *)
LEMMA TooShort ==
  ASSUME NEW f \in Seq(Nat), Len(f) < 2
  PROVE  ~WellFormed(f)
<1> SUFFICES ASSUME WellFormed(f) PROVE FALSE
  OBVIOUS
<1>1. Terminators(f) \subseteq 1 .. Len(f) /\ Len(f) \in Nat
  BY LenProperties DEF Terminators, Starts
<1>2. PICK t \in Terminators(f) : TRUE
  BY DEF WellFormed
<1>3. Len(f) = 1 /\ Terminators(f) = {1}
  <2>1. t \in 1 .. Len(f)
    BY <1>1
  <2>2. Len(f) = 1
    <3> DEFINE n == Len(f)
    <3>1. n \in Nat /\ n < 2 /\ t \in 1 .. n
      BY <1>1, <2>1
    <3> HIDE DEF n
    <3>2. n = 1
      BY <3>1
    <3>3. QED
      BY <3>2 DEF n
  <2>3. \A u \in Terminators(f) : u = 1
    BY <1>1, <2>2
  <2>4. QED
    BY <1>2, <2>2, <2>3
<1>4. Min(Terminators(f)) = 1
  BY <1>3 DEF Min
<1>5. QED
  BY <1>3, <1>4 DEF WellFormed

-------------------------------------------------------------------------------
LEMMA InitScan == Init => ScanInv
<1> SUFFICES ASSUME Init PROVE ScanInv
  OBVIOUS
<1>1. file \in Seq(Nat)
  <2>1. PICK n \in Lengths : file \in [1 .. n -> Bytes]
    BY DEF Init, Files
  <2>2. n \in Nat /\ file \in [1 .. n -> Nat]
    BY <2>1, MusicScanAssumption
  <2>3. QED
    BY <2>2
<1>2. si = 1 /\ ptrs = <<>> /\ count = 0 /\ pc = "read"
  BY DEF Init
<1>3. Seen = {}
  BY <1>1, <1>2 DEF Seen, Starts
<1>4. ScanTypes
  BY <1>1, <1>2, LenProperties DEF ScanTypes
<1>5. Scanned
  BY <1>2, <1>3, MusicScanAssumption DEF Scanned, Increasing, Elements
<1>6. QED
  BY <1>2, <1>4, <1>5 DEF ScanInv, Placed, Judged

LEMMA ReadKeeps == ScanInv /\ Read => ScanInv'
<1> SUFFICES ASSUME ScanInv, Read PROVE ScanInv'
  OBVIOUS
<1>1. /\ pc = "read" /\ si = 1 /\ UNCHANGED <<file, si, ptrs, count>>
      /\ Len(file) \in Nat /\ file \in Seq(Nat)
  BY LenProperties DEF Read, At, ScanInv, ScanTypes, Placed
<1>2. Seen = {} /\ Seen' = {}
  BY <1>1 DEF Seen, Starts, Read, Goto
<1>3. Scanned'
  BY <1>1, <1>2 DEF ScanInv, Scanned
<1>4. CASE Len(file) \in 2 .. BufferSize - 1
  <2>1. pc' = "scan" /\ si \in Starts(file)
    BY <1>1, <1>4 DEF Read, Goto, Starts
  <2>2. QED
    BY <1>1, <1>3, <1>4, <2>1 DEF ScanInv, ScanTypes, Placed, Judged, Starts
<1>5. CASE Len(file) \notin 2 .. BufferSize - 1
  <2>1. pc' = "fatal"
    BY <1>5 DEF Read, Goto
  <2>2. ~WellFormed(file)
    <3>1. CASE Len(file) < 2
      BY <1>1, <3>1, TooShort
    <3>2. CASE ~(Len(file) < BufferSize)
      BY <3>2 DEF WellFormed
    <3>3. QED
      BY <1>1, <1>5, <3>1, <3>2, MusicScanAssumption
  <2>3. QED
    BY <1>1, <1>3, <2>1, <2>2 DEF ScanInv, ScanTypes, Placed, Judged
<1>6. QED
  BY <1>4, <1>5

(* At the end of the file every start has been seen: there is no           *)
(* terminator.                                                             *)
LEMMA EndWithoutTerminator ==
  ASSUME ScanInv, si = Len(file) + 1
  PROVE  ~WellFormed(file)
<1>1. Starts(file) = Seen
  BY LenProperties DEF ScanInv, ScanTypes, Starts, Seen
<1>2. Terminators(file) = {}
  BY <1>1 DEF Terminators, ScanInv, Scanned
<1>3. QED
  BY <1>2 DEF WellFormed

(* No terminator before the place the scan has reached. *)
LEMMA NoneBehind ==
  ASSUME ScanInv, pc # "next"
  PROVE  \A t \in Terminators(file) : si <= t
<1>1. \A t \in Terminators(file) : t \in Starts(file) /\ t \in Nat /\ t \notin Seen
  BY LenProperties DEF Terminators, Starts, ScanInv, ScanTypes, Scanned
<1>2. QED
  BY <1>1 DEF Seen, ScanInv, ScanTypes

LEMMA ScanKeeps == ScanInv /\ Scan => ScanInv'
<1> SUFFICES ASSUME ScanInv, Scan PROVE ScanInv'
  OBVIOUS
<1>1. /\ pc = "scan" /\ UNCHANGED <<file, si, count>>
      /\ file \in Seq(Nat) /\ Len(file) \in Nat /\ si \in 1 .. Len(file) + 1
      /\ ptrs \in Seq(Nat) /\ Len(ptrs) \in Nat
      /\ Len(file) \in 2 .. BufferSize - 1
  BY LenProperties DEF Scan, At, ScanInv, ScanTypes, Placed
<1>2. CASE AtEnd
  <2>1. si = Len(file) + 1 /\ pc' = "fatal" /\ UNCHANGED ptrs
    BY <1>1, <1>2 DEF AtEnd, Scan, Goto
  <2>2. ~WellFormed(file)
    BY <2>1, EndWithoutTerminator
  <2>3. Seen' = Seen
    BY <1>1, <2>1 DEF Seen
  <2>4. QED
    BY <1>1, <2>1, <2>2, <2>3 DEF ScanInv, ScanTypes, Scanned, Placed, Judged
<1>3. CASE ~AtEnd
  <2>1. si \in Starts(file) /\ si \in 1 .. Len(file) /\ file[si] \in Nat
    BY <1>1, <1>3, ElementOfSeq DEF AtEnd, ScanInv, Placed
  <2>2. CASE file[si] = TERMINATOR
    <3>1. pc' = "end" /\ UNCHANGED ptrs /\ si \in Terminators(file)
      BY <1>3, <2>1, <2>2 DEF Scan, Goto, Terminators
    <3>2. Seen' = Seen
      BY <1>1, <3>1 DEF Seen
    <3>3. QED
      BY <1>1, <3>1, <3>2 DEF ScanInv, ScanTypes, Scanned, Placed, Judged
  <2>3. CASE file[si] # TERMINATOR /\ Len(ptrs) >= PtrRoom
    <3>1. pc' = "fatal" /\ UNCHANGED ptrs
      BY <1>3, <2>3 DEF Scan, Goto
    <3>2. Seen' = Seen
      BY <1>1, <3>1 DEF Seen
    <3>3. ~WellFormed(file)
      <4>1. \A t \in Terminators(file) : si < t
        <5>1. \A t \in Terminators(file) : si <= t /\ t \in Nat /\ t # si
          BY <1>1, <2>3, NoneBehind DEF Terminators, Starts
        <5>2. QED
          BY <1>1, <5>1
      <4>2. Seen \cup {si} \in SUBSET Strings(file)
        <5>1. ASSUME NEW i \in Seen \cup {si} PROVE i \in Strings(file)
          <6>1. i \in Starts(file) /\ i \in Nat /\ i <= si
            BY <1>1, <2>1 DEF Seen, Starts
          <6>2. \A t \in Terminators(file) : t \in Nat
            BY <1>1 DEF Terminators, Starts
          <6>3. QED
            BY <1>1, <4>1, <6>1, <6>2 DEF Strings
        <5>2. QED
          BY <5>1
      <4>3. si \notin Seen
        BY <1>1 DEF Seen
      <4>4. IsFiniteSet(Strings(file)) /\ IsFiniteSet(Seen \cup {si}) /\ IsFiniteSet(Seen)
        BY <1>1, <4>2, StringsAreFinite, FS_Subset
      <4>5. Cardinality(Seen) = Len(ptrs)
        BY <1>1, AsManyAsElements DEF ScanInv, Scanned
      <4>6. Cardinality(Seen \cup {si}) = Len(ptrs) + 1
        BY <4>3, <4>4, <4>5, FS_AddElement
      <4>7. Cardinality(Strings(file)) >= Len(ptrs) + 1 /\ Cardinality(Strings(file)) \in Nat
        BY <4>2, <4>4, <4>6, FS_Subset, FS_CardinalityType
      <4>8. ASSUME NEW n \in 2 .. PtrRoom \div Channels PROVE Channels * n <= PtrRoom
        <5>1. /\ PtrRoom \div Channels \in Nat
              /\ PtrRoom = Channels * (PtrRoom \div Channels) + (PtrRoom % Channels)
              /\ PtrRoom % Channels >= 0
          BY DivideExactly, MusicScanAssumption
        <5>2. n <= PtrRoom \div Channels /\ n \in Nat
          BY <4>8, <5>1
        <5>3. Channels * n <= Channels * (PtrRoom \div Channels)
          BY <5>1, <5>2, MusicScanAssumption
        <5>4. Channels * n \in Nat /\ Channels * (PtrRoom \div Channels) \in Nat
              /\ PtrRoom % Channels \in Nat
          BY <5>1, <5>2, DivideExactly, MusicScanAssumption
        <5>5. QED
          BY <5>1, <5>3, <5>4
      <4>9. ASSUME NEW n \in 2 .. PtrRoom \div Channels PROVE Cardinality(Strings(file)) # Channels * n
        <5>1. Channels * n <= PtrRoom
          BY <4>8
        <5>2. Channels * n \in Int
          BY MusicScanAssumption
        <5>3. Cardinality(Strings(file)) > PtrRoom
          <6> DEFINE k == Cardinality(Strings(file))
                     l == Len(ptrs)
          <6>1. l \in Nat /\ l >= PtrRoom /\ k \in Nat /\ k >= l + 1
            BY <1>1, <2>3, <4>7
          <6> HIDE DEF k, l
          <6>2. k > PtrRoom
            BY <6>1, MusicScanAssumption
          <6>3. QED
            BY <6>2 DEF k
        <5>4. QED
          BY <4>7, <5>1, <5>2, <5>3, MusicScanAssumption
      <4>10. QED
        BY <4>9 DEF WellFormed
    <3>4. QED
      BY <1>1, <3>1, <3>2, <3>3 DEF ScanInv, ScanTypes, Scanned, Placed, Judged
  <2>4. CASE file[si] # TERMINATOR /\ ~(Len(ptrs) >= PtrRoom)
    <3>1. pc' = "next" /\ ptrs' = Append(ptrs, si)
      BY <1>3, <2>4 DEF Scan, Goto
    <3>2. Seen' = Seen \cup {si}
      BY <1>1, <2>1, <3>1 DEF Seen
    <3>3. Increasing(ptrs) /\ Elements(ptrs) = Seen /\ \A y \in Elements(ptrs) : y < si
      BY <1>1 DEF ScanInv, Scanned, Seen
    <3>4. ptrs' \in Seq(Nat) /\ Increasing(ptrs') /\ Elements(ptrs') = Seen'
      BY <1>1, <3>1, <3>2, <3>3, OneMore
    <3>5. Len(ptrs') <= PtrRoom
      <4>1. Len(ptrs') = Len(ptrs) + 1
        BY <1>1, <3>1, AppendProperties
      <4>2. QED
        BY <1>1, <2>4, <4>1, MusicScanAssumption
    <3>6. \A i \in Seen' : file'[i] # TERMINATOR
      BY <1>1, <2>4, <3>2 DEF ScanInv, Scanned
    <3>7. Scanned'
      BY <3>4, <3>5, <3>6 DEF Scanned
    <3>8. QED
      BY <1>1, <3>1, <3>4, <3>7 DEF ScanInv, ScanTypes, Placed, Judged
  <2>5. QED
    BY <2>2, <2>3, <2>4
<1>4. QED
  BY <1>2, <1>3

LEMMA SkipByteKeeps == ScanInv /\ SkipByte => ScanInv'
<1> SUFFICES ASSUME ScanInv, SkipByte PROVE ScanInv'
  OBVIOUS
<1>1. /\ pc = "next" /\ UNCHANGED <<file, ptrs, count>>
      /\ file \in Seq(Nat) /\ Len(file) \in Nat /\ si \in 1 .. Len(file) + 1
      /\ Len(file) \in 2 .. BufferSize - 1
  BY LenProperties DEF SkipByte, At, ScanInv, ScanTypes, Placed
<1>2. CASE AtEnd
  <2>1. si = Len(file) + 1 /\ pc' = "fatal" /\ UNCHANGED si
    BY <1>1, <1>2 DEF AtEnd, SkipByte, Goto
  <2>2. ~WellFormed(file)
    BY <2>1, EndWithoutTerminator
  <2>3. Seen' = Seen
    BY <1>1, <2>1 DEF Seen, Starts
  <2>4. QED
    BY <1>1, <2>1, <2>2, <2>3 DEF ScanInv, ScanTypes, Scanned, Placed, Judged
<1>3. CASE ~AtEnd
  <2>1. si \in 1 .. Len(file) /\ si' = si + 1 /\ si + 1 \in 1 .. Len(file) + 1
    BY <1>1, <1>3 DEF AtEnd, SkipByte
  <2>2. CASE file[si] = NUL
    <3>1. pc' = "scan"
      BY <1>3, <2>2 DEF SkipByte, Goto
    <3>2. Seen' = Seen
      BY <1>1, <2>1, <3>1 DEF Seen, Starts
    <3>3. si + 1 = Len(file) + 1 \/ si + 1 \in Starts(file)
      BY <1>1, <2>1, <2>2 DEF Starts
    <3>4. QED
      BY <1>1, <2>1, <3>1, <3>2, <3>3 DEF ScanInv, ScanTypes, Scanned, Placed, Judged
  <2>3. CASE file[si] # NUL
    <3>1. pc' = "next"
      BY <1>3, <2>3 DEF SkipByte, Goto
    <3>2. si + 1 \notin Starts(file)
      BY <1>1, <2>1, <2>3 DEF Starts
    <3>3. Seen' = Seen
      BY <1>1, <2>1, <3>1, <3>2 DEF Seen, Starts
    <3>4. QED
      BY <1>1, <2>1, <3>1, <3>3 DEF ScanInv, ScanTypes, Scanned, Placed, Judged
  <2>4. QED
    BY <2>2, <2>3
<1>4. QED
  BY <1>2, <1>3

(* At the first terminator the pointers are the strings of the file.       *)
LEMMA AtTheTerminator ==
  ASSUME ScanInv, pc \in {"end", "loaded"}
  PROVE  /\ Terminators(file) # {}
         /\ Min(Terminators(file)) = si
         /\ Strings(file) = Seen
         /\ Cardinality(Strings(file)) = Len(ptrs)
<1>1. si \in Terminators(file) /\ \A t \in Terminators(file) : si <= t
  BY NoneBehind DEF ScanInv, Placed
<1>2. Min(Terminators(file)) = si /\ Strings(file) = {i \in Starts(file) : i < si}
  BY <1>1, FirstTerminator DEF ScanInv, ScanTypes
<1>3. Strings(file) = Seen
  BY <1>2 DEF Seen
<1>4. Cardinality(Seen) = Len(ptrs)
  BY AsManyAsElements DEF ScanInv, ScanTypes, Scanned
<1>5. QED
  BY <1>1, <1>2, <1>3, <1>4

LEMMA EndKeeps == ScanInv /\ End => ScanInv'
<1> SUFFICES ASSUME ScanInv, End PROVE ScanInv'
  OBVIOUS
<1> DEFINE phrases == Len(ptrs) \div Channels
           good == /\ si + 1 = Len(file)
                   /\ file[si + 1] = NUL
                   /\ Len(ptrs) % Channels = 0
                   /\ phrases >= 2
<1>1. /\ pc = "end" /\ UNCHANGED <<file, si, ptrs>>
      /\ Len(file) \in 2 .. BufferSize - 1 /\ Len(ptrs) \in Nat /\ Len(ptrs) <= PtrRoom
      /\ si \in Nat
  BY LenProperties DEF End, At, ScanInv, ScanTypes, Scanned, Placed
<1>2. /\ Terminators(file) # {} /\ Min(Terminators(file)) = si
      /\ Cardinality(Strings(file)) = Len(ptrs)
  BY <1>1, AtTheTerminator
<1>3. /\ phrases \in Nat
      /\ Len(ptrs) = Channels * phrases + (Len(ptrs) % Channels)
  BY <1>1, DivideExactly, MusicScanAssumption
<1>4. CASE good
  <2>1. count' = phrases /\ pc' = "loaded"
    BY <1>4 DEF End, Goto
  <2>2. Channels * phrases = Len(ptrs)
    BY <1>1, <1>3, <1>4, MusicScanAssumption
  <2>3. phrases \in 2 .. PtrRoom \div Channels
    <3>1. PtrRoom \div Channels \in Nat
      BY DivideExactly, MusicScanAssumption
    <3>2. phrases <= PtrRoom \div Channels
      BY <1>1, DivideMonotonic, MusicScanAssumption
    <3>3. QED
      BY <1>3, <1>4, <3>1, <3>2
  <2>4. WellFormed(file)
    <3>1. Len(file) < BufferSize /\ Min(Terminators(file)) = Len(file) - 1 /\ file[Len(file)] = NUL
      BY <1>1, <1>2, <1>4, MusicScanAssumption
    <3>2. Cardinality(Strings(file)) = Channels * phrases
      BY <1>2, <2>2
    <3>3. QED
      BY <1>2, <2>3, <3>1, <3>2 DEF WellFormed
  <2>5. Seen' = Seen
    BY <1>1, <2>1 DEF Seen
  <2>6. Judged'
    BY <1>1, <1>2, <2>1, <2>2, <2>4 DEF Judged
  <2>7. QED
    BY <1>1, <1>3, <2>1, <2>5, <2>6 DEF ScanInv, ScanTypes, Scanned, Placed
<1>5. CASE ~good
  <2>1. UNCHANGED count /\ pc' = "fatal"
    BY <1>5 DEF End, Goto
  <2>2. ASSUME WellFormed(file) PROVE FALSE
    <3>1. PICK n \in 2 .. PtrRoom \div Channels : Cardinality(Strings(file)) = Channels * n
      BY <2>2 DEF WellFormed
    <3>2. n \in Nat /\ n >= 2 /\ Len(ptrs) = Channels * n
      BY <1>2, <3>1, DivideExactly, MusicScanAssumption
    <3>3. phrases = n /\ Len(ptrs) % Channels = 0
      BY <3>2, DivideMultiple, MusicScanAssumption
    <3>4. si + 1 = Len(file) /\ file[si + 1] = NUL
      BY <1>1, <1>2, <2>2 DEF WellFormed
    <3>5. QED
      BY <1>5, <3>2, <3>3, <3>4
  <2>3. Seen' = Seen
    BY <1>1, <2>1 DEF Seen
  <2>4. QED
    BY <1>1, <2>1, <2>2, <2>3 DEF ScanInv, ScanTypes, Scanned, Placed, Judged
<1>6. QED
  BY <1>4, <1>5

(* The invariant of load_music, for every file. *)
THEOREM ScanCorrect == Spec => []ScanInv
<1>1. ScanInv /\ [Next]_vars => ScanInv'
  <2>1. ScanInv /\ UNCHANGED vars => ScanInv'
    BY DEF vars, ScanInv, ScanTypes, Scanned, Seen, Placed, Judged
  <2>2. QED
    BY <2>1, ReadKeeps, ScanKeeps, SkipByteKeeps, EndKeeps DEF Next
<1>2. QED
  BY <1>1, InitScan, PTL DEF Spec

(***************************************************************************)
(* Whatever the file, there is never a pointer more than ptrs has room     *)
(* for, and the pointers are the starts of its strings, in order and, when *)
(* the file is accepted, all of them.                                      *)
(***************************************************************************)
THEOREM PointersAlwaysStarts == Spec => []PointersAreStarts
<1>1. ASSUME ScanInv PROVE PointersAreStarts
  <2>1. Seen \subseteq Strings(file)
    <3>1. ASSUME NEW i \in Seen, NEW t \in Terminators(file) PROVE i < t
      <4>1. /\ t \in Starts(file) /\ t \in Nat /\ t \notin Seen
            /\ i \in Nat /\ si \in Nat
        BY <1>1, LenProperties DEF Terminators, Starts, ScanInv, ScanTypes, Scanned, Seen
      <4>2. QED
        BY <4>1 DEF Seen
    <3>2. QED
      BY <3>1 DEF Strings, Seen
  <2>2. Elements(ptrs) \subseteq Strings(file)
    BY <1>1, <2>1 DEF ScanInv, Scanned
  <2>3. pc = "loaded" => Len(ptrs) = Cardinality(Strings(file))
    BY <1>1, AtTheTerminator
  <2>4. QED
    BY <1>1, <2>2, <2>3 DEF ScanInv, Scanned, Increasing, Elements, PointersAreStarts, At
<1>2. QED
  BY <1>1, ScanCorrect, PTL

(***************************************************************************)
(* The scan accepts exactly the files of the format, and counts their      *)
(* phrases right: no file is refused that could be played, none accepted   *)
(* whose phrases feed would then read past the pointers.                   *)
(***************************************************************************)
THEOREM AcceptsExactlyTheFormat == Spec => []AcceptsTheFormat
<1>1. ScanInv => AcceptsTheFormat
  BY DEF ScanInv, Judged, AcceptsTheFormat, At
<1>2. QED
  BY <1>1, ScanCorrect, PTL
===============================================================================
