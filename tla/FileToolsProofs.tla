---------------------------- MODULE FileToolsProofs ----------------------------
(***************************************************************************)
(* What holds of the file tools for every file, every argument and any     *)
(* number of runs, wherever one fails or is interrupted: what a run keeps  *)
(* of the files it finds, what is left of the first input, that a refusal  *)
(* leaves no trace, that a run does its work, and what a second one does.  *)
(***************************************************************************)
EXTENDS FileTools, FiniteSetTheorems, SequenceTheorems, WellFoundedInduction, TLAPS

Bytes == 0 .. 255
Busy == {"search", "rename", "create", "write", "copy", "close"}

(* What a run can make of the files d: with the input renamed, with the    *)
(* output z.                                                               *)
Moved(d) == [f \in (DOMAIN d \ {in}) \cup {ORG} |-> IF f = ORG THEN d[in] ELSE d[f]]
Base(d) == IF Renames /\ (ORG \in DOMAIN d => input.replaces) THEN Moved(d) ELSE d
Filled(d, z) == [f \in DOMAIN Base(d) \cup {out} |-> IF f = out THEN z ELSE Base(d)[f]]

NothingToPatch(d) == prog = "patscbios" /\ Settled(d[in])

Shapes(d) ==
  {d} \cup IF in \notin DOMAIN d \/ NothingToPatch(d) THEN {}
           ELSE {Base(d)} \cup {Filled(d, z) : z \in Beginnings(d[in])}

(* What it makes of them if nothing disturbs it.                           *)
Finals(d) ==
  IF NothingToPatch(d) THEN {d}
  ELSE {Filled(d, z) : z \in {y \in Beginnings(d[in]) : Applies(d[in]) => y = Wanted(d[in])}}

(* Which tool may be where, and that it has found its input.               *)
Control ==
  /\ input \in Inputs /\ run \in Nat \ {0}
  /\ pc \in {"start", "done", "crash"} \cup Busy
  /\ pc = "search" => prog = "patscbios"
  /\ pc = "rename" => Renames
  /\ pc = "copy" => prog = "hcut"
  /\ pc = "write" => prog # "hcut"
  /\ pc # "done" => ret = 0
  /\ pc = "crash" => run \in disturbed
  /\ pc \in Busy => in \in DOMAIN before
  /\ in \in DOMAIN before => Given \in Seq(Bytes)

(* The files while it runs.                                                *)
Stage ==
  /\ pc \in {"start", "search", "rename"} => files = before
  /\ pc = "create" => files = Base(before)
  /\ pc \in {"write", "copy", "close"} => files = Filled(before, <<>>)

(* What was read, and what is about to be written.                         *)
Reading ==
  /\ (pc \in Busy /\ prog # "hcut") => buf = Given
  /\ (pc \in Busy /\ prog = "hcut") => input.head < Len(Given)
  /\ (pc \in Busy \ {"search"} /\ prog = "patscbios") => ~Settled(Given)

Written ==
  /\ (pc = "create" /\ prog = "hcut") => pos = input.head
  /\ pc = "copy" =>
       IF out = in THEN pos = input.head /\ pending = <<>>
       ELSE pos \in input.head .. Len(Given) /\ pending = SubSeq(Given, input.head + 1, pos)
  /\ pc = "close" =>
       pending \in Beginnings(Given) /\ ((run \notin disturbed /\ Applies(Given)) => pending = Wanted(Given))

(* The files when it has come to an end.                                   *)
Ended ==
  /\ pc \in {"done", "crash"} => files \in Shapes(before)
  /\ (pc = "done" /\ ret # 0) => files = before \/ (prog = "decrypt" /\ ret = -2 /\ files = Base(before))
  /\ (pc = "done" /\ ret # 0 /\ run \notin disturbed) => BadArgument \/ in \notin DOMAIN before \/ prog = "hcut"
  /\ (pc = "done" /\ ret = 0 /\ run \notin disturbed) => in \in DOMAIN before /\ files \in Finals(before)

(* What is left of the first input. Where it is renamed, either the name   *)
(* is not used again or there is nothing more to patch.                    *)
StaysPatched == prog = "patscbios" /\ \A p, q \in BothPatterns(Original) : p = q
Lasting(d) ==
  in \in DOMAIN input.files =>
    /\ out # in => in \in DOMAIN d /\ d[in] = Original
    /\ prog = "gaia" \/ (prog = "dbneg" /\ out = in) =>
         in \in DOMAIN d /\ d[in] \in Starts(Original) \cup Starts(Wanted(Original))
    /\ (Renames /\ ORG \notin DOMAIN input.files /\ (input.replaces => StaysPatched)) =>
         IF ORG \in DOMAIN d
         THEN d[ORG] = Original /\ (input.replaces /\ in \in DOMAIN d => d[in] = Original \/ Settled(d[in]))
         ELSE in \in DOMAIN d /\ d[in] = Original

Rounds ==
  /\ run = 1 => before = input.files
  /\ Lasting(before)
  /\ (run = 2 /\ 1 \notin disturbed /\ in \in DOMAIN input.files
      /\ prog \in {"patscbios", "decrypt", "gaia", "dbneg"}) =>
       before \in Finals(input.files)

IInv == Control /\ Stage /\ Reading /\ Written /\ Ended /\ Rounds

-------------------------------------------------------------------------------
(* What a tool may be run on. *)
LEMMA ToolRun ==
  ASSUME RunsAreOfTools, input \in Inputs
  PROVE  /\ prog \in {"scut", "hcut", "patscbios", "gaia", "dbneg", "decrypt"}
         /\ out \in {in, "out"} /\ out # ORG /\ in # ORG
         /\ Renames \/ prog = "gaia" => out = in
         /\ in \in DOMAIN input.files => Original \in Seq(Bytes)
         /\ input.pattern \in Seq(Bytes) /\ input.size \in Nat /\ input.head \in Nat
         /\ READSIZE \in Nat \ {0}
BY DEF RunsAreOfTools, prog, out, in, ORG, Renames, Original, Bytes

(* Nothing about a run changes but its files.                              *)
LEMMA Same ==
  ASSUME input' = input
  PROVE  /\ prog' = prog /\ out' = out /\ Original' = Original /\ (Renames' <=> Renames)
         /\ (BadArgument' <=> BadArgument) /\ Finals(input.files)' = Finals(input.files)
         /\ before' = before =>
              /\ Given' = Given /\ Base(before)' = Base(before) /\ Filled(before, <<>>)' = Filled(before, <<>>)
              /\ (Settled(Given)' <=> Settled(Given)) /\ Beginnings(Given)' = Beginnings(Given)
              /\ (Applies(Given)' <=> Applies(Given)) /\ Wanted(Given)' = Wanted(Given)
              /\ Shapes(before)' = Shapes(before) /\ Finals(before)' = Finals(before)
              /\ (Lasting(before)' <=> Lasting(before))
<1> USE DEF prog, out, Original, Renames
<1>1. prog' = prog /\ out' = out /\ Original' = Original /\ (Renames' <=> Renames)
  OBVIOUS
<1>2. BadArgument' <=> BadArgument
  BY DEF BadArgument
<1>3. Finals(input.files)' = Finals(input.files)
  BY DEF Finals, NothingToPatch, Filled, Base, Moved, Settled, Patterns, Beginnings, Makes, Starts, Wanted,
         Applies, Enough, Occurrences, BothPatterns, dec_val
<1>4. ASSUME before' = before
      PROVE  /\ Given' = Given /\ Base(before)' = Base(before) /\ Filled(before, <<>>)' = Filled(before, <<>>)
             /\ (Settled(Given)' <=> Settled(Given)) /\ Beginnings(Given)' = Beginnings(Given)
             /\ (Applies(Given)' <=> Applies(Given)) /\ Wanted(Given)' = Wanted(Given)
             /\ Shapes(before)' = Shapes(before) /\ Finals(before)' = Finals(before)
             /\ (Lasting(before)' <=> Lasting(before))
  BY <1>4 DEF Given, Shapes, Finals, NothingToPatch, Filled, Base, Moved, Settled, Patterns, Beginnings,
              Makes, Starts, Wanted, Applies, Enough, Occurrences, BothPatterns, dec_val, Lasting, StaysPatched
<1>5. QED
  BY <1>1, <1>2, <1>3, <1>4

LEMMA Unchanged ==
  ASSUME [Next]_vars
  PROVE  /\ input' = input
         /\ ~RunAgain => run' = run /\ before' = before
         /\ \A r : r \notin disturbed' => r \notin disturbed
BY DEF Next, Step, vars, Refuse, ShortHead, NoMemory, Read, Search, Rename, CannotCreate, Create,
       Write, Copy, Close, RunAgain, Interrupt, Disturb

LEMMA NextControl ==
  ASSUME RunsAreOfTools, Control, Stage, [Next]_vars, RunAgain => (in \in DOMAIN files => files[in] \in Seq(Bytes))
  PROVE  Control'
<1>0. /\ prog \in {"scut", "hcut", "patscbios", "gaia", "dbneg", "decrypt"}
      /\ input' = input /\ prog' = prog /\ (Renames' <=> Renames)
  BY ToolRun, Unchanged, Same DEF Control
<1>1. /\ run' \in Nat \ {0}
      /\ in \in DOMAIN before' => Given' \in Seq(Bytes)
  <2>1. CASE RunAgain
    <3>1. before' = files /\ run' = run + 1
      BY <2>1 DEF RunAgain
    <3>2. QED
      BY <2>1, <3>1 DEF Control, Given
  <2>2. CASE ~RunAgain
    BY <2>2, Unchanged DEF Control, Given
  <2>3. QED
    BY <2>1, <2>2
<1> DEFINE Where ==
             /\ pc' \in {"start", "done", "crash"} \cup Busy
             /\ pc' = "search" => prog = "patscbios"
             /\ pc' = "rename" => Renames
             /\ pc' = "copy" => prog = "hcut"
             /\ pc' = "write" => prog # "hcut"
             /\ pc' # "done" => ret' = 0
             /\ pc' = "crash" => run' \in disturbed'
             /\ pc' \in Busy => in \in DOMAIN before'
<1>2. Where
  <2> USE <1>0 DEF Control, Busy
  <2>3. CASE Refuse
    BY <2>3 DEF Refuse, Return
  <2>4. CASE ShortHead
    BY <2>4 DEF ShortHead, Return
  <2>5. CASE NoMemory
    BY <2>5 DEF NoMemory, Return, Disturb
  <2>6. CASE Read
    BY <2>6 DEF Read, Renames, Stage
  <2>7. CASE Search
    BY <2>7 DEF Search, Return, Renames
  <2>8. CASE Rename
    BY <2>8 DEF Rename
  <2>9. CASE CannotCreate
    BY <2>9 DEF CannotCreate, Return, Disturb
  <2>10. CASE Create
    BY <2>10 DEF Create
  <2>11. CASE Write
    BY <2>11 DEF Write
  <2>12. CASE Copy
    BY <2>12 DEF Copy
  <2>13. CASE Close
    BY <2>13 DEF Close, Return, Disturb
  <2>14. CASE Interrupt
    BY <2>14 DEF Interrupt, Disturb
  <2>15. CASE RunAgain
    BY <2>15 DEF RunAgain
  <2>16. CASE UNCHANGED vars
    BY <2>16 DEF vars
  <2>17. QED
    BY <2>3, <2>4, <2>5, <2>6, <2>7, <2>8, <2>9, <2>10, <2>11, <2>12, <2>13, <2>14, <2>15, <2>16
    DEF Next, Step
<1>3. QED
  BY <1>0, <1>1, <1>2 DEF Control

-------------------------------------------------------------------------------
(* What the tools make of a file is what they are for. *)

LEMMA LeastNumber ==
  ASSUME NEW T \in SUBSET Nat, T # {}
  PROVE  Min(T) \in T /\ \A x \in T : Min(T) <= x
<1> DEFINE Less == {ss \in Nat \X Nat : ss[1] < ss[2]}
<1>1. IsWellFoundedOn(Less, Nat)
  BY NatLessThanWellFounded DEF OpToRel
<1>2. \A x \in Nat, y \in Nat : <<x, y>> \in Less <=> x < y
  OBVIOUS
<1> HIDE DEF Less
<1>3. PICK m \in T : \A x \in T : ~(<<x, m>> \in Less)
  BY <1>1, WFMin
<1>4. ASSUME NEW x \in T PROVE m <= x
  <2>1. m \in Nat /\ x \in Nat
    OBVIOUS
  <2>2. ~(x < m)
    BY <1>2, <1>3, <2>1
  <2>3. QED
    BY <2>1, <2>2
<1>5. QED
  BY <1>4 DEF Min

LEMMA IsLeast ==
  ASSUME NEW T \in SUBSET Nat, NEW m \in T, \A x \in T : m <= x
  PROVE  Min(T) = m
<1>1. Min(T) \in T /\ Min(T) <= m
  BY LeastNumber
<1>2. m <= Min(T) /\ Min(T) \in Nat /\ m \in Nat
  BY <1>1
<1>3. QED
  BY <1>1, <1>2

(* The search answers with the place in front of the first such byte, or   *)
(* with nothing if that byte is the first of all.                          *)
LEMMA FirstPlace ==
  ASSUME buf \in Seq(Bytes), NEW v, \E p \in DOMAIN buf : buf[p] = v
  PROVE  LET Places == {p \in DOMAIN buf : buf[p] = v}
         IN  search_bin2(v) = Min(Places) - 1 /\ Min(Places) \in Places
             /\ \A p \in Places : Min(Places) <= p
<1> DEFINE Places == {p \in DOMAIN buf : buf[p] = v}
           First(p) == p \in DOMAIN buf /\ buf[p] = v /\ \A q \in 1 .. p - 1 : buf[q] # v
<1>1. Places \in SUBSET Nat /\ Places # {}
  OBVIOUS
<1> DEFINE m == Min(Places)
<1>2. m \in Places /\ \A p \in Places : m <= p
  BY <1>1, LeastNumber
<1>3. First(m)
  <2>1. m \in DOMAIN buf /\ buf[m] = v /\ m \in 1 .. Len(buf)
    BY <1>2
  <2>2. ASSUME NEW q \in 1 .. m - 1 PROVE buf[q] # v
    <3>1. q \in DOMAIN buf /\ ~(m <= q)
      BY <2>1
    <3>2. QED
      BY <1>2, <3>1
  <2>3. QED
    BY <2>1, <2>2
<1>4. ASSUME NEW p, First(p) PROVE p = m
  <2>1. p \in 1 .. Len(buf) /\ m \in 1 .. Len(buf) /\ buf[m] = v /\ Len(buf) \in Nat
    BY <1>2, <1>4
  <2>2. m <= p
    BY <1>2, <1>4
  <2>3. ~(m < p)
    <3>1. SUFFICES ASSUME m < p PROVE FALSE
      OBVIOUS
    <3>2. m \in 1 .. p - 1
      BY <2>1, <3>1
    <3>3. QED
      BY <1>4, <2>1, <3>2
  <2>4. QED
    BY <2>1, <2>2, <2>3
<1>5. (CHOOSE p \in DOMAIN buf : buf[p] = v /\ \A q \in 1 .. p - 1 : buf[q] # v) = m
  BY <1>3, <1>4
<1>6. search_bin2(v) = m - 1
  BY <1>5 DEF search_bin2
<1>7. QED
  BY <1>2, <1>6

(* The place patscbios patches is the first behind the first byte.         *)
LEMMA FirstPattern ==
  ASSUME buf \in Seq(Bytes), NEW v, buf # <<>> => buf[1] # v
  PROVE  /\ Patterns(buf, v) = {} => search_bin2(v) = 0
         /\ Patterns(buf, v) # {} => search_bin2(v) # 0 /\ search_bin2(v) + 1 = Min(Patterns(buf, v))
                               /\ Min(Patterns(buf, v)) \in DOMAIN buf
<1> DEFINE Places == {p \in DOMAIN buf : buf[p] = v}
<1>1. Places = Patterns(buf, v)
  <2>1. ASSUME NEW p \in DOMAIN buf, buf[p] = v PROVE p \in 2 .. Len(buf)
    <3>1. p \in 1 .. Len(buf) /\ Len(buf) \in Nat /\ buf # <<>>
      BY <2>1
    <3>2. p # 1
      BY <2>1, <3>1
    <3>3. QED
      BY <3>1, <3>2
  <2>2. \A p \in 2 .. Len(buf) : p \in DOMAIN buf
    OBVIOUS
  <2>3. QED
    BY <2>1, <2>2 DEF Patterns
<1>2. CASE Patterns(buf, v) = {}
  <2>1. ~\E p \in DOMAIN buf : buf[p] = v
    BY <1>1, <1>2
  <2>2. QED
    BY <1>2, <2>1 DEF search_bin2
<1>3. CASE Patterns(buf, v) # {}
  <2>1. search_bin2(v) = Min(Places) - 1 /\ Min(Places) \in Places
    BY <1>1, <1>3, FirstPlace
  <2> DEFINE m == Min(Patterns(buf, v))
  <2>2. search_bin2(v) = m - 1 /\ m \in Patterns(buf, v)
    BY <1>1, <2>1
  <2>3. m \in 2 .. Len(buf) /\ m \in DOMAIN buf
    BY <2>2 DEF Patterns
  <2> HIDE DEF m
  <2>4. m - 1 # 0 /\ (m - 1) + 1 = m
    BY <2>3
  <2>5. search_bin2(v) # 0 /\ search_bin2(v) + 1 = m /\ m \in DOMAIN buf
    BY <2>2, <2>3, <2>4
  <2>6. QED
    BY <1>3, <2>5 DEF m
<1>4. QED
  BY <1>2, <1>3

(* The first place where the bytes stand is the only one scut finds, if    *)
(* there are enough bytes behind it.                                       *)
LEMMA OneHit ==
  ASSUME buf \in Seq(Bytes), input.pattern \in Seq(Bytes), input.size \in Nat,
         Enough(buf), Min(Occurrences(buf)) # 0
  PROVE  Cuttings = {SubSeq(buf, Min(Occurrences(buf)) + 1, Min(Occurrences(buf)) + input.size)}
<1> DEFINE m == Min(Occurrences(buf))
           L == Len(buf)
           P == input.pattern
           K == Len(P)
<1>1. L \in Nat /\ K \in Nat
  OBVIOUS
<1>2. Occurrences(buf) \in SUBSET Nat /\ Occurrences(buf) # {} /\ L - m >= 3 /\ L - m >= input.size
  <2>1. Occurrences(buf) \in SUBSET Nat
    BY DEF Occurrences
  <2>2. Occurrences(buf) # {} /\ L - m >= 3 /\ L - m >= input.size
    BY DEF Enough
  <2>3. QED
    BY <2>1, <2>2
<1>3. m \in Occurrences(buf) /\ \A p \in Occurrences(buf) : m <= p
  BY <1>2, LeastNumber
<1>5. m # 0
  OBVIOUS
<1> HIDE DEF m
<1>4. m \in Nat /\ m <= L - 3 /\ m + K <= L /\ SubSeq(buf, m + 1, m + K) = P
  <2>1. m \in 0 .. L - K /\ SubSeq(buf, m + 1, m + K) = P
    BY <1>3 DEF Occurrences
  <2>2. QED
    BY <1>1, <1>2, <2>1
<1>6. ASSUME NEW p \in Nat, Certainly(p) PROVE m <= p
  <2>1. p + K <= L /\ SubSeq(buf, p + 1, p + K) = P
    BY <1>6 DEF Certainly
  <2>2. p \in Occurrences(buf)
    BY <1>1, <2>1 DEF Occurrences
  <2>3. QED
    BY <1>3, <2>2
<1>7. Certainly(m)
  BY <1>4 DEF Certainly
<1>8. Possibly(m)
  <2>1. ASSUME NEW k \in DOMAIN P PROVE buf[m + k] = P[k]
    <3>1. k \in 1 .. K /\ k \in Int
      BY <1>1, <2>1
    <3>2. \A i \in m + 1 .. m + K : buf[i] \in Bytes
      BY <1>1, <1>4
    <3>3. \A i \in 1 .. (m + K) - (m + 1) + 1 : SubSeq(buf, m + 1, m + K)[i] = buf[m + 1 + i - 1]
      BY <1>1, <1>4, <3>2, SubSeqProperties, m + 1 \in Int, m + K \in Int
    <3>4. k \in 1 .. (m + K) - (m + 1) + 1 /\ m + 1 + k - 1 = m + k
      BY <1>1, <1>4, <3>1
    <3>5. QED
      BY <1>4, <3>3, <3>4
  <2>2. QED
    BY <2>1 DEF Possibly
<1>9. ASSUME NEW p \in 0 .. L - 1, Possibly(p), p < m PROVE FALSE
  <2>1. p + K <= L /\ p \in Nat
    BY <1>1, <1>4, <1>9
  <2>2. \A k \in 1 .. K : buf[p + k] = P[k] /\ p + k \in 1 .. L
    <3>1. ASSUME NEW k \in 1 .. K PROVE p + k <= L /\ k \in DOMAIN P /\ p + k \in 1 .. L
      BY <1>1, <2>1
    <3>2. QED
      BY <1>9, <3>1 DEF Possibly
  <2>3. SubSeq(buf, p + 1, p + K) \in Seq(Bytes)
        /\ Len(SubSeq(buf, p + 1, p + K)) = K
        /\ \A k \in 1 .. K : SubSeq(buf, p + 1, p + K)[k] = buf[p + k]
    <3>1. \A i \in p + 1 .. p + K : buf[i] \in Bytes
      BY <1>1, <2>1
    <3>2. /\ SubSeq(buf, p + 1, p + K) \in Seq(Bytes)
          /\ Len(SubSeq(buf, p + 1, p + K)) = IF p + 1 <= p + K THEN (p + K) - (p + 1) + 1 ELSE 0
          /\ \A i \in 1 .. (p + K) - (p + 1) + 1 : SubSeq(buf, p + 1, p + K)[i] = buf[p + 1 + i - 1]
      BY <3>1, SubSeqProperties, <1>1, <2>1, p + 1 \in Int, p + K \in Int
    <3>3. (p + K) - (p + 1) + 1 = K /\ (p + 1 <= p + K <=> 1 <= K)
          /\ \A i \in 1 .. K : p + 1 + i - 1 = p + i
      BY <1>1, <2>1
    <3>4. (IF p + 1 <= p + K THEN (p + K) - (p + 1) + 1 ELSE 0) = K
      BY <1>1, <3>3
    <3>5. QED
      BY <3>2, <3>3, <3>4
  <2>4. SubSeq(buf, p + 1, p + K) = P
    BY <2>2, <2>3, SeqEqual
  <2>5. Certainly(p)
    BY <2>1, <2>4 DEF Certainly
  <2>6. m <= p
    BY <1>6, <2>1, <2>5
  <2>7. QED
    BY <1>4, <1>9, <2>1, <2>6
<1>10. Hits = {m}
  <2>1. m \in Hits
    <3>1. m \in 0 .. Len(buf) - 1
      BY <1>1, <1>4
    <3>2. ASSUME NEW q \in 0 .. m - 1 PROVE ~Certainly(q)
      BY <1>4, <1>6
    <3>3. QED
      BY <1>8, <3>1, <3>2 DEF Hits
  <2>2. ASSUME NEW p \in Hits PROVE p = m
    <3>1. p \in 0 .. L - 1 /\ Possibly(p) /\ \A q \in 0 .. p - 1 : ~Certainly(q)
      BY DEF Hits
    <3>2. ~(p < m)
      BY <1>9, <3>1
    <3>3. ~(m < p)
      <4>1. SUFFICES ASSUME m < p PROVE FALSE
        OBVIOUS
      <4>2. m \in 0 .. p - 1
        BY <1>1, <1>4, <3>1, <4>1
      <4>3. QED
        BY <1>7, <3>1, <4>2
    <3>4. QED
      BY <1>1, <1>4, <3>1, <3>2, <3>3
  <2>3. QED
    BY <2>1, <2>2
<1>11. Found(m)
  BY <1>2, <1>5, <1>4 DEF Found, m
<1>12. Cuttings = {SubSeq(buf, m + 1, m + input.size)}
  BY <1>7, <1>10, <1>11 DEF Cuttings
<1>13. QED
  BY <1>12 DEF m

LEMMA DecValIsByte ==
  dec_val \in Bytes
BY DEF dec_val, Bytes

LEMMA OutputsAreFiles ==
  ASSUME XorUndoesItself, buf \in Seq(Bytes), input.size \in Nat,
         prog \in {"scut", "patscbios", "gaia", "dbneg", "decrypt"},
         prog = "decrypt" => Unpacked(buf) \in Seq(Bytes),
         NEW made \in Outputs
  PROVE  made \in Seq(Bytes)
<1>0. Len(buf) \in Nat /\ DOMAIN buf = 1 .. Len(buf) /\ \A k \in 1 .. Len(buf) : buf[k] \in Bytes
  OBVIOUS
<1>1. CASE prog = "scut"
  <2>1. made \in Cuttings
    BY <1>1 DEF Outputs
  <2>2. CASE made = <<>>
    BY <2>2
  <2>3. CASE made # <<>>
    <3>1. PICK p \in Hits : made = IF Found(p) THEN SubSeq(buf, p + 1, p + input.size) ELSE <<>>
      BY <2>1, <2>3 DEF Cuttings
    <3>2. Found(p) /\ p \in 0 .. Len(buf) - 1 /\ made = SubSeq(buf, p + 1, p + input.size)
      BY <2>3, <3>1 DEF Hits
    <3>3. \A i \in p + 1 .. p + input.size : buf[i] \in Bytes
      <4>1. p + input.size <= Len(buf) /\ p \in Nat
        BY <1>0, <3>2 DEF Found
      <4>2. QED
        BY <1>0, <4>1
    <3>4. p + 1 \in Int /\ p + input.size \in Int
      BY <1>0, <3>2
    <3>5. QED
      BY <3>2, <3>3, <3>4, SubSeqProperties
  <2>4. QED
    BY <2>2, <2>3
<1>2. CASE prog = "patscbios"
  <2>1. made = [buf EXCEPT ![search_bin + 1] = RETN]
    BY <1>2 DEF Outputs, Patched
  <2> DEFINE q == search_bin + 1
  <2> HIDE DEF q
  <2>2. made = [k \in 1 .. Len(buf) |-> IF k = q THEN RETN ELSE buf[k]]
    BY <1>0, <2>1 DEF q
  <2>3. \A k \in 1 .. Len(buf) : (IF k = q THEN RETN ELSE buf[k]) \in Bytes
    BY <1>0 DEF RETN, Bytes
  <2>4. QED
    BY <1>0, <2>2, <2>3
<1>3. CASE prog = "gaia"
  <2>1. made = [k \in 1 .. Len(buf) |-> BitXor(buf[k], dec_val)]
    BY <1>0, <1>3 DEF Outputs, Decoded
  <2>2. \A k \in 1 .. Len(buf) : BitXor(buf[k], dec_val) \in Bytes
    BY <1>0, DecValIsByte DEF XorUndoesItself, Bytes
  <2>3. QED
    BY <1>0, <2>1, <2>2
<1>4. CASE prog = "dbneg"
  <2>1. made = [k \in 1 .. Len(buf) |-> (256 - buf[k]) % 256]
    BY <1>0, <1>4 DEF Outputs, Negated
  <2>2. \A x \in Bytes : (256 - x) % 256 \in Bytes
    BY DEF Bytes
  <2>3. \A k \in 1 .. Len(buf) : (256 - buf[k]) % 256 \in Bytes
    BY <1>0, <2>2
  <2>4. QED
    BY <1>0, <2>1, <2>3
<1>5. CASE prog = "decrypt"
  BY <1>5 DEF Outputs
<1>6. QED
  BY <1>1, <1>2, <1>3, <1>4, <1>5

LEMMA OutputsAreWanted ==
  ASSUME RunsAreOfTools, input \in Inputs, buf \in Seq(Bytes), Applies(buf),
         prog # "hcut", prog = "patscbios" => search_bin # 0, NEW made \in Outputs
  PROVE  made = Wanted(buf)
<1>0. /\ prog \in {"scut", "patscbios", "gaia", "dbneg", "decrypt"} /\ buf \in Seq(Bytes)
      /\ input.pattern \in Seq(Bytes) /\ input.size \in Nat
  BY ToolRun
<1>1. CASE prog = "scut"
  <2>1. Enough(buf) /\ Min(Occurrences(buf)) # 0 /\ made \in Cuttings
    BY <1>1 DEF Applies, Outputs
  <2>2. made = SubSeq(buf, Min(Occurrences(buf)) + 1, Min(Occurrences(buf)) + input.size)
    BY <1>0, <2>1, OneHit
  <2>3. QED
    BY <1>1, <2>2 DEF Wanted
<1>2. CASE prog = "patscbios"
  <2>1. made = [buf EXCEPT ![search_bin + 1] = RETN]
    BY <1>2 DEF Outputs, Patched
  <2>2. buf # <<>> => buf[1] # PATTERN /\ buf[1] # PATTERN2
    BY <1>2 DEF Applies
  <2>3. CASE Patterns(buf, PATTERN) # {}
    <3>1. search_bin + 1 = Min(Patterns(buf, PATTERN))
      BY <1>0, <2>2, <2>3, FirstPattern DEF search_bin
    <3>2. Wanted(buf) = [buf EXCEPT ![Min(Patterns(buf, PATTERN))] = RETN]
      BY <1>2, <2>3 DEF Wanted
    <3>3. QED
      BY <2>1, <3>1, <3>2
  <2>4. CASE Patterns(buf, PATTERN) = {}
    <3>1. search_bin = search_bin2(PATTERN2)
      BY <1>0, <2>2, <2>4, FirstPattern DEF search_bin
    <3>2. Patterns(buf, PATTERN2) # {} /\ search_bin + 1 = Min(Patterns(buf, PATTERN2))
      BY <1>0, <1>2, <2>2, <3>1, FirstPattern
    <3>3. Wanted(buf) = [buf EXCEPT ![Min(Patterns(buf, PATTERN2))] = RETN]
      BY <1>2, <2>4, <3>2 DEF Wanted
    <3>4. QED
      BY <2>1, <3>2, <3>3
  <2>5. QED
    BY <2>3, <2>4
<1>3. CASE prog = "gaia"
  BY <1>3 DEF Outputs, Wanted, Decoded
<1>4. CASE prog = "dbneg"
  <2>1. made = [k \in DOMAIN buf |-> (256 - buf[k]) % 256]
    BY <1>4 DEF Outputs, Negated
  <2>2. Wanted(buf) = [k \in DOMAIN buf |-> IF buf[k] = 0 THEN 0 ELSE 256 - buf[k]]
    BY <1>4 DEF Wanted
  <2>3. ASSUME NEW k \in DOMAIN buf
        PROVE  (256 - buf[k]) % 256 = IF buf[k] = 0 THEN 0 ELSE 256 - buf[k]
    <3> DEFINE x == buf[k]
    <3>0. x \in Bytes
      <4>1. \A s \in Seq(Bytes) : \A i \in DOMAIN s : s[i] \in Bytes
        OBVIOUS
      <4>2. QED
        BY <1>0, <4>1
    <3>1. x \in 0 .. 255
      BY <3>0 DEF Bytes
    <3> HIDE DEF x
    <3>2. (256 - x) % 256 = IF x = 0 THEN 0 ELSE 256 - x
      BY <3>1
    <3>3. QED
      BY <3>2 DEF x
  <2>4. QED
    BY <2>1, <2>2, <2>3
<1>5. CASE prog = "decrypt"
  BY <1>5 DEF Outputs, Wanted
<1>6. QED
  BY <1>0, <1>1, <1>2, <1>3, <1>4, <1>5

(* Nothing is found where every pattern is at the first byte or nowhere.   *)
LEMMA NothingFound ==
  ASSUME buf \in Seq(Bytes)
  PROVE  search_bin = 0 <=> Settled(buf)
<1>1. ASSUME NEW v
      PROVE  search_bin2(v) = 0 <=> ((1 \in DOMAIN buf /\ buf[1] = v) \/ \A p \in DOMAIN buf : buf[p] # v)
  <2>1. CASE \A p \in DOMAIN buf : buf[p] # v
    BY <2>1 DEF search_bin2
  <2>2. CASE \E p \in DOMAIN buf : buf[p] = v
    <3> DEFINE Places == {p \in DOMAIN buf : buf[p] = v}
               m == Min(Places)
    <3>1. search_bin2(v) = m - 1 /\ m \in Places /\ \A p \in Places : m <= p
      BY <2>2, FirstPlace
    <3> HIDE DEF m
    <3>2. m \in 1 .. Len(buf) /\ buf[m] = v
      BY <3>1
    <3>3. CASE m = 1
      BY <3>1, <3>2, <3>3
    <3>4. CASE m # 1
      <4>1. ~(1 \in DOMAIN buf /\ buf[1] = v)
        <5>1. SUFFICES ASSUME 1 \in DOMAIN buf, buf[1] = v PROVE FALSE
          OBVIOUS
        <5>2. m <= 1
          BY <3>1, <5>1
        <5>3. QED
          BY <3>2, <3>4, <5>2
      <4>2. m - 1 # 0
        BY <3>2, <3>4
      <4>3. QED
        BY <2>2, <3>1, <4>1, <4>2
    <3>5. QED
      BY <3>3, <3>4
  <2>3. QED
    BY <2>1, <2>2
<1>2. search_bin = 0 <=> (search_bin2(PATTERN) = 0 /\ search_bin2(PATTERN2) = 0)
  BY DEF search_bin
<1>3. ASSUME NEW v
      PROVE  ((1 \in DOMAIN buf /\ buf[1] = v) \/ \A p \in DOMAIN buf : buf[p] # v)
               <=> (Patterns(buf, v) = {} \/ buf[1] = v)
  <2>1. DOMAIN buf = 1 .. Len(buf) /\ Len(buf) \in Nat
    OBVIOUS
  <2>2. (\A p \in DOMAIN buf : buf[p] # v) => Patterns(buf, v) = {}
    BY <2>1 DEF Patterns
  <2>3. ASSUME Patterns(buf, v) = {}, 1 \notin DOMAIN buf \/ buf[1] # v, NEW p \in DOMAIN buf
        PROVE  buf[p] # v
    <3>1. p # 1 => p \in 2 .. Len(buf)
      BY <2>1
    <3>2. QED
      BY <2>3, <3>1 DEF Patterns
  <2>4. ASSUME buf[1] = v, 1 \notin DOMAIN buf PROVE \A p \in DOMAIN buf : buf[p] # v
    BY <2>1, <2>4
  <2>5. QED
    BY <2>2, <2>3, <2>4
<1>4. QED
  BY <1>1, <1>2, <1>3 DEF Settled

LEMMA PatchPlace ==
  ASSUME buf \in Seq(Bytes), search_bin # 0
  PROVE  search_bin + 1 \in BothPatterns(buf)
<1>1. PICK v \in {PATTERN, PATTERN2} : search_bin = search_bin2(v)
  BY DEF search_bin
<1> DEFINE Places == {p \in DOMAIN buf : buf[p] = v}
           m == Min(Places)
<1>2. \E p \in DOMAIN buf : buf[p] = v
  BY <1>1 DEF search_bin2
<1>3. search_bin = m - 1 /\ m \in Places
  BY <1>1, <1>2, FirstPlace
<1> HIDE DEF m
<1>4. m \in 1 .. Len(buf) /\ buf[m] = v /\ m # 1 /\ Len(buf) \in Nat
  BY <1>3
<1>5. m \in Patterns(buf, v) /\ search_bin + 1 = m
  BY <1>3, <1>4 DEF Patterns
<1>6. QED
  BY <1>5 DEF BothPatterns

(* Whatever a tool writes is what it may make of its input.                *)
LEMMA OutputsAreMade ==
  ASSUME RunsAreOfTools, input \in Inputs, buf \in Seq(Bytes),
         prog # "hcut", prog = "patscbios" => search_bin # 0, NEW made \in Outputs, made # <<>>
  PROVE  made \in Makes(buf)
<1>0. /\ prog \in {"scut", "patscbios", "gaia", "dbneg", "decrypt"} /\ input.size \in Nat
      /\ Len(buf) \in Nat
  BY ToolRun
<1>1. CASE prog = "scut"
  <2>1. PICK p \in Hits : made = IF Found(p) THEN SubSeq(buf, p + 1, p + input.size) ELSE <<>>
    BY <1>1 DEF Outputs, Cuttings
  <2>2. Found(p) /\ p \in 0 .. Len(buf) - 1 /\ made = SubSeq(buf, p + 1, p + input.size)
    BY <2>1 DEF Hits
  <2>3. p \in 1 .. Len(buf) - input.size
    BY <1>0, <2>2 DEF Found
  <2>4. QED
    BY <1>1, <2>2, <2>3 DEF Makes
<1>2. CASE prog = "patscbios"
  BY <1>2, PatchPlace DEF Outputs, Patched, Makes
<1>3. CASE prog \in {"gaia", "dbneg", "decrypt"}
  <2>1. Applies(buf)
    BY <1>3 DEF Applies
  <2>2. made = Wanted(buf)
    BY <2>1, OutputsAreWanted
  <2>3. QED
    BY <1>3, <2>2 DEF Makes
<1>4. QED
  BY <1>0, <1>1, <1>2, <1>3

LEMMA PartOf ==
  ASSUME NEW x \in Seq(Bytes), NEW a \in Nat, NEW b \in Nat, b <= Len(x)
  PROVE  SubSeq(x, a + 1, b) \in Seq(Bytes)
<1>1. \A i \in a + 1 .. b : x[i] \in Bytes
  OBVIOUS
<1>2. QED
  BY <1>1, SubSeqProperties, a + 1 \in Int, b \in Int

LEMMA Start1 ==
  ASSUME NEW x \in Seq(Bytes), NEW n \in 0 .. Len(x)
  PROVE  /\ SubSeq(x, 1, n) \in Seq(Bytes) /\ Len(SubSeq(x, 1, n)) = n
         /\ \A i \in 1 .. n : SubSeq(x, 1, n)[i] = x[i]
<1>0. n \in Nat /\ n <= Len(x)
  OBVIOUS
<1>1. \A i \in 1 .. n : x[i] \in Bytes
  BY <1>0
<1>2. /\ SubSeq(x, 1, n) \in Seq(Bytes)
      /\ Len(SubSeq(x, 1, n)) = IF 1 <= n THEN n - 1 + 1 ELSE 0
      /\ \A i \in 1 .. n - 1 + 1 : SubSeq(x, 1, n)[i] = x[1 + i - 1]
  BY <1>0, <1>1, SubSeqProperties, 1 \in Int, n \in Int
<1>3. (IF 1 <= n THEN n - 1 + 1 ELSE 0) = n /\ n - 1 + 1 = n
  BY <1>0
<1>4. \A i \in 1 .. n : 1 + i - 1 = i
  BY <1>0
<1>5. QED
  BY <1>2, <1>3, <1>4

(* The beginning of a beginning. *)
LEMMA StartOfStart ==
  ASSUME NEW x \in Seq(Bytes), NEW m \in 0 .. Len(x), NEW n \in 0 .. m
  PROVE  SubSeq(SubSeq(x, 1, m), 1, n) = SubSeq(x, 1, n)
<1>1. m \in Nat /\ n \in Nat /\ n <= m /\ n \in 0 .. Len(x) /\ Len(x) \in Nat
  OBVIOUS
<1> DEFINE y == SubSeq(x, 1, m)
<1>2. y \in Seq(Bytes) /\ Len(y) = m /\ \A i \in 1 .. m : y[i] = x[i]
  BY Start1
<1> HIDE DEF y
<1>3. SubSeq(y, 1, n) \in Seq(Bytes) /\ Len(SubSeq(y, 1, n)) = n
      /\ \A i \in 1 .. n : SubSeq(y, 1, n)[i] = y[i]
  BY <1>2, Start1
<1>4. SubSeq(x, 1, n) \in Seq(Bytes) /\ Len(SubSeq(x, 1, n)) = n
      /\ \A i \in 1 .. n : SubSeq(x, 1, n)[i] = x[i]
  BY <1>1, Start1
<1>5. \A i \in 1 .. n : SubSeq(y, 1, n)[i] = SubSeq(x, 1, n)[i]
  BY <1>1, <1>2, <1>3, <1>4
<1>6. SubSeq(y, 1, n) = SubSeq(x, 1, n)
  BY <1>3, <1>4, <1>5, SeqEqual
<1>7. QED
  BY <1>6 DEF y

LEMMA MakesFiles ==
  ASSUME RunsAreOfTools, XorUndoesItself, UnpacksToBytes(Seq(0 .. 255)), input \in Inputs,
         NEW x \in Seq(Bytes)
  PROVE  /\ \A y \in Makes(x) : y \in Seq(Bytes)
         /\ prog \in {"gaia", "dbneg", "decrypt"} => Wanted(x) \in Seq(Bytes)
<1> DEFINE L == Len(x)
<1>0. /\ L \in Nat /\ DOMAIN x = 1 .. L /\ \A k \in 1 .. L : x[k] \in Bytes
      /\ prog \in {"scut", "hcut", "patscbios", "gaia", "dbneg", "decrypt"}
      /\ input.size \in Nat /\ input.head \in Nat
  BY ToolRun
<1> HIDE DEF L
<1>1. ASSUME prog = "scut", NEW y \in Makes(x) PROVE y \in Seq(Bytes)
  <2>1. PICK p \in 1 .. L - input.size : y = SubSeq(x, p + 1, p + input.size)
    BY <1>1 DEF Makes, L
  <2>2. p \in Nat /\ p + input.size \in Nat /\ p + input.size <= L
    BY <1>0, <2>1
  <2>3. QED
    BY <2>1, <2>2, PartOf DEF L
<1>2. ASSUME prog = "hcut", NEW y \in Makes(x) PROVE y \in Seq(Bytes)
  <2>1. y = SubSeq(x, input.head + 1, L)
    BY <1>2 DEF Makes, Wanted, L
  <2>2. QED
    BY <1>0, <2>1, PartOf DEF L
<1>3. ASSUME prog = "patscbios", NEW y \in Makes(x) PROVE y \in Seq(Bytes)
  <2>1. PICK p \in BothPatterns(x) : y = [x EXCEPT ![p] = RETN]
    BY <1>3 DEF Makes
  <2>2. y = [k \in 1 .. L |-> IF k = p THEN RETN ELSE x[k]]
    BY <1>0, <2>1
  <2>3. \A k \in 1 .. L : (IF k = p THEN RETN ELSE x[k]) \in Bytes
    BY <1>0 DEF RETN, Bytes
  <2>4. QED
    BY <1>0, <2>2, <2>3
<1>4. ASSUME prog = "gaia" PROVE Wanted(x) \in Seq(Bytes)
  <2>1. Wanted(x) = [k \in 1 .. L |-> BitXor(x[k], dec_val)]
    BY <1>0, <1>4 DEF Wanted
  <2>2. \A k \in 1 .. L : BitXor(x[k], dec_val) \in Bytes
    BY <1>0, DecValIsByte DEF XorUndoesItself, Bytes
  <2>3. QED
    BY <1>0, <2>1, <2>2
<1>5. ASSUME prog = "dbneg" PROVE Wanted(x) \in Seq(Bytes)
  <2>1. Wanted(x) = [k \in 1 .. L |-> IF x[k] = 0 THEN 0 ELSE 256 - x[k]]
    BY <1>0, <1>5 DEF Wanted
  <2>2. \A b \in Bytes : (IF b = 0 THEN 0 ELSE 256 - b) \in Bytes
    BY DEF Bytes
  <2>3. \A k \in 1 .. L : (IF x[k] = 0 THEN 0 ELSE 256 - x[k]) \in Bytes
    BY <1>0, <2>2
  <2>4. QED
    BY <1>0, <2>1, <2>3
<1>6. ASSUME prog = "decrypt" PROVE Wanted(x) \in Seq(Bytes)
  BY <1>6 DEF Wanted, UnpacksToBytes, Bytes
<1>7. prog \in {"gaia", "dbneg", "decrypt"} => Makes(x) = {Wanted(x)}
  BY DEF Makes
<1>8. QED
  BY <1>0, <1>1, <1>2, <1>3, <1>4, <1>5, <1>6, <1>7

LEMMA BeginningsAreFiles ==
  ASSUME RunsAreOfTools, XorUndoesItself, UnpacksToBytes(Seq(0 .. 255)), input \in Inputs,
         NEW x \in Seq(Bytes), NEW z \in Beginnings(x)
  PROVE  /\ z \in Seq(Bytes)
         /\ \A n \in 0 .. Len(z) : SubSeq(z, 1, n) \in Beginnings(x)
<1>1. CASE z = <<>>
  <2>1. Len(z) = 0
    BY <1>1
  <2>2. ASSUME NEW n \in 0 .. Len(z) PROVE SubSeq(z, 1, n) = <<>>
    <3>1. n = 0
      BY <2>1
    <3>2. QED
      BY <3>1, SubSeqEmpty, 1 \in Int, 0 \in Int, 0 < 1
  <2>3. QED
    BY <1>1, <2>2 DEF Beginnings
<1>2. CASE z # <<>>
  <2>0. PICK y \in Makes(x) : \E m \in 0 .. Len(y) : z = SubSeq(y, 1, m)
    BY <1>2 DEF Beginnings, Starts
  <2>1. PICK m \in 0 .. Len(y) : z = SubSeq(y, 1, m)
    BY <2>0
  <2>2. y \in Seq(Bytes)
    BY MakesFiles
  <2>3. z \in Seq(Bytes) /\ Len(z) = m
    BY <2>1, <2>2, Start1
  <2>4. ASSUME NEW n \in 0 .. Len(z) PROVE SubSeq(z, 1, n) \in Beginnings(x)
    <3>1. n \in 0 .. m /\ n \in 0 .. Len(y)
      BY <2>2, <2>3
    <3>2. SubSeq(z, 1, n) = SubSeq(y, 1, n)
      BY <2>1, <2>2, <3>1, StartOfStart
    <3>3. QED
      BY <3>1, <3>2 DEF Beginnings, Starts
  <2>5. QED
    BY <2>3, <2>4
<1>3. QED
  BY <1>1, <1>2

-------------------------------------------------------------------------------
(* A run. *)

LEMMA FilledIs ==
  ASSUME RunsAreOfTools, input \in Inputs, NEW d, NEW z
  PROVE  /\ DOMAIN Filled(d, z) = DOMAIN Base(d) \cup {out} /\ Filled(d, z)[out] = z
         /\ \A f \in DOMAIN Base(d) \ {out} : Filled(d, z)[f] = Base(d)[f]
         /\ \A y : [Filled(d, y) EXCEPT ![out] = z] = Filled(d, z)
BY DEF Filled

LEMMA BaseIs ==
  ASSUME RunsAreOfTools, input \in Inputs, NEW d, in \in DOMAIN d
  PROVE  /\ ~(Renames /\ (ORG \in DOMAIN d => input.replaces)) => Base(d) = d
         /\ (Renames /\ (ORG \in DOMAIN d => input.replaces)) =>
              /\ DOMAIN Base(d) = (DOMAIN d \ {in}) \cup {ORG} /\ Base(d)[ORG] = d[in]
              /\ in \notin DOMAIN Base(d)
              /\ \A f \in DOMAIN d \ {in, ORG} : Base(d)[f] = d[f]
         /\ out # in => Base(d) = d
BY ToolRun DEF Base, Moved

LEMMA NextStage ==
  ASSUME RunsAreOfTools, Control, Stage, [Next]_vars
  PROVE  Stage'
<1>0. /\ input \in Inputs /\ input' = input
      /\ prog \in {"scut", "hcut", "patscbios", "gaia", "dbneg", "decrypt"}
  BY ToolRun, Unchanged DEF Control
<1>1. before' = before => Base(before)' = Base(before) /\ Filled(before, <<>>)' = Filled(before, <<>>)
  BY <1>0, Same
<1>2. CASE Refuse \/ ShortHead \/ NoMemory \/ CannotCreate \/ Close \/ Interrupt
  <2>1. pc' \in {"done", "crash"}
    BY <1>0, <1>2 DEF Refuse, ShortHead, NoMemory, CannotCreate, Interrupt, Close, Return
  <2>2. QED
    BY <2>1 DEF Stage
<1>3. CASE Read
  <2>1. files' = before' /\ before' = before /\ pc' \in {"search", "rename", "create"}
        /\ (pc' = "create" => ~Renames)
    BY <1>3 DEF Read, Stage, Renames
  <2>2. ~Renames => Base(before) = before
    BY DEF Base
  <2>3. QED
    BY <1>1, <2>1, <2>2 DEF Stage
<1>4. CASE Search
  BY <1>4 DEF Search, Return, Stage
<1>5. CASE Rename
  <2>1. /\ files = before /\ before' = before /\ pc' = "create" /\ Renames
        /\ files' = IF ORG \in DOMAIN files /\ ~input.replaces THEN files
                    ELSE [f \in (DOMAIN files \ {in}) \cup {ORG} |-> IF f = ORG THEN files[in] ELSE files[f]]
    BY <1>5 DEF Rename, Stage, Control
  <2>2. files' = Base(before)
    BY <2>1 DEF Base, Moved
  <2>3. QED
    BY <1>1, <2>1, <2>2 DEF Stage
<1>6. CASE Create
  <2>1. /\ files = Base(before) /\ before' = before /\ pc' \in {"copy", "write"}
        /\ files' = [f \in DOMAIN files \cup {out} |-> IF f = out THEN <<>> ELSE files[f]]
    BY <1>6 DEF Create, Stage
  <2>2. files' = Filled(before, <<>>)
    BY <2>1 DEF Filled
  <2>3. QED
    BY <1>1, <2>1, <2>2 DEF Stage
<1>7. CASE Write
  <2>1. pc = "write" /\ pc' = "close" /\ UNCHANGED <<files, before>>
    BY <1>7 DEF Write
  <2>2. QED
    BY <1>1, <2>1 DEF Stage
<1>8. CASE Copy
  <2>1. pc = "copy" /\ pc' \in {"copy", "close"} /\ UNCHANGED <<files, before>>
    BY <1>8 DEF Copy
  <2>2. QED
    BY <1>1, <2>1 DEF Stage
<1>9. CASE RunAgain
  BY <1>9 DEF RunAgain, Stage
<1>10. CASE UNCHANGED vars
  <2>1. UNCHANGED <<files, before, pc>>
    BY <1>10 DEF vars
  <2>2. QED
    BY <1>1, <2>1 DEF Stage
<1>11. QED
  BY <1>2, <1>3, <1>4, <1>5, <1>6, <1>7, <1>8, <1>9, <1>10 DEF Next, Step

LEMMA NextReading ==
  ASSUME RunsAreOfTools, Control, Stage, Reading, [Next]_vars
  PROVE  Reading'
<1>0. /\ input \in Inputs /\ input' = input /\ prog' = prog
      /\ prog \in {"scut", "hcut", "patscbios", "gaia", "dbneg", "decrypt"}
  BY ToolRun, Unchanged, Same DEF Control
<1>1. before' = before => Given' = Given /\ (Settled(Given)' <=> Settled(Given))
  BY <1>0, Same
<1>2. CASE Refuse \/ ShortHead \/ NoMemory \/ CannotCreate \/ Close \/ Interrupt \/ RunAgain
  <2>1. pc' \in {"done", "crash", "start"}
    BY <1>0, <1>2 DEF Refuse, ShortHead, NoMemory, CannotCreate, Interrupt, Close, Return, RunAgain
  <2>2. QED
    BY <2>1 DEF Reading, Busy
<1>3. CASE Read
  <2>1. /\ files = before /\ before' = before /\ (prog = "patscbios" => pc' = "search")
        /\ prog # "hcut" => buf' = files[in]
        /\ prog = "hcut" => input.head < Len(files[in])
    BY <1>3 DEF Read, Stage, LongEnough
  <2>2. QED
    BY <1>0, <1>1, <2>1 DEF Reading, Given
<1>4. CASE Search
  <2>1. /\ pc = "search" /\ before' = before /\ buf' = buf /\ prog = "patscbios"
        /\ pc' = "done" \/ search_bin # 0
    BY <1>4 DEF Search, Return, Control
  <2>2. buf = Given /\ buf \in Seq(Bytes)
    BY <2>1 DEF Reading, Control, Busy
  <2>3. pc' = "done" \/ ~Settled(Given)
    BY <2>1, <2>2, NothingFound
  <2>4. QED
    BY <1>0, <1>1, <2>1, <2>2, <2>3 DEF Reading, Busy
<1>5. CASE Rename \/ Create \/ Write \/ Copy
  <2>1. pc \in Busy \ {"search"} /\ UNCHANGED <<before, buf>>
    BY <1>5 DEF Rename, Create, Write, Copy, Busy
  <2>2. QED
    BY <1>0, <1>1, <2>1 DEF Reading
<1>6. CASE UNCHANGED vars
  <2>1. UNCHANGED <<before, buf, pc>>
    BY <1>6 DEF vars
  <2>2. QED
    BY <1>0, <1>1, <2>1 DEF Reading
<1>7. QED
  BY <1>2, <1>3, <1>4, <1>5, <1>6 DEF Next, Step

(* What hcut reads at a time: up to the end of the file.                   *)
LEMMA ChunkIsPart ==
  ASSUME NEW x, files[in] = x, x \in Seq(Bytes), pos \in 0 .. Len(x), READSIZE \in Nat \ {0}
  PROVE  \E e \in pos .. Len(x) :
           /\ Chunk = SubSeq(x, pos + 1, e) /\ Chunk \in Seq(Bytes) /\ Len(Chunk) = e - pos
           /\ e = pos => pos = Len(x)
<1> DEFINE L == Len(x)
           e == IF L <= pos + READSIZE THEN L ELSE pos + READSIZE
<1>1. L \in Nat /\ pos \in Nat /\ pos <= L /\ pos + READSIZE \in Nat /\ pos < pos + READSIZE
  OBVIOUS
<1>2. e \in pos .. L /\ e \in {L, pos + READSIZE} /\ e <= L /\ e <= pos + READSIZE /\ (e = pos => pos = L)
  BY <1>1
<1>3. Min({L, pos + READSIZE}) = e
  <2>1. {L, pos + READSIZE} \in SUBSET Nat
    BY <1>1
  <2>2. QED
    BY <1>2, <2>1, IsLeast
<1> HIDE DEF e
<1>4. Chunk = SubSeq(x, pos + 1, e)
  BY <1>3 DEF Chunk
<1>5. \A i \in pos + 1 .. e : x[i] \in Bytes
  BY <1>1, <1>2
<1>6. SubSeq(x, pos + 1, e) \in Seq(Bytes)
      /\ Len(SubSeq(x, pos + 1, e)) = IF pos + 1 <= e THEN e - (pos + 1) + 1 ELSE 0
  BY <1>1, <1>2, <1>5, SubSeqProperties, pos + 1 \in Int, e \in Int
<1>7. (IF pos + 1 <= e THEN e - (pos + 1) + 1 ELSE 0) = e - pos
  BY <1>1, <1>2
<1>8. QED
  BY <1>2, <1>4, <1>6, <1>7

LEMMA CutIsBeginning ==
  ASSUME RunsAreOfTools, input \in Inputs, prog = "hcut", out # in, NEW x \in Seq(Bytes),
         NEW m \in input.head .. Len(x)
  PROVE  SubSeq(x, input.head + 1, m) \in Beginnings(x)
<1> DEFINE h == input.head
           L == Len(x)
           w == SubSeq(x, h + 1, L)
           n == m - h
           c == SubSeq(x, h + 1, m)
<1>1. h \in Nat /\ L \in Nat /\ m \in Nat /\ h <= m /\ m <= L /\ n \in Nat
  BY ToolRun
<1>2. ASSUME NEW e \in h .. L
      PROVE  /\ SubSeq(x, h + 1, e) \in Seq(Bytes) /\ Len(SubSeq(x, h + 1, e)) = e - h
             /\ \A i \in 1 .. e - h : SubSeq(x, h + 1, e)[i] = x[h + i]
  <2>1. e \in Int /\ h + 1 \in Int
    BY <1>1
  <2>2. \A i \in h + 1 .. e : x[i] \in Bytes
    BY <1>1
  <2>3. /\ SubSeq(x, h + 1, e) \in Seq(Bytes)
        /\ Len(SubSeq(x, h + 1, e)) = IF h + 1 <= e THEN e - (h + 1) + 1 ELSE 0
        /\ \A i \in 1 .. e - (h + 1) + 1 : SubSeq(x, h + 1, e)[i] = x[h + 1 + i - 1]
    BY <2>1, <2>2, SubSeqProperties
  <2>4. (IF h + 1 <= e THEN e - (h + 1) + 1 ELSE 0) = e - h /\ e - (h + 1) + 1 = e - h
        /\ \A i \in 1 .. e - h : h + 1 + i - 1 = h + i
    BY <1>1, <2>1
  <2>5. QED
    BY <2>3, <2>4
<1>3. w \in Seq(Bytes) /\ Len(w) = L - h /\ \A i \in 1 .. L - h : w[i] = x[h + i]
  <2>1. L \in h .. L
    BY <1>1
  <2>2. QED
    BY <1>2, <2>1
<1>4. c \in Seq(Bytes) /\ Len(c) = n /\ \A i \in 1 .. n : c[i] = x[h + i]
  BY <1>2
<1>7. w = Wanted(x)
  BY DEF Wanted
<1> HIDE DEF w, c
<1>5. n \in 0 .. Len(w)
  BY <1>1, <1>3
<1> HIDE DEF n
<1>6. SubSeq(w, 1, n) = c
  <2>1. SubSeq(w, 1, n) \in Seq(Bytes) /\ Len(SubSeq(w, 1, n)) = n
        /\ \A i \in 1 .. n : SubSeq(w, 1, n)[i] = w[i]
    BY <1>3, <1>5, Start1
  <2>2. \A i \in 1 .. n : i \in 1 .. L - h
    BY <1>1, <1>3, <1>5
  <2>3. \A i \in 1 .. n : SubSeq(w, 1, n)[i] = c[i]
    BY <1>3, <1>4, <2>1, <2>2
  <2>4. QED
    BY <1>4, <2>1, <2>3, SeqEqual
<1>8. c \in Starts(w)
  BY <1>5, <1>6 DEF Starts
<1>9. w \in Makes(x)
  BY <1>7 DEF Makes
<1>10. QED
  BY <1>8, <1>9 DEF Beginnings, c

(* What is written at once is a beginning of what the tool makes, and all  *)
(* of it unless something fails.                                           *)
LEMMA WritesMade ==
  ASSUME RunsAreOfTools, XorUndoesItself, UnpacksToBytes(Seq(0 .. 255)), input \in Inputs, Write,
         prog # "hcut", buf \in Seq(Bytes), prog = "patscbios" => search_bin # 0
  PROVE  /\ pending' \in Beginnings(buf)
         /\ (run \notin disturbed' /\ Applies(buf)) => pending' = Wanted(buf)
<1>0. PICK made \in Outputs : \E n \in IF Fails("write") THEN 0 .. Len(made) ELSE {Len(made)} :
         /\ pending' = SubSeq(made, 1, n)
         /\ IF n = Len(made) THEN UNCHANGED disturbed ELSE Disturb
  BY DEF Write
<1>1. PICK n \in IF Fails("write") THEN 0 .. Len(made) ELSE {Len(made)} :
         /\ pending' = SubSeq(made, 1, n)
         /\ IF n = Len(made) THEN UNCHANGED disturbed ELSE Disturb
  BY <1>0
<1>2. made \in Seq(Bytes)
  <2>1. prog \in {"scut", "patscbios", "gaia", "dbneg", "decrypt"} /\ input.size \in Nat
    BY ToolRun
  <2>2. prog = "decrypt" => Unpacked(buf) \in Seq(Bytes)
    BY DEF UnpacksToBytes, Bytes
  <2>3. QED
    BY <2>1, <2>2, OutputsAreFiles
<1>3. n \in 0 .. Len(made)
  BY <1>1, <1>2
<1>4. CASE made = <<>>
  <2>1. n = 0
    BY <1>3, <1>4
  <2>2. pending' = <<>>
    BY <1>1, <2>1, SubSeqEmpty, 1 \in Int, 0 \in Int, 0 < 1
  <2>3. QED
    BY <1>4, <2>2, OutputsAreWanted DEF Beginnings
<1>5. CASE made # <<>>
  <2>1. made \in Makes(buf)
    BY <1>5, OutputsAreMade
  <2>2. pending' \in Beginnings(buf)
    BY <1>1, <1>3, <2>1 DEF Beginnings, Starts
  <2>3. ASSUME run \notin disturbed', Applies(buf) PROVE pending' = Wanted(buf)
    <3>1. n = Len(made)
      BY <1>1, <2>3 DEF Disturb
    <3>2. pending' = made
      BY <1>1, <1>2, <3>1, SubSeqFull
    <3>3. QED
      BY <2>3, <3>2, OutputsAreWanted
  <2>4. QED
    BY <2>2, <2>3
<1>6. QED
  BY <1>4, <1>5

(* In what hcut has emptied before reading it there is nothing to copy.    *)
LEMMA ChunkOfNothing ==
  ASSUME files[in] = <<>>, pos \in Nat, READSIZE \in Nat
  PROVE  Chunk = <<>>
<1>1. Len(files[in]) = 0 /\ {0, pos + READSIZE} \in SUBSET Nat
  OBVIOUS
<1>2. Min({0, pos + READSIZE}) = 0
  BY <1>1, IsLeast
<1>3. Chunk = SubSeq(files[in], pos + 1, 0)
  BY <1>1, <1>2 DEF Chunk
<1>4. QED
  BY <1>3, SubSeqEmpty, pos + 1 \in Int, 0 \in Int, 0 < pos + 1

LEMMA CopiesMade ==
  ASSUME RunsAreOfTools, Control, Stage, Reading, Written, Copy
  PROVE  /\ pc' = "copy" =>
              IF out = in THEN pos' = input.head /\ pending' = <<>>
              ELSE pos' \in input.head .. Len(Given) /\ pending' = SubSeq(Given, input.head + 1, pos')
         /\ pc' = "close" =>
              /\ pending' \in Beginnings(Given)
              /\ (run \notin disturbed' /\ Applies(Given)) => pending' = Wanted(Given)
<1> DEFINE h == input.head
           L == Len(Given)
<1>0. /\ input \in Inputs /\ pc = "copy" /\ prog = "hcut" /\ in \in DOMAIN before
      /\ Given \in Seq(Bytes) /\ L \in Nat /\ h \in Nat /\ READSIZE \in Nat \ {0}
      /\ h < L /\ files = Filled(before, <<>>) /\ Base(before) = before
  <2>1. input \in Inputs /\ pc = "copy" /\ prog = "hcut"
    BY DEF Copy, Control
  <2>2. Base(before) = before
    BY <2>1 DEF Base, Renames
  <2>3. QED
    BY <2>1, <2>2, ToolRun DEF Control, Stage, Reading, Busy
<1>1. CASE out = in
  <2>1. pos = h /\ pending = <<>> /\ files[in] = <<>>
    BY <1>0, <1>1, FilledIs DEF Written
  <2>2. Chunk = <<>>
    BY <1>0, <2>1, ChunkOfNothing
  <2>3. pc' = "close" /\ pending' = <<>>
    BY <2>1, <2>2 DEF Copy
  <2>4. ~Applies(Given)
    BY <1>0, <1>1 DEF Applies
  <2>5. QED
    BY <2>3, <2>4 DEF Beginnings
<1>2. CASE out # in
  <2>1. pos \in h .. L /\ pending = SubSeq(Given, h + 1, pos) /\ pos \in 0 .. L
    BY <1>0, <1>2 DEF Written
  <2>2. files[in] = Given
    <3>1. in \in DOMAIN Base(before) \ {out}
      BY <1>0, <1>2
    <3>2. Filled(before, <<>>)[in] = Base(before)[in]
      BY <1>2, <3>1 DEF Filled
    <3>3. QED
      BY <1>0, <3>2 DEF Given
  <2> DEFINE x == Given
  <2>3. x \in Seq(Bytes) /\ files[in] = x /\ pos \in 0 .. Len(x)
    BY <1>0, <2>1, <2>2
  <2> HIDE DEF x
  <2>4. PICK e \in pos .. Len(x) : /\ Chunk = SubSeq(x, pos + 1, e) /\ Chunk \in Seq(Bytes)
                                   /\ Len(Chunk) = e - pos /\ (e = pos => pos = Len(x))
    BY <1>0, <2>3, ChunkIsPart
  <2>5. /\ e \in h .. L /\ Chunk = SubSeq(Given, pos + 1, e) /\ Chunk \in Seq(Bytes)
        /\ Len(Chunk) = e - pos /\ (e = pos => pos = L) /\ e \in pos .. L
    BY <1>0, <2>1, <2>4 DEF x
  <2>6. CASE Chunk = <<>>
    <3>1. pc' = "close" /\ pending' = pending
      BY <2>6 DEF Copy
    <3>2. pos = L
      <4>1. Len(Chunk) = 0
        BY <2>6
      <4>2. QED
        BY <2>1, <2>5, <4>1
    <3>3. pending = SubSeq(Given, h + 1, L)
      BY <2>1, <3>2
    <3>4. pending = Wanted(Given)
      BY <1>0, <3>3 DEF Wanted
    <3>5. pending \in Beginnings(Given)
      BY <1>0, <1>2, <2>1, CutIsBeginning
    <3>6. QED
      BY <3>1, <3>4, <3>5
  <2>7. CASE Chunk # <<>>
    <3>1. PICK n \in IF Fails("write") THEN 0 .. Len(Chunk) ELSE {Len(Chunk)} :
            /\ pending' = pending \o SubSeq(Chunk, 1, n)
            /\ pos' = pos + Len(Chunk)
            /\ pc' = IF n = Len(Chunk) THEN pc ELSE "close"
            /\ IF n = Len(Chunk) THEN UNCHANGED disturbed ELSE Disturb
      BY <2>7 DEF Copy
    <3>2. n \in Nat /\ n <= e - pos /\ pos + n \in pos .. L /\ pos + n \in h .. L /\ pos + n <= e
          /\ pos \in Nat /\ e \in Nat
      BY <1>0, <2>1, <2>5, <3>1
    <3>3. SubSeq(Chunk, 1, n) = SubSeq(Given, pos + 1, pos + n)
      <4> DEFINE c == SubSeq(Given, pos + 1, pos + n)
                 k == SubSeq(Chunk, 1, n)
      <4>1. k \in Seq(Bytes) /\ Len(k) = n /\ \A i \in 1 .. n : k[i] = Chunk[i]
        <5>1. n \in 0 .. Len(Chunk)
          BY <2>5, <3>2
        <5>2. QED
          BY <2>5, <5>1, Start1
      <4>2. ASSUME NEW g \in pos .. L
            PROVE  /\ SubSeq(Given, pos + 1, g) \in Seq(Bytes) /\ Len(SubSeq(Given, pos + 1, g)) = g - pos
                   /\ \A i \in 1 .. g - pos : SubSeq(Given, pos + 1, g)[i] = Given[pos + i]
        <5>1. \A i \in pos + 1 .. g : Given[i] \in Bytes
          BY <1>0, <3>2
        <5>2. pos + 1 \in Int /\ g \in Int
          BY <3>2, <1>0
        <5>3. /\ SubSeq(Given, pos + 1, g) \in Seq(Bytes)
              /\ Len(SubSeq(Given, pos + 1, g)) = IF pos + 1 <= g THEN g - (pos + 1) + 1 ELSE 0
              /\ \A i \in 1 .. g - (pos + 1) + 1 : SubSeq(Given, pos + 1, g)[i] = Given[pos + 1 + i - 1]
          BY <5>1, <5>2, SubSeqProperties
        <5>4. (IF pos + 1 <= g THEN g - (pos + 1) + 1 ELSE 0) = g - pos /\ g - (pos + 1) + 1 = g - pos
              /\ \A i \in 1 .. g - pos : pos + 1 + i - 1 = pos + i
          BY <3>2, <1>0
        <5>5. QED
          BY <5>3, <5>4
      <4>3. c \in Seq(Bytes) /\ Len(c) = n /\ \A i \in 1 .. n : c[i] = Given[pos + i]
        <5>1. (pos + n) - pos = n
          BY <3>2
        <5>2. QED
          BY <3>2, <4>2, <5>1
      <4>4. \A i \in 1 .. n : Chunk[i] = Given[pos + i]
        <5>1. \A i \in 1 .. n : i \in 1 .. e - pos
          BY <3>2
        <5>2. QED
          BY <2>5, <4>2, <5>1
      <4> HIDE DEF c, k
      <4>5. c = k
        BY <4>1, <4>3, <4>4, SeqEqual
      <4>6. QED
        BY <4>5 DEF c, k
    <3>4. h + 1 \in 1 .. L + 1 /\ pos \in (h + 1) - 1 .. L
      BY <1>0, <2>1
    <3>5. SubSeq(Given, h + 1, pos) \o SubSeq(Given, pos + 1, pos + n) = SubSeq(Given, h + 1, pos + n)
      BY <1>0, <3>2, <3>4, ConcatAdjacentSubSeq
    <3>6. pending' = SubSeq(Given, h + 1, pos + n)
      BY <2>1, <3>1, <3>3, <3>5
    <3>7. pending' \in Beginnings(Given)
      BY <1>0, <1>2, <3>2, <3>6, CutIsBeginning
    <3>8. CASE n = Len(Chunk)
      BY <1>0, <1>2, <2>5, <3>1, <3>2, <3>6, <3>8
    <3>9. CASE n # Len(Chunk)
      <4>1. run \in disturbed' /\ pc' = "close"
        BY <3>1, <3>9 DEF Disturb
      <4>2. QED
        BY <3>7, <4>1
    <3>10. QED
      BY <3>8, <3>9
  <2>8. QED
    BY <2>6, <2>7
<1>3. QED
  BY <1>1, <1>2

LEMMA NextWritten ==
  ASSUME RunsAreOfTools, XorUndoesItself, UnpacksToBytes(Seq(0 .. 255)),
         Control, Stage, Reading, Written, [Next]_vars
  PROVE  Written'
<1>0. /\ input \in Inputs /\ input' = input /\ prog' = prog /\ out' = out
      /\ prog \in {"scut", "hcut", "patscbios", "gaia", "dbneg", "decrypt"} /\ input.head \in Nat
  BY ToolRun, Unchanged, Same DEF Control
<1>1. before' = before =>
        /\ Given' = Given /\ Beginnings(Given)' = Beginnings(Given)
        /\ (Applies(Given)' <=> Applies(Given)) /\ Wanted(Given)' = Wanted(Given)
  BY <1>0, Same
<1>2. CASE ~(Read \/ Rename \/ Create \/ Write \/ Copy \/ UNCHANGED vars)
  <2>1. Search => pc' \in {"rename", "done"}
    BY DEF Search, Return
  <2>2. pc' \in {"done", "crash", "start", "rename"}
    BY <1>0, <1>2, <2>1 DEF Next, Step, Refuse, ShortHead, NoMemory, CannotCreate, Interrupt, Close, Return,
                            RunAgain
  <2>3. QED
    BY <2>2 DEF Written
<1>3. CASE Read
  <2>1. pc' \in {"search", "rename", "create"} /\ (prog = "hcut" => pos' = input.head)
    BY <1>3 DEF Read
  <2>2. QED
    BY <1>0, <2>1 DEF Written
<1>4. CASE Rename
  <2>1. pc' = "create" /\ prog # "hcut"
    BY <1>4 DEF Rename, Control, Renames
  <2>2. QED
    BY <1>0, <2>1 DEF Written
<1>5. CASE Create
  <2>1. /\ pc = "create" /\ pc' = (IF prog = "hcut" THEN "copy" ELSE "write") /\ pos' = pos
        /\ pending' = <<>> /\ before' = before
    BY <1>5 DEF Create
  <2>2. ASSUME prog = "hcut" PROVE SubSeq(Given, input.head + 1, pos') = <<>>
                                   /\ pos' \in input.head .. Len(Given) /\ pos' = input.head
    <3>1. pos' = input.head
      BY <2>1, <2>2 DEF Written
    <3>2. SubSeq(Given, input.head + 1, pos') = <<>>
      BY <1>0, <3>1, SubSeqEmpty, input.head + 1 \in Int, input.head < input.head + 1
    <3>3. input.head < Len(Given) /\ Len(Given) \in Nat
      BY <2>1, <2>2 DEF Reading, Control, Busy
    <3>4. QED
      BY <1>0, <3>1, <3>2, <3>3
  <2>3. QED
    BY <1>0, <1>1, <2>1, <2>2 DEF Written
<1>6. CASE Write
  <2>1. pc = "write" /\ pc' = "close" /\ before' = before /\ run' = run /\ prog # "hcut"
    BY <1>6 DEF Write, Control
  <2>2. buf = Given /\ buf \in Seq(Bytes) /\ (prog = "patscbios" => ~Settled(buf))
    BY <2>1 DEF Reading, Control, Busy
  <2>3. prog = "patscbios" => search_bin # 0
    BY <2>2, NothingFound
  <2>4. pending' \in Beginnings(Given) /\ ((run \notin disturbed' /\ Applies(Given)) => pending' = Wanted(Given))
    BY <1>0, <1>6, <2>1, <2>2, <2>3, WritesMade
  <2>5. QED
    BY <1>0, <1>1, <2>1, <2>4 DEF Written
<1>7. CASE Copy
  <2>1. pc' \in {"copy", "close"} /\ before' = before /\ run' = run
    BY <1>7 DEF Copy
  <2>2. QED
    BY <1>0, <1>1, <1>7, <2>1, CopiesMade DEF Written
<1>8. CASE UNCHANGED vars
  <2>1. UNCHANGED <<before, pending, pos, pc, run, disturbed>>
    BY <1>8 DEF vars
  <2>2. QED
    BY <1>0, <1>1, <2>1 DEF Written
<1>9. QED
  BY <1>2, <1>3, <1>4, <1>5, <1>6, <1>7, <1>8

(* Whatever is written to the output makes one of the shapes.              *)
LEMMA FilledIsShape ==
  ASSUME Control, Reading, pc \in Busy \ {"search"}, NEW z \in Beginnings(Given)
  PROVE  Filled(before, z) \in Shapes(before) /\ Base(before) \in Shapes(before)
<1>1. in \in DOMAIN before /\ ~NothingToPatch(before)
  BY DEF Control, Reading, NothingToPatch, Given
<1>2. QED
  BY <1>1 DEF Shapes, Given

LEMMA CurrentShape ==
  ASSUME Control, Stage, Reading, Ended
  PROVE  files \in Shapes(before)
<1>1. <<>> \in Beginnings(Given) /\ before \in Shapes(before)
  BY DEF Beginnings, Shapes
<1>2. pc \in {"create", "write", "copy", "close"} =>
        Filled(before, <<>>) \in Shapes(before) /\ Base(before) \in Shapes(before)
  BY <1>1, FilledIsShape DEF Busy
<1>3. pc \in {"start", "search", "rename", "create", "write", "copy", "close", "done", "crash"}
  BY DEF Control, Busy
<1>4. QED
  BY <1>1, <1>2, <1>3 DEF Stage, Ended

LEMMA NextEnded ==
  ASSUME RunsAreOfTools, XorUndoesItself, UnpacksToBytes(Seq(0 .. 255)),
         Control, Stage, Reading, Written, Ended, [Next]_vars
  PROVE  Ended'
<1>0. /\ input \in Inputs /\ input' = input /\ prog' = prog /\ (BadArgument' <=> BadArgument)
      /\ prog \in {"scut", "hcut", "patscbios", "gaia", "dbneg", "decrypt"}
      /\ before' = before =>
           Base(before)' = Base(before) /\ Shapes(before)' = Shapes(before) /\ Finals(before)' = Finals(before)
  BY ToolRun, Unchanged, Same DEF Control
<1>1. files \in Shapes(before) /\ before \in Shapes(before)
  BY CurrentShape DEF Shapes
<1>2. CASE Refuse
  <2>1. /\ pc' = "done" /\ ret' # 0 /\ files' = files /\ before' = before /\ files = before
        /\ BadArgument \/ in \notin DOMAIN before
    BY <1>2 DEF Refuse, Return, Stage
  <2>2. QED
    BY <1>0, <1>1, <2>1 DEF Ended
<1>3. CASE ShortHead
  <2>1. pc' = "done" /\ ret' # 0 /\ files' = files /\ before' = before /\ files = before /\ prog = "hcut"
    BY <1>3 DEF ShortHead, Return, Stage
  <2>2. QED
    BY <1>0, <1>1, <2>1 DEF Ended
<1>4. CASE NoMemory
  <2>1. /\ run' = run /\ run \in disturbed' /\ files' = files /\ before' = before /\ files = before
    BY <1>4 DEF NoMemory, Disturb, Stage
  <2>2. QED
    BY <1>0, <1>1, <2>1 DEF Ended
<1>5. CASE Search
  <2>1. /\ pc = "search" /\ files' = files /\ before' = before /\ files = before /\ prog = "patscbios"
        /\ pc' = "rename" \/ (pc' = "done" /\ ret' = 0 /\ search_bin = 0)
    BY <1>5 DEF Search, Return, Stage, Control
  <2>2. buf = Given /\ buf \in Seq(Bytes) /\ in \in DOMAIN before
    BY <2>1 DEF Reading, Control, Busy
  <2>3. pc' = "done" => files \in Finals(before)
    BY <2>1, <2>2, NothingFound DEF Finals, NothingToPatch, Given
  <2>4. QED
    BY <1>0, <1>1, <2>1, <2>2, <2>3 DEF Ended
<1>6. CASE CannotCreate
  <2>1. /\ run' = run /\ run \in disturbed' /\ files' = files /\ before' = before /\ files = Base(before)
    BY <1>6 DEF CannotCreate, Disturb, Stage
  <2>2. (pc' = "done" /\ ret' # 0) => prog \in {"scut", "hcut", "gaia"} \/ (prog = "decrypt" /\ ret' = -2)
    <3>1. CASE prog = "scut"
      BY <1>6, <3>1 DEF CannotCreate, Return
    <3>2. CASE prog = "hcut"
      BY <1>6, <3>2 DEF CannotCreate, Return
    <3>3. CASE prog \in {"gaia", "decrypt"}
      BY <1>6, <3>3 DEF CannotCreate, Return
    <3>4. CASE prog = "dbneg"
      BY <1>6, <3>4 DEF CannotCreate, Return
    <3>5. CASE prog = "patscbios"
      BY <1>6, <3>5 DEF CannotCreate, Return
    <3>6. QED
      BY <1>0, <3>1, <3>2, <3>3, <3>4, <3>5
  <2>3. prog \in {"scut", "hcut", "gaia"} => Base(before) = before
    BY DEF Base, Renames
  <2>4. QED
    BY <1>0, <1>1, <2>1, <2>2, <2>3 DEF Ended
<1>7. CASE Close
  <2>1. /\ pc = "close" /\ before' = before /\ run' = run /\ files = Filled(before, <<>>)
        /\ \/ pc' = "done" /\ ret' = 0 /\ files' = [files EXCEPT ![out] = pending] /\ disturbed' = disturbed
           \/ pc' = "crash" /\ files' = files
    BY <1>7 DEF Close, Return, Stage
  <2>2. [Filled(before, <<>>) EXCEPT ![out] = pending] = Filled(before, pending)
    BY DEF Filled
  <2>3. Filled(before, pending) \in Shapes(before)
    BY <2>1, FilledIsShape DEF Written, Busy
  <2>4. in \in DOMAIN before /\ ~NothingToPatch(before)
    BY <2>1 DEF Control, Reading, Busy, NothingToPatch, Given
  <2>5. run \notin disturbed => Filled(before, pending) \in Finals(before)
    BY <2>1, <2>4 DEF Finals, Written, Given
  <2>6. CASE pc' = "done"
    BY <1>0, <2>1, <2>2, <2>3, <2>4, <2>5, <2>6 DEF Ended
  <2>7. CASE pc' = "crash"
    BY <1>0, <1>1, <2>1, <2>7 DEF Ended
  <2>8. QED
    BY <2>1, <2>6, <2>7
<1>8. CASE Interrupt
  <2>1. /\ pc' = "crash" /\ before' = before /\ pc \in Busy
        /\ \/ files' = files
           \/ /\ pc \in {"copy", "close"}
              /\ \E n \in 0 .. Len(pending) : files' = [files EXCEPT ![out] = SubSeq(pending, 1, n)]
    BY <1>8 DEF Interrupt, Busy
  <2>2. ASSUME pc \in {"copy", "close"}, NEW n \in 0 .. Len(pending)
        PROVE  [files EXCEPT ![out] = SubSeq(pending, 1, n)] \in Shapes(before)
    <3>1. files = Filled(before, <<>>) /\ Given \in Seq(Bytes)
      BY <2>1, <2>2 DEF Stage, Control
    <3>2. pending \in Beginnings(Given)
      <4>1. CASE pc = "close"
        BY <4>1 DEF Written
      <4>2. CASE pc = "copy" /\ out = in
        BY <4>2 DEF Written, Beginnings
      <4>3. CASE pc = "copy" /\ out # in
        BY <1>0, <3>1, <4>3, CutIsBeginning DEF Written, Control
      <4>4. QED
        BY <2>2, <4>1, <4>2, <4>3
    <3>3. SubSeq(pending, 1, n) \in Beginnings(Given)
      BY <1>0, <3>1, <3>2, BeginningsAreFiles
    <3>4. [files EXCEPT ![out] = SubSeq(pending, 1, n)] = Filled(before, SubSeq(pending, 1, n))
      BY <3>1 DEF Filled
    <3>5. QED
      BY <2>2, <3>3, <3>4, FilledIsShape DEF Busy
  <2>3. files' \in Shapes(before)
    BY <1>1, <2>1, <2>2
  <2>4. QED
    BY <1>0, <2>1, <2>3 DEF Ended
<1>9. CASE Read \/ Rename \/ Create \/ Write \/ Copy \/ RunAgain
  <2>1. pc' \notin {"done", "crash"}
    BY <1>9 DEF Read, Rename, Create, Write, Copy, RunAgain
  <2>2. QED
    BY <2>1 DEF Ended
<1>10. CASE UNCHANGED vars
  <2>1. UNCHANGED <<before, files, pc, ret, run, disturbed>>
    BY <1>10 DEF vars
  <2>2. QED
    BY <1>0, <2>1 DEF Ended
<1>11. QED
  BY <1>2, <1>3, <1>4, <1>5, <1>6, <1>7, <1>8, <1>9, <1>10 DEF Next, Step

-------------------------------------------------------------------------------
(* From one run to the next. *)

LEMMA InputStays ==
  ASSUME RunsAreOfTools, XorUndoesItself, UnpacksToBytes(Seq(0 .. 255)), input \in Inputs,
         NEW d, in \in DOMAIN d => d[in] \in Seq(Bytes), NEW e \in Shapes(d), in \in DOMAIN e
  PROVE  e[in] \in Seq(Bytes)
<1>1. CASE e = d
  BY <1>1
<1>2. CASE e # d
  <2>1. in \in DOMAIN d /\ d[in] \in Seq(Bytes)
        /\ (e = Base(d) \/ \E z \in Beginnings(d[in]) : e = Filled(d, z))
    BY <1>2 DEF Shapes
  <2>2. in \in DOMAIN Base(d) => Base(d) = d
    BY <2>1, BaseIs
  <2>3. CASE e = Base(d)
    BY <2>1, <2>2, <2>3
  <2>4. ASSUME NEW z \in Beginnings(d[in]), e = Filled(d, z) PROVE e[in] \in Seq(Bytes)
    <3>1. CASE out = in
      <4>1. e[in] = z
        BY <2>4, <3>1 DEF Filled
      <4>2. QED
        BY <2>1, <4>1, BeginningsAreFiles
    <3>2. CASE out # in
      <4>1. in \in DOMAIN Base(d) /\ e[in] = Base(d)[in]
        BY <2>4, <3>2 DEF Filled
      <4>2. QED
        BY <2>1, <2>2, <4>1
    <3>3. QED
      BY <3>1, <3>2
  <2>5. QED
    BY <2>1, <2>3, <2>4
<1>3. QED
  BY <1>1, <1>2

(* What is turned over twice is what it was, and the beginning turned over *)
(* is the beginning of what is turned over.                                *)
LEMMA TurnedOver ==
  ASSUME XorUndoesItself, prog \in {"gaia", "dbneg"}, NEW x \in Seq(Bytes)
  PROVE  /\ Wanted(x) \in Seq(Bytes) /\ Len(Wanted(x)) = Len(x) /\ Wanted(Wanted(x)) = x
         /\ \A m \in 0 .. Len(x) : Wanted(SubSeq(x, 1, m)) = SubSeq(Wanted(x), 1, m)
<1> DEFINE Turn(b) == IF prog = "gaia" THEN BitXor(b, dec_val) ELSE IF b = 0 THEN 0 ELSE 256 - b
<1>1. ASSUME NEW y \in Seq(Bytes) PROVE Wanted(y) = [k \in 1 .. Len(y) |-> Turn(y[k])]
  <2>1. DOMAIN y = 1 .. Len(y)
    OBVIOUS
  <2>2. CASE prog = "gaia"
    BY <2>1, <2>2 DEF Wanted
  <2>3. CASE prog = "dbneg"
    BY <2>1, <2>3 DEF Wanted
  <2>4. QED
    BY <2>2, <2>3
<1>2. ASSUME NEW b \in Bytes PROVE Turn(b) \in Bytes /\ Turn(Turn(b)) = b
  <2>1. CASE prog = "gaia"
    BY <2>1, DecValIsByte DEF XorUndoesItself, Bytes
  <2>2. CASE prog = "dbneg"
    BY <2>2 DEF Bytes
  <2>3. QED
    BY <2>1, <2>2
<1> HIDE DEF Turn
<1>3. ASSUME NEW y \in Seq(Bytes)
      PROVE  Wanted(y) \in Seq(Bytes) /\ Len(Wanted(y)) = Len(y)
             /\ \A k \in 1 .. Len(y) : Wanted(y)[k] = Turn(y[k])
  <2>1. Len(y) \in Nat /\ \A k \in 1 .. Len(y) : y[k] \in Bytes
    OBVIOUS
  <2>2. \A k \in 1 .. Len(y) : Turn(y[k]) \in Bytes
    BY <1>2, <2>1
  <2>3. QED
    BY <1>1, <2>1, <2>2
<1> DEFINE w == Wanted(x)
<1>4. w \in Seq(Bytes) /\ Len(w) = Len(x) /\ (\A k \in 1 .. Len(x) : w[k] = Turn(x[k]))
      /\ Len(x) \in Nat /\ \A k \in 1 .. Len(x) : x[k] \in Bytes
  BY <1>3
<1> HIDE DEF w
<1>5. Wanted(w) = x
  <2>1. Wanted(w) \in Seq(Bytes) /\ Len(Wanted(w)) = Len(x) /\ \A k \in 1 .. Len(x) : Wanted(w)[k] = Turn(w[k])
    BY <1>3, <1>4
  <2>2. \A k \in 1 .. Len(x) : Wanted(w)[k] = x[k]
    BY <1>2, <1>4, <2>1
  <2>3. QED
    BY <2>1, <2>2, SeqEqual
<1>6. ASSUME NEW m \in 0 .. Len(x) PROVE Wanted(SubSeq(x, 1, m)) = SubSeq(w, 1, m)
  <2> DEFINE y == SubSeq(x, 1, m)
             u == SubSeq(w, 1, m)
  <2>1. y \in Seq(Bytes) /\ Len(y) = m /\ \A k \in 1 .. m : y[k] = x[k]
    BY Start1
  <2>2. u \in Seq(Bytes) /\ Len(u) = m /\ \A k \in 1 .. m : u[k] = w[k]
    <3>1. m \in 0 .. Len(w)
      BY <1>4
    <3>2. QED
      BY <1>4, <3>1, Start1
  <2> HIDE DEF y, u
  <2>3. Wanted(y) \in Seq(Bytes) /\ Len(Wanted(y)) = m /\ \A k \in 1 .. m : Wanted(y)[k] = Turn(y[k])
    BY <1>3, <2>1
  <2>4. \A k \in 1 .. m : k \in 1 .. Len(x)
    BY <1>4
  <2>5. \A k \in 1 .. m : Wanted(y)[k] = u[k]
    BY <1>4, <2>1, <2>2, <2>3, <2>4
  <2>6. Wanted(y) = u
    BY <2>2, <2>3, <2>5, SeqEqual
  <2>7. QED
    BY <2>6 DEF y, u
<1>7. QED
  BY <1>4, <1>5, <1>6 DEF w

(* Where there is but one pattern, whatever was written of the patched     *)
(* file has none.                                                          *)
LEMMA OncePatched ==
  ASSUME StaysPatched, Original \in Seq(Bytes), NEW z \in Beginnings(Original)
  PROVE  Settled(z)
<1>1. CASE z = <<>>
  <2>1. Len(z) = 0
    BY <1>1
  <2>2. \A v \in {PATTERN, PATTERN2} : Patterns(z, v) = {}
    BY <2>1 DEF Patterns
  <2>3. QED
    BY <2>2 DEF Settled
<1>2. CASE z # <<>>
  <2>1. PICK p \in BothPatterns(Original) : z \in Starts([Original EXCEPT ![p] = RETN])
    BY <1>2 DEF Beginnings, Makes, StaysPatched
  <2> DEFINE y == [Original EXCEPT ![p] = RETN]
             L == Len(Original)
  <2>2. y = [k \in 1 .. L |-> IF k = p THEN RETN ELSE Original[k]] /\ L \in Nat
    OBVIOUS
  <2> HIDE DEF y
  <2>3. y \in Seq(Bytes) /\ Len(y) = L /\ \A k \in 1 .. L : y[k] = IF k = p THEN RETN ELSE Original[k]
    <3>0. \A k \in 1 .. L : Original[k] \in Bytes
      OBVIOUS
    <3>1. \A k \in 1 .. L : (IF k = p THEN RETN ELSE Original[k]) \in Bytes
      BY <3>0 DEF RETN, Bytes
    <3>2. QED
      BY <2>2, <3>1
  <2>4. PICK n \in 0 .. Len(y) : z = SubSeq(y, 1, n)
    BY <2>1 DEF Starts, y
  <2>5. Len(z) = n /\ n \in Nat /\ n <= L /\ \A k \in 1 .. n : z[k] = y[k]
    BY <2>2, <2>3, <2>4, Start1
  <2>6. ASSUME NEW v \in {PATTERN, PATTERN2}, NEW q \in Patterns(z, v) PROVE FALSE
    <3>1. q \in 2 .. n /\ z[q] = v
      BY <2>5, <2>6 DEF Patterns
    <3>2. q \in 1 .. n /\ q \in 1 .. L /\ q \in 2 .. L
      BY <2>2, <2>5, <3>1
    <3>3. y[q] = v
      BY <2>5, <3>1, <3>2
    <3>4. q # p
      BY <2>3, <3>2, <3>3 DEF RETN, PATTERN, PATTERN2
    <3>5. Original[q] = v
      BY <2>3, <3>2, <3>3, <3>4
    <3>6. q \in BothPatterns(Original)
      BY <3>2, <3>5 DEF BothPatterns, Patterns
    <3>7. QED
      BY <3>4, <3>6 DEF StaysPatched
  <2>7. QED
    BY <2>6 DEF Settled
<1>3. QED
  BY <1>1, <1>2

(* What is left of the first input is left by one more run.                *)
LEMMA LastsOneMore ==
  ASSUME RunsAreOfTools, XorUndoesItself, UnpacksToBytes(Seq(0 .. 255)), input \in Inputs,
         NEW d, Lasting(d), NEW e \in Shapes(d)
  PROVE  Lasting(e)
<1>1. SUFFICES ASSUME in \in DOMAIN input.files, e # d PROVE Lasting(e)
  BY DEF Lasting
<1>2. /\ in \in DOMAIN d /\ ~NothingToPatch(d)
      /\ e = Base(d) \/ \E z \in Beginnings(d[in]) : e = Filled(d, z)
  BY <1>1 DEF Shapes
<1>3. out # ORG /\ in # ORG /\ (Renames \/ prog = "gaia" => out = in) /\ Original \in Seq(Bytes)
  BY <1>1, ToolRun
<1>4. ASSUME out # in PROVE in \in DOMAIN e /\ e[in] = Original
  <2>1. Base(d) = d /\ d[in] = Original
    BY <1>1, <1>2, <1>4, BaseIs DEF Lasting
  <2>2. \A z : in \in DOMAIN Filled(d, z) /\ Filled(d, z)[in] = Base(d)[in]
    BY <1>2, <1>4, <2>1 DEF Filled
  <2>3. QED
    BY <1>2, <2>1, <2>2
<1>5. ASSUME prog = "gaia" \/ (prog = "dbneg" /\ out = in)
      PROVE  in \in DOMAIN e /\ e[in] \in Starts(Original) \cup Starts(Wanted(Original))
  <2>1. out = in /\ Base(d) = d
    BY <1>3, <1>5 DEF Base, Renames
  <2>2. PICK z \in Beginnings(d[in]) : e = Filled(d, z)
    BY <1>1, <1>2, <2>1
  <2>3. in \in DOMAIN e /\ e[in] = z
    BY <2>1, <2>2 DEF Filled
  <2> DEFINE W == Wanted(Original)
  <2>4. /\ W \in Seq(Bytes) /\ Len(W) = Len(Original) /\ Wanted(W) = Original
        /\ \A m \in 0 .. Len(Original) : Wanted(SubSeq(Original, 1, m)) = SubSeq(W, 1, m)
    BY <1>3, <1>5, TurnedOver
  <2>5. \A m \in 0 .. Len(W) : Wanted(SubSeq(W, 1, m)) = SubSeq(Original, 1, m)
    BY <1>5, <2>4, TurnedOver
  <2> HIDE DEF W
  <2>6. d[in] \in Starts(Original) \cup Starts(W)
    BY <1>1, <1>5 DEF Lasting, W
  <2>7. CASE z = <<>>
    <3>1. SubSeq(Original, 1, 0) = <<>> /\ 0 \in 0 .. Len(Original)
      BY <1>3, SubSeqEmpty, 1 \in Int, 0 \in Int, 0 < 1
    <3>2. z \in Starts(Original)
      BY <2>7, <3>1 DEF Starts
    <3>3. QED
      BY <2>3, <3>2
  <2>8. CASE z # <<>>
    <3>1. z \in Starts(Wanted(d[in]))
      BY <1>5, <2>8 DEF Beginnings, Makes
    <3>2. ASSUME NEW x \in Seq(Bytes), NEW v \in Seq(Bytes), NEW m \in 0 .. Len(x), Len(v) = Len(x),
                 Wanted(d[in]) = SubSeq(v, 1, m)
          PROVE  z \in Starts(v)
      <4>1. m \in 0 .. Len(v) /\ m \in Nat
        BY <3>2
      <4>2. Len(SubSeq(v, 1, m)) = m
        BY <4>1, Start1
      <4>3. PICK n \in 0 .. m : z = SubSeq(SubSeq(v, 1, m), 1, n)
        BY <3>1, <3>2, <4>2 DEF Starts
      <4>4. z = SubSeq(v, 1, n) /\ n \in 0 .. Len(v)
        BY <4>1, <4>3, StartOfStart
      <4>5. QED
        BY <4>4 DEF Starts
    <3>3. CASE d[in] \in Starts(Original)
      <4>1. PICK m \in 0 .. Len(Original) : d[in] = SubSeq(Original, 1, m)
        BY <3>3 DEF Starts
      <4>2. Wanted(d[in]) = SubSeq(W, 1, m)
        BY <2>4, <4>1
      <4>3. z \in Starts(W)
        BY <1>3, <2>4, <3>2, <4>2
      <4>4. QED
        BY <2>3, <4>3 DEF W
    <3>4. CASE d[in] \in Starts(W)
      <4>1. PICK m \in 0 .. Len(W) : d[in] = SubSeq(W, 1, m)
        BY <3>4 DEF Starts
      <4>2. Wanted(d[in]) = SubSeq(Original, 1, m)
        BY <2>5, <4>1
      <4>3. z \in Starts(Original)
        BY <1>3, <2>4, <3>2, <4>2
      <4>4. QED
        BY <2>3, <4>3
    <3>5. QED
      BY <2>6, <3>3, <3>4
  <2>9. QED
    BY <2>7, <2>8
<1>6. ASSUME Renames, ORG \notin DOMAIN input.files, input.replaces => StaysPatched
      PROVE  IF ORG \in DOMAIN e
             THEN e[ORG] = Original /\ (input.replaces /\ in \in DOMAIN e => e[in] = Original \/ Settled(e[in]))
             ELSE in \in DOMAIN e /\ e[in] = Original
  <2>1. IF ORG \in DOMAIN d
        THEN d[ORG] = Original /\ (input.replaces => d[in] = Original \/ Settled(d[in]))
        ELSE d[in] = Original
    BY <1>1, <1>2, <1>6 DEF Lasting
  <2>2. CASE ORG \in DOMAIN d /\ ~input.replaces
    <3>1. Base(d) = d
      BY <2>2 DEF Base
    <3>2. \A z : ORG \in DOMAIN Filled(d, z) /\ Filled(d, z)[ORG] = Base(d)[ORG]
      BY <1>3, <2>2, <3>1 DEF Filled
    <3>3. ORG \in DOMAIN e /\ e[ORG] = d[ORG]
      BY <1>2, <2>2, <3>1, <3>2
    <3>4. QED
      BY <2>1, <2>2, <3>3
  <2>3. CASE ORG \in DOMAIN d => input.replaces
    <3>1. d[in] = Original
      <4>1. input.replaces => ~Settled(d[in])
        BY <1>2, <1>6 DEF NothingToPatch, StaysPatched
      <4>2. QED
        BY <2>1, <2>3, <4>1
    <3>2. ORG \in DOMAIN Base(d) /\ Base(d)[ORG] = Original /\ in \notin DOMAIN Base(d)
      BY <1>2, <1>6, <2>3, <3>1, BaseIs
    <3>3. ASSUME NEW z \in Beginnings(d[in]), e = Filled(d, z)
          PROVE  ORG \in DOMAIN e /\ e[ORG] = Original /\ (input.replaces => Settled(e[in]))
      <4>1. ORG \in DOMAIN e /\ e[ORG] = Original
        BY <1>3, <3>2, <3>3 DEF Filled
      <4>2. e[in] = z
        BY <1>3, <1>6, <3>3 DEF Filled
      <4>3. input.replaces => Settled(z)
        BY <1>3, <1>6, <3>1, OncePatched
      <4>4. QED
        BY <4>1, <4>2, <4>3
    <3>4. CASE e = Base(d)
      BY <3>2, <3>4
    <3>5. QED
      BY <1>2, <3>3, <3>4
  <2>4. QED
    BY <2>2, <2>3
<1>7. QED
  BY <1>4, <1>5, <1>6 DEF Lasting

LEMMA NextRounds ==
  ASSUME RunsAreOfTools, XorUndoesItself, UnpacksToBytes(Seq(0 .. 255)),
         Control, Stage, Reading, Ended, Rounds, [Next]_vars
  PROVE  Rounds'
<1>0. /\ input \in Inputs /\ input' = input /\ prog' = prog
      /\ Finals(input.files)' = Finals(input.files)
      /\ before' = before => (Lasting(before)' <=> Lasting(before))
  BY Unchanged, Same DEF Control
<1>1. CASE RunAgain
  <2>1. pc \in {"done", "crash"} /\ run' = run + 1 /\ before' = files /\ disturbed' = disturbed
    BY <1>1 DEF RunAgain
  <2>2. run' # 1
    BY <2>1 DEF Control
  <2>3. Lasting(files)
    BY <1>0, CurrentShape, LastsOneMore DEF Rounds
  <2>4. Lasting(before)'
    <3>1. /\ out' = out /\ Original' = Original /\ (Renames' <=> Renames)
          /\ (StaysPatched' <=> StaysPatched) /\ Starts(Original)' = Starts(Original)
          /\ Starts(Wanted(Original))' = Starts(Wanted(Original))
      BY <1>0 DEF StaysPatched, Starts, Wanted, BothPatterns, Patterns, Original, Renames, Occurrences, prog,
                  out, dec_val
    <3>2. Settled(before[in])' <=> Settled(files[in])
      BY <2>1 DEF Settled, Patterns
    <3>3. QED
      BY <1>0, <2>1, <2>3, <3>1, <3>2 DEF Lasting
  <2>5. ASSUME run' = 2, 1 \notin disturbed, in \in DOMAIN input.files,
               prog \in {"patscbios", "decrypt", "gaia", "dbneg"}
        PROVE  files \in Finals(input.files)
    <3>1. run = 1 /\ before = input.files
      BY <2>1, <2>5 DEF Control, Rounds
    <3>2. pc = "done"
      BY <2>1, <2>5, <3>1 DEF Control
    <3>3. ~BadArgument /\ prog # "hcut"
      BY <2>5 DEF BadArgument
    <3>4. ret = 0
      BY <2>5, <3>1, <3>2, <3>3 DEF Ended
    <3>5. QED
      BY <2>5, <3>1, <3>2, <3>4 DEF Ended
  <2>6. QED
    BY <1>0, <2>1, <2>2, <2>4, <2>5 DEF Rounds
<1>2. CASE ~RunAgain
  <2>1. run' = run /\ before' = before /\ (1 \notin disturbed' => 1 \notin disturbed)
    BY <1>2, Unchanged
  <2>2. QED
    BY <1>0, <2>1 DEF Rounds
<1>3. QED
  BY <1>1, <1>2

-------------------------------------------------------------------------------
(* What follows. *)

LEMMA KeepsEachRun ==
  ASSUME RunsAreOfTools, Control, Stage, Reading, Ended
  PROVE  EachRunKeeps
<1>0. /\ input \in Inputs /\ files \in Shapes(before)
      /\ out \in {in, "out"} /\ out # ORG /\ in # ORG /\ (Renames => out = in)
  BY ToolRun, CurrentShape DEF Control
<1>1. CASE in \notin DOMAIN before \/ (prog = "patscbios" /\ Settled(Given))
  <2>1. files = before
    BY <1>0, <1>1 DEF Shapes, NothingToPatch, Given
  <2>2. QED
    BY <1>1, <2>1 DEF EachRunKeeps
<1>2. CASE ~(in \notin DOMAIN before \/ (prog = "patscbios" /\ Settled(Given)))
  <2>0. files \in {before, Base(before)} \/ \E z \in Beginnings(Given) : files = Filled(before, z)
    BY <1>0, <1>2 DEF Shapes, Given
  <2> DEFINE Kept ==
        /\ out # in => in \in DOMAIN files /\ files[in] = Given
        /\ (Renames /\ ~NameTaken) => \E f \in {in, ORG} : f \in DOMAIN files /\ files[f] = Given
        /\ (out = in /\ (Renames => NameTaken)) => in \in DOMAIN files
        /\ out \in DOMAIN files => (out \in DOMAIN before /\ files[out] = before[out]) \/ files[out] \in Beginnings(Given)
        /\ ORG \in DOMAIN files => (ORG \in DOMAIN before /\ files[ORG] = before[ORG]) \/ (Renames /\ files[ORG] = Given)
        /\ \A f \in DOMAIN before \ {in, out} :
             f \in DOMAIN files /\ (files[f] = before[f] \/ (Renames /\ f = ORG /\ input.replaces))
  <2> SUFFICES Kept
    BY <1>2 DEF EachRunKeeps
  <2>1. CASE files = before
    BY <1>2, <2>1 DEF Given
  <2>2. CASE ~Renames \/ NameTaken
    <3>1. Base(before) = before
      BY <2>2 DEF Base, NameTaken
    <3>2. ASSUME NEW z \in Beginnings(Given), files = Filled(before, z) PROVE Kept
      <4>1. /\ DOMAIN files = DOMAIN before \cup {out} /\ files[out] = z
            /\ \A f \in DOMAIN before : f # out => files[f] = before[f]
        BY <3>1, <3>2 DEF Filled
      <4>2. QED
        BY <1>0, <1>2, <2>2, <3>2, <4>1 DEF Given
    <3>3. QED
      BY <2>0, <2>1, <3>1, <3>2
  <2>3. CASE Renames /\ ~NameTaken
    <3>1. /\ DOMAIN Base(before) = (DOMAIN before \ {in}) \cup {ORG} /\ Base(before)[ORG] = Given
          /\ \A f \in DOMAIN before : f # in /\ f # ORG => Base(before)[f] = before[f]
      BY <1>0, <2>3 DEF Base, Moved, NameTaken, Given
    <3>2. (ORG \in DOMAIN before => input.replaces) /\ out = in
      BY <1>0, <2>3 DEF NameTaken
    <3>3. CASE files = Base(before)
      BY <1>0, <2>3, <3>1, <3>2, <3>3
    <3>4. ASSUME NEW z \in Beginnings(Given), files = Filled(before, z) PROVE Kept
      <4>1. /\ DOMAIN files = DOMAIN Base(before) \cup {out} /\ files[out] = z
            /\ \A f \in DOMAIN Base(before) : f # out => files[f] = Base(before)[f]
        BY <3>4 DEF Filled
      <4>2. QED
        BY <1>0, <2>3, <3>1, <3>2, <3>4, <4>1
    <3>5. QED
      BY <2>0, <2>1, <3>3, <3>4
  <2>4. QED
    BY <2>2, <2>3
<1>3. QED
  BY <1>1, <1>2

LEMMA KeepsOriginal ==
  ASSUME RunsAreOfTools, XorUndoesItself, UnpacksToBytes(Seq(0 .. 255)), IInv
  PROVE  OriginalIsKept
<1>0. /\ input \in Inputs /\ files \in Shapes(before) /\ Lasting(files) /\ run \in Nat \ {0}
      /\ run = 1 => before = input.files
  <2>1. files \in Shapes(before)
    BY CurrentShape DEF IInv
  <2>2. QED
    BY <2>1, LastsOneMore DEF IInv, Control, Rounds
<1>1. SUFFICES ASSUME in \in DOMAIN input.files, Renames, ORG \notin DOMAIN input.files
               PROVE  \/ \E f \in DOMAIN files : files[f] = Original
                      \/ /\ run > 1 /\ input.replaces
                         /\ prog = "decrypt" \/ \E p, q \in BothPatterns(Original) : p # q
  BY <1>0 DEF OriginalIsKept, Lasting
<1>2. CASE run = 1
  <2>1. EachRunKeeps /\ before = input.files /\ Given = Original /\ ~NameTaken
    BY <1>0, <1>1, <1>2, KeepsEachRun DEF IInv, Given, Original, NameTaken
  <2>2. in \in DOMAIN before
    BY <1>1, <2>1
  <2>3. \E f \in {in, ORG} : f \in DOMAIN files /\ files[f] = Original
    <3>1. CASE files = before
      BY <2>1, <2>2, <3>1 DEF Given
    <3>2. CASE files # before
      BY <1>1, <2>1, <2>2, <3>2 DEF EachRunKeeps
    <3>3. QED
      BY <3>1, <3>2
  <2>4. QED
    BY <2>3
<1>3. CASE run # 1
  <2>1. run > 1
    BY <1>0, <1>3
  <2>2. CASE input.replaces => StaysPatched
    BY <1>0, <1>1, <2>2 DEF Lasting
  <2>3. CASE ~(input.replaces => StaysPatched)
    BY <1>1, <2>1, <2>3 DEF StaysPatched, Renames
  <2>4. QED
    BY <2>2, <2>3
<1>4. QED
  BY <1>2, <1>3

LEMMA LeavesNoTrace ==
  ASSUME RunsAreOfTools, IInv
  PROVE  RefusalLeavesNoTrace
<1>1. SUFFICES ASSUME pc = "done", ret # 0, prog = "decrypt", ret = -2, files = Base(before), files # before
               PROVE  files[ORG] = before[in]
  BY DEF IInv, Ended, RefusalLeavesNoTrace
<1>2. files = Moved(before)
  BY <1>1 DEF Base
<1>3. QED
  BY <1>2 DEF Moved

(* patscbios makes another file of one it has something to patch in.       *)
LEMMA SettledIsWanted ==
  ASSUME prog = "patscbios", NEW x \in Seq(Bytes), Applies(x)
  PROVE  /\ Settled(x) <=> Wanted(x) = x
         /\ Applies(Wanted(x))
<1> DEFINE L == Len(x)
<1>0. /\ L \in Nat /\ DOMAIN x = 1 .. L /\ (x = <<>> <=> L = 0)
      /\ x # <<>> => x[1] \notin {PATTERN, PATTERN2}
  BY DEF Applies
<1>1. Settled(x) <=> Patterns(x, PATTERN) = {} /\ Patterns(x, PATTERN2) = {}
  <2>1. x = <<>> => Patterns(x, PATTERN) = {} /\ Patterns(x, PATTERN2) = {}
    BY <1>0 DEF Patterns
  <2>2. QED
    BY <1>0, <2>1 DEF Settled
<1>2. CASE Settled(x)
  <2>1. Wanted(x) = x
    BY <1>1, <1>2 DEF Wanted
  <2>2. QED
    BY <1>2, <2>1
<1>3. CASE ~Settled(x)
  <2> DEFINE T == IF Patterns(x, PATTERN) # {} THEN Patterns(x, PATTERN) ELSE Patterns(x, PATTERN2)
             m == Min(T)
  <2>1. Wanted(x) = [x EXCEPT ![m] = RETN]
    BY <1>1, <1>3 DEF Wanted
  <2>2. T \in SUBSET Nat /\ T # {}
    BY <1>1, <1>3 DEF Patterns
  <2>3. m \in T
    BY <2>2, LeastNumber
  <2> HIDE DEF m
  <2>4. m \in 2 .. L /\ (x[m] = PATTERN \/ x[m] = PATTERN2)
    BY <2>3 DEF Patterns
  <2>5. m \in DOMAIN x /\ x[m] # RETN /\ m # 1
    BY <1>0, <2>4 DEF RETN, PATTERN, PATTERN2
  <2>6. Wanted(x) # x
    BY <2>1, <2>5
  <2>7. Wanted(x)[1] = x[1] /\ x # <<>>
    <3>1. 1 \in DOMAIN x
      BY <1>0, <2>4
    <3>2. QED
      BY <1>0, <2>1, <2>5, <3>1
  <2>8. Applies(Wanted(x))
    BY <1>0, <2>7 DEF Applies
  <2>9. QED
    BY <1>3, <2>6, <2>8
<1>4. QED
  BY <1>2, <1>3

(* What an undisturbed run makes of the files it finds.                    *)
LEMMA FinalIs ==
  ASSUME RunsAreOfTools, input \in Inputs, NEW d, in \in DOMAIN d, d[in] \in Seq(Bytes), Applies(d[in]),
         NEW e \in Finals(d)
  PROVE  /\ out \in DOMAIN e /\ e[out] = Wanted(d[in])
         /\ (Renames /\ Renaming(d[in])) =>
              ORG \in DOMAIN e /\ e[ORG] = IF ORG \in DOMAIN d /\ ~input.replaces THEN d[ORG] ELSE d[in]
         /\ (Renames /\ ~Renaming(d[in])) => e = d
<1>0. out # ORG /\ in # ORG /\ (Renames => out = in)
  BY ToolRun
<1>1. Renames => (NothingToPatch(d) <=> ~Renaming(d[in]))
  BY SettledIsWanted DEF NothingToPatch, Renaming, Renames
<1>2. CASE NothingToPatch(d)
  <2>1. e = d /\ Renames /\ Wanted(d[in]) = d[in]
    BY <1>2, SettledIsWanted DEF Finals, NothingToPatch, Renames
  <2>2. QED
    BY <1>0, <1>1, <1>2, <2>1
<1>3. CASE ~NothingToPatch(d)
  <2>1. e = Filled(d, Wanted(d[in]))
    BY <1>3 DEF Finals
  <2>2. /\ DOMAIN e = DOMAIN Base(d) \cup {out} /\ e[out] = Wanted(d[in])
        /\ \A f \in DOMAIN Base(d) : f # out => e[f] = Base(d)[f]
    BY <2>1 DEF Filled
  <2>3. ASSUME Renames
        PROVE  ORG \in DOMAIN Base(d)
               /\ Base(d)[ORG] = IF ORG \in DOMAIN d /\ ~input.replaces THEN d[ORG] ELSE d[in]
    BY <2>3 DEF Base, Moved
  <2>4. QED
    BY <1>0, <1>1, <1>3, <2>2, <2>3
<1>4. QED
  BY <1>2, <1>3

LEMMA WorkIsDone ==
  ASSUME RunsAreOfTools, IInv
  PROVE  DoesItsWork
<1>1. SUFFICES ASSUME pc = "done", ret = 0, run \notin disturbed, in \in DOMAIN before, Applies(Given)
               PROVE  out \in DOMAIN files /\ files[out] = Wanted(Given)
  BY DEF DoesItsWork
<1>2. input \in Inputs /\ before[in] \in Seq(Bytes) /\ files \in Finals(before) /\ Applies(before[in])
  BY <1>1 DEF IInv, Control, Ended, Given
<1>3. out \in DOMAIN files /\ files[out] = Wanted(before[in])
  BY <1>1, <1>2, FinalIs
<1>4. QED
  BY <1>3 DEF Given

LEMMA DoneTwice ==
  ASSUME RunsAreOfTools, XorUndoesItself, IInv
  PROVE  TwiceRun
<1>1. SUFFICES ASSUME run = 2, pc = "done", ret = 0, disturbed = {}, in \in DOMAIN input.files
               PROVE  /\ prog = "gaia" \/ (prog = "dbneg" /\ out = in) => files[in] = Original
                      /\ (Renames /\ Applies(Original) /\ ORG \notin DOMAIN input.files) =>
                           LET once == Wanted(Original)
                           IN  /\ in \in DOMAIN files /\ files[in] = Wanted(once)
                               /\ IF Renaming(Original)
                                  THEN ORG \in DOMAIN files
                                       /\ files[ORG] = IF Renaming(once) /\ input.replaces THEN once ELSE Original
                                  ELSE ORG \notin DOMAIN files
  BY DEF TwiceRun
<1>2. /\ input \in Inputs /\ files \in Finals(before) /\ in \in DOMAIN before /\ before[in] \in Seq(Bytes)
      /\ Renames \/ prog = "gaia" => out = in
      /\ Original \in Seq(Bytes) /\ input.files[in] = Original
      /\ prog \in {"patscbios", "decrypt", "gaia", "dbneg"} => before \in Finals(input.files)
  <2>1. 1 \notin disturbed /\ run \notin disturbed
    BY <1>1
  <2>2. QED
    BY <1>1, <2>1, ToolRun DEF IInv, Control, Ended, Rounds, Given, Original
<1>3. ASSUME prog = "gaia" \/ (prog = "dbneg" /\ out = in) PROVE files[in] = Original
  <2>1. /\ out = in /\ Applies(before[in]) /\ Applies(Original) /\ before \in Finals(input.files)
    BY <1>2, <1>3 DEF Applies
  <2>2. before[in] = Wanted(Original)
    BY <1>1, <1>2, <2>1, FinalIs
  <2>3. files[in] = Wanted(before[in])
    BY <1>2, <2>1, FinalIs
  <2>4. QED
    BY <1>2, <1>3, <2>2, <2>3, TurnedOver
<1>4. ASSUME Renames, Applies(Original), ORG \notin DOMAIN input.files, NEW once, once = Wanted(Original)
      PROVE  /\ in \in DOMAIN files /\ files[in] = Wanted(once)
             /\ IF Renaming(Original)
                THEN ORG \in DOMAIN files
                     /\ files[ORG] = IF Renaming(once) /\ input.replaces THEN once ELSE Original
                ELSE ORG \notin DOMAIN files
  <2>1. out = in /\ before \in Finals(input.files)
    BY <1>2, <1>4 DEF Renames
  <2>2. /\ before[in] = once
        /\ Renaming(Original) => ORG \in DOMAIN before /\ before[ORG] = Original
        /\ ~Renaming(Original) => before = input.files
    BY <1>1, <1>2, <1>4, <2>1, FinalIs
  <2>3. Applies(once)
    <3>1. CASE prog = "patscbios"
      BY <1>2, <1>4, <3>1, SettledIsWanted
    <3>2. CASE prog = "decrypt"
      BY <3>2 DEF Applies
    <3>3. QED
      BY <1>4, <3>1, <3>2 DEF Renames
  <2>4. /\ in \in DOMAIN files /\ files[in] = Wanted(once)
        /\ Renaming(once) =>
             ORG \in DOMAIN files /\ files[ORG] = IF ORG \in DOMAIN before /\ ~input.replaces THEN before[ORG] ELSE once
        /\ ~Renaming(once) => files = before
    BY <1>2, <1>4, <2>1, <2>2, <2>3, FinalIs
  <2>5. CASE Renaming(Original)
    BY <2>2, <2>4, <2>5
  <2>6. CASE ~Renaming(Original)
    <3>1. once = Original
      BY <1>4, <2>6 DEF Renaming
    <3>2. files = input.files
      BY <2>2, <2>4, <2>6, <3>1
    <3>3. QED
      BY <1>4, <2>4, <2>6, <3>2
  <2>7. QED
    BY <2>5, <2>6
<1>5. QED
  BY <1>3, <1>4

LEMMA Start ==
  ASSUME RunsAreOfTools, Init
  PROVE  IInv
<1>1. /\ input \in Inputs /\ files = input.files /\ before = input.files /\ run = 1 /\ pc = "start"
      /\ disturbed = {} /\ ret = 0
  BY DEF Init
<1>2. out # ORG /\ in # ORG /\ (in \in DOMAIN input.files => Original \in Seq(Bytes))
  BY <1>1, ToolRun
<1>3. Control
  BY <1>1, <1>2 DEF Control, Busy, Given, Original
<1>4. Stage /\ Reading /\ Written /\ Ended
  BY <1>1 DEF Stage, Reading, Written, Ended, Busy
<1>5. Lasting(before)
  <2>1. ASSUME in \in DOMAIN input.files PROVE Original \in Starts(Original)
    <3>1. SubSeq(Original, 1, Len(Original)) = Original /\ Len(Original) \in 0 .. Len(Original)
      BY <1>2, <2>1, SubSeqFull
    <3>2. QED
      BY <3>1 DEF Starts
  <2>2. QED
    BY <1>1, <2>1 DEF Lasting, Original
<1>6. Rounds
  BY <1>1, <1>5 DEF Rounds
<1>7. QED
  BY <1>3, <1>4, <1>6 DEF IInv

LEMMA Further ==
  ASSUME RunsAreOfTools, XorUndoesItself, UnpacksToBytes(Seq(0 .. 255)), IInv, [Next]_vars
  PROVE  IInv'
<1>1. RunAgain => (in \in DOMAIN files => files[in] \in Seq(Bytes))
  <2>1. input \in Inputs /\ files \in Shapes(before) /\ (in \in DOMAIN before => before[in] \in Seq(Bytes))
    BY CurrentShape DEF IInv, Control, Given
  <2>2. QED
    BY <2>1, InputStays
<1>2. Control' /\ Stage' /\ Reading' /\ Written' /\ Ended'
  BY <1>1, NextControl, NextStage, NextReading, NextWritten, NextEnded DEF IInv
<1>3. Rounds'
  BY NextRounds DEF IInv
<1>4. QED
  BY <1>2, <1>3 DEF IInv

(* Whatever file a tool is run on, with whatever arguments, however often, *)
(* whatever fails and wherever it is interrupted. A run changes no file    *)
(* but its output, the input it renames and one it renames that over; what *)
(* is in the output is what was there or a beginning of what the tool      *)
(* makes. After any number of runs the first input is whole where the      *)
(* output has another name, and where it is renamed and that is not done   *)
(* twice over what it was renamed to; of gaia_dec, and dbneg in place, a   *)
(* beginning of it or of its decoding is left. A refusal changes nothing   *)
(* but decrypt's name, a run that nothing disturbs makes the file it is    *)
(* for, and a second one undoes the first, patches the next pattern or     *)
(* unpacks again.                                                          *)
THEOREM InputAccountedFor ==
  ASSUME RunsAreOfTools, XorUndoesItself, UnpacksToBytes(Seq(0 .. 255))
  PROVE  Spec => []AccountsForTheInput
<1>1. Init => IInv
  BY Start
<1>2. IInv /\ [Next]_vars => IInv'
  BY Further
<1>3. IInv => AccountsForTheInput
  BY KeepsEachRun, KeepsOriginal, LeavesNoTrace, WorkIsDone, DoneTwice DEF IInv, AccountsForTheInput
<1>4. QED
  BY <1>1, <1>2, <1>3, PTL DEF Spec

================================================================================
