----------------------------- MODULE SynupsProofs -----------------------------
(***************************************************************************)
(* The SYNUPS player never forgets a score it has loaded, whatever files   *)
(* there are and wherever the handler interrupts the main loop.            *)
(***************************************************************************)
EXTENDS SynupsPlayer, TLAPS

(* TypeOK is needed for the start: only an empty SYNPLAY has no score, so  *)
(* a start at "start_score" is not in vain.                                *)
StartInv == TypeOK /\ NoLostStart

LEMMA InitStart == Init => StartInv
<1> SUFFICES ASSUME Init PROVE StartInv
  OBVIOUS
<1>1. HostTypeOK
  BY DEF Init, HostInit, HostTypeOK
<1>2. start_pending \in {0, 1} /\ synplay_count \in 0 .. SynplayPeriod - 1
  BY DEF Init, SynplayPeriod
<1>3. loaded = None /\ score_seg = None /\ busy = FALSE /\ phase = "empty" /\ pc = "start"
  BY DEF Init
<1>4. QED
  BY <1>1, <1>2, <1>3 DEF StartInv, TypeOK, NoLostStart

(* What vect_hoot does with a file. *)
LEMMA PlayKeeps ==
  ASSUME StartInv, NEW file \in Codes, Play(file), pc' \in {pc, "test"},
         pc' = "test" => pc \in {"hlt", "test"}
  PROVE  /\ start_pending' \in {0, 1}
         /\ score_seg' \in (Scores \cup Truncated \cup {None})
         /\ loaded' \in (Scores \ Refused) \cup {None}
         /\ phase' \in {"empty", "loaded", "playing", "ended"}
         /\ (loaded' = None) <=> (phase' = "empty")
         /\ busy' \in BOOLEAN
         /\ NoLostStart'
<1> USE SynupsAssumption DEF StartInv, TypeOK, NoLostStart, synplayVars
<1>1. CASE file \in Unreadable /\ StopScore
  BY <1>1 DEF StopScore, Reset
<1>2. CASE UNCHANGED <<start_pending, score_seg, synplayVars>>
  BY <1>2
<1>3. CASE file \in Truncated /\ CopyOnly(file)
  BY <1>3 DEF CopyOnly
<1>4. CASE file \in Scores /\ LoadScore(file)
  BY <1>4 DEF LoadScore, Load, Reset
<1>5. QED
  BY <1>1, <1>2, <1>3, <1>4 DEF Play

LEMMA NextStart == StartInv /\ [Next]_vars => StartInv'
<1> SUFFICES ASSUME StartInv, [Next]_vars PROVE StartInv'
  OBVIOUS
<1> USE SynupsAssumption
    DEF StartInv, TypeOK, NoLostStart, HostTypeOK, Commands, HP_PLAY, HP_LOADPLAY,
        HP_STOP, HF_DISABLE, HF_ENABLE, hostVars, synplayVars, At, Goto, Main
<1>1. CASE Start
  BY <1>1 DEF Start, SetGate
<1>2. CASE Halt
  BY <1>2 DEF Halt
<1>3. CASE Test
  BY <1>3 DEF Test
<1>4. CASE Query
  BY <1>4 DEF Query
<1>5. CASE Clear
  BY <1>5 DEF Clear
<1>6. CASE StartScore
  BY <1>6 DEF StartScore
<1>7. CASE Command
  <2>1. UNCHANGED <<gate, command, code, synplay_count>> /\ irq' = FALSE
    BY <1>7 DEF Command, Deliver
  <2>2. pc' = (IF pc = "hlt" THEN "test" ELSE pc)
    BY <1>7 DEF Command, Wake
  <2>3. CASE command = HP_PLAY
    <3>1. Play(code)
      BY <1>7, <2>3 DEF Command
    <3>2. QED
      BY <2>1, <2>2, <3>1, PlayKeeps
  <2>4. CASE command = HP_STOP
    <3>1. StopScore
      BY <1>7, <2>4 DEF Command
    <3>2. QED
      BY <2>1, <2>2, <3>1 DEF StopScore, Reset
  <2>5. CASE command = HP_LOADPLAY
    <3>1. UNCHANGED <<start_pending, score_seg, synplayVars>>
      BY <1>7, <2>5 DEF Command
    <3>2. QED
      BY <2>1, <2>2, <3>1
  <2>6. QED
    BY <2>3, <2>4, <2>5
<1>8. CASE Timer
  <2>1. UNCHANGED <<hostVars, start_pending, score_seg, loaded>>
    BY <1>8 DEF Timer, SynplayTick
  <2>2. synplay_count' \in 0 .. SynplayPeriod - 1
    BY <1>8 DEF Timer, SynplayPeriod
  <2>3. busy' \in BOOLEAN /\ (phase' = phase \/ (phase = "playing" /\ phase' = "ended"))
    BY <1>8 DEF Timer, SynplayTick
  <2>4. QED
    BY <1>8, <2>1, <2>2, <2>3 DEF Timer, Wake
<1>9. CASE Host
  BY <1>9 DEF Host, HostRequest
<1>10. CASE UNCHANGED vars
  BY <1>10 DEF vars
<1>11. QED
  BY <1>1, <1>2, <1>3, <1>4, <1>5, <1>6, <1>7, <1>8, <1>9, <1>10 DEF Next, MainLoop

(* Every variable keeps its type, and SYNPLAY holds a score it accepts or  *)
(* is empty.                                                               *)
THEOREM SynupsTypeCorrect == Spec => []TypeOK
<1>1. StartInv => TypeOK
  BY DEF StartInv
<1>2. QED
  BY InitStart, NextStart, <1>1, PTL DEF Spec

(* A loaded score is pending or being started until it is started,         *)
(* replaced or stopped.                                                    *)
THEOREM NoStartIsLost == Spec => []NoLostStart
<1>1. StartInv => NoLostStart
  BY DEF StartInv
<1>2. QED
  BY InitStart, NextStart, <1>1, PTL DEF Spec
===============================================================================
