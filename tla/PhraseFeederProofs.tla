-------------------------- MODULE PhraseFeederProofs --------------------------
(***************************************************************************)
(* Proofs about the phrase feeder, about Far Side Moon, which differs from *)
(* it in a step, and about A2, which makes a detour in it, for every       *)
(* table, ring size, ROM and host.  The invariant is built in layers, each *)
(* proved from the ones before it: types and control, the rings, the       *)
(* answer to the host, the order of the queue.                             *)
(***************************************************************************)
EXTENDS FsmFeeder, A2Feeder, SequenceTheorems, TLAPS

FeedPc  == MainPc \ {"idle"}
InnerPc == IsrPc \ {"command"}

(* Where the gate stands is known from the program counter, and with it    *)
(* that a handler can only have interrupted idle.                          *)
GateInv ==
  /\ pc \in BootPc \cup FeedPc \cup InnerPc => gate = HF_DISABLE
  /\ ret = "idle"

(* What each label may assume of the feeder's own variables. *)
FeedInv ==
  /\ pc \in BootPc => active = 0
  /\ pc \in {"select", "setup", "ready"} => active = 0
  /\ pc \in {"submit", "submitted", "finish"} => active = 1
  /\ pc \in {"setup", "ready"} => song \in Songs /\ phrase = 0
  /\ active = 1 => song \in Songs
  /\ active = 1 /\ pc # "finish" => phrase < Count[song]

(* The rings are empty when no byte is left in them, and every queued      *)
(* phrase has at least one byte left.                                      *)
RingInv ==
  /\ fill = 0 <=> ring = <<>>
  /\ Len(ring) <= fill

ControlInv == TypeOK /\ GateInv /\ FeedInv /\ RingInv

-------------------------------------------------------------------------------
LEMMA EmptyLen ==
  ASSUME NEW S, NEW s \in Seq(S)
  PROVE  s = <<>> <=> Len(s) = 0
  BY EmptySeq

LEMMA InitControl == Init => ControlInv
  BY FeederAssumption
  DEF Init, HostInit, ControlInv, TypeOK, HostTypeOK, GateInv, FeedInv, RingInv, FeedPc,
      InnerPc, BootPc, MainPc, IsrPc, Commands, HP_PLAY, HP_LOADPLAY, HP_STOP,
      HF_DISABLE, HF_ENABLE, Phrases

LEMMA NextControl == ControlInv /\ [Next]_vars => ControlInv'
<1> SUFFICES ASSUME ControlInv, [Next]_vars PROVE ControlInv'
  OBVIOUS
<1> USE FeederAssumption
    DEF ControlInv, TypeOK, HostTypeOK, GateInv, FeedInv, RingInv, FeedPc, InnerPc, BootPc,
        MainPc, IsrPc, Commands, HP_PLAY, HP_LOADPLAY, HP_STOP, HF_DISABLE,
        HF_ENABLE, hostVars, feedVars, biosVars, SetGate, Goto, At
<1>1. CASE LoadOverlay
  BY <1>1 DEF LoadOverlay
<1>2. CASE InitDriver
  BY <1>2 DEF InitDriver, KnownRom, PatchedRom
<1>3. CASE Install
  BY <1>3 DEF Install, FarStop
<1>4. CASE TakeCommand
  <2>1. gate = HF_ENABLE /\ pc \in MainPc
    BY <1>4 DEF TakeCommand, Deliver, Deliverable
  <2>2. pc = "idle"
    BY <2>1
  <2>3. /\ pc' = "command" /\ ret' = "idle" /\ irq' = FALSE
        /\ UNCHANGED <<gate, command, code, feedVars, biosVars, rom>>
    BY <1>4, <2>2 DEF TakeCommand, Deliver
  <2>4. TypeOK' /\ GateInv'
    BY <2>3
  <2>5. FeedInv'
    BY <2>2, <2>3
  <2>6. RingInv'
    BY <2>3
  <2>7. QED
    BY <2>4, <2>5, <2>6
<1>5. CASE ReadCommand
  BY <1>5 DEF ReadCommand
<1>6. CASE Silence
  BY <1>6 DEF Silence, FarStop
<1>7. CASE Select
  BY <1>7 DEF Select
<1>8. CASE Setup
  <2>1. CASE KnownRom
    BY <1>8, <2>1 DEF Setup, FarStop, PatchedRom
  <2>2. CASE ~KnownRom
    BY <1>8, <2>2 DEF Setup
  <2>3. QED
    BY <2>1, <2>2
<1>9. CASE Ready
  BY <1>9 DEF Ready
<1>10. CASE StopPlaying
  BY <1>10 DEF StopPlaying, FarStop
<1>11. CASE Leave
  BY <1>11 DEF Leave
<1>12. CASE EnterFeed
  BY <1>12 DEF EnterFeed
<1>13. CASE Poll
  BY <1>13 DEF Poll
<1>14. CASE Submit
  <2>1. CASE <<song, phrase>> \in Broken
    BY <1>14, <2>1 DEF Submit
  <2>2. CASE <<song, phrase>> \notin Broken
    <3>1. <<song, phrase>> \in Phrases
      BY <1>14 DEF Submit, Phrases
    <3>2. PICK n \in 1 .. MaxPhrase : fill' = fill + n
      BY <1>14, <2>2 DEF Submit, FarPlay
    <3>3. ring' = Append(ring, <<song, phrase>>)
      BY <1>14, <2>2 DEF Submit, FarPlay
    <3>4. ring' \in Seq(Phrases) /\ Len(ring') = Len(ring) + 1 /\ ring' # <<>>
      BY <3>1, <3>3
    <3>5. RingInv' /\ fill' \in Nat
      BY <3>2, <3>4
    <3>6. QED
      BY <1>14, <2>2, <3>4, <3>5 DEF Submit
  <2>3. QED
    BY <2>1, <2>2
<1>15. CASE Submitted
  BY <1>15 DEF Submitted, OneShot
<1>16. CASE FeedFinish
  BY <1>16 DEF FeedFinish
<1>17. CASE FeedDone
  BY <1>17 DEF FeedDone
<1>18. CASE Host
  BY <1>18 DEF Host, HostRequest
<1>19. CASE BiosTick
  <2>1. fill' \in Nat /\ fill' = fill - 1 /\ ring # <<>>
    BY <1>19 DEF BiosTick
  <2>2. CASE ring' = ring /\ fill > 1 /\ Len(ring) < fill
    BY <1>19, <2>1, <2>2 DEF BiosTick
  <2>3. CASE ring' = Tail(ring) /\ (fill = 1 <=> Len(ring) = 1)
    <3>1. ring' \in Seq(Phrases) /\ Len(ring') = Len(ring) - 1
      BY <2>1, <2>3
    <3>2. ring' = <<>> <=> Len(ring') = 0
      BY ONLY <3>1, EmptyLen
    <3>3. RingInv'
      BY <2>1, <2>3, <3>1, <3>2
    <3>4. QED
      BY <1>19, <2>1, <3>1, <3>3 DEF BiosTick
  <2>4. QED
    BY <1>19, <2>2, <2>3 DEF BiosTick
<1>20. CASE UNCHANGED vars
  BY <1>20 DEF vars
<1>21. QED
  BY <1>1, <1>2, <1>3, <1>4, <1>5, <1>6, <1>7, <1>8, <1>9, <1>10, <1>11, <1>12,
     <1>13, <1>14, <1>15, <1>16, <1>17, <1>18, <1>19, <1>20
  DEF Next, Boot, Handler, Feed

(* The type invariant, and the gate keeping commands out of a feed.        *)
THEOREM ControlCorrect == Spec => []ControlInv
<1>1. Init => ControlInv
  BY InitControl
<1>2. ControlInv /\ [Next]_vars => ControlInv'
  BY NextControl
<1>3. QED
  BY <1>1, <1>2, PTL DEF Spec

(***************************************************************************)
(* Every variable keeps its type.                                          *)
(***************************************************************************)
THEOREM TypeCorrect == Spec => []TypeOK
<1>1. ControlInv => TypeOK
  BY DEF ControlInv
<1>2. QED
  BY <1>1, ControlCorrect, PTL

(***************************************************************************)
(* A command is handled between two feeds: the gate closes around feed.    *)
(***************************************************************************)
THEOREM FeedNeverSplit == Spec => []FeedIsNotSplit
<1>1. ControlInv => FeedIsNotSplit
  BY DEF ControlInv, GateInv, FeedIsNotSplit
<1>2. QED
  BY <1>1, ControlCorrect, PTL

(***************************************************************************)
(* feed never reads the pointers of a phrase its table does not have.      *)
(***************************************************************************)
THEOREM PhraseAlwaysInTable == Spec => []PhraseInTable
<1>1. ControlInv => PhraseInTable
  BY DEF ControlInv, FeedInv, PhraseInTable
<1>2. QED
  BY <1>1, ControlCorrect, PTL

-------------------------------------------------------------------------------
(* The rings: poll leaves room for the phrase submit will queue, because   *)
(* between the two the rings only drain; and the rings are empty wherever  *)
(* a tune is about to begin.                                               *)
QueueInv ==
  /\ fill <= RingSize
  /\ pc = "submit" => HasRoom /\ MayFollow
  /\ pc \in BootPc \cup {"select", "setup", "ready"} => ring = <<>>

LEMMA NextQueue == ControlInv /\ QueueInv /\ [Next]_vars => QueueInv'
<1> SUFFICES ASSUME ControlInv, QueueInv, [Next]_vars PROVE QueueInv'
  OBVIOUS
<1> USE FeederAssumption
    DEF ControlInv, TypeOK, RingInv, QueueInv, HasRoom, Status0, MayFollow, Silent,
        BootPc, MainPc, IsrPc, feedVars, biosVars, Goto, At
<1>1. CASE Boot
  BY <1>1 DEF Boot, LoadOverlay, InitDriver, Install, FarStop
<1>2. CASE TakeCommand
  BY <1>2 DEF TakeCommand
<1>3. CASE ReadCommand \/ Silence \/ Select
  BY <1>3 DEF ReadCommand, Silence, Select, FarStop
<1>13. CASE Leave
  BY <1>13 DEF Leave, GateInv
<1>4. CASE Setup
  BY <1>4 DEF Setup, FarStop
<1>5. CASE Ready \/ StopPlaying
  BY <1>5 DEF Ready, StopPlaying, FarStop
<1>6. CASE EnterFeed \/ Submitted \/ FeedFinish \/ FeedDone
  BY <1>6 DEF EnterFeed, Submitted, FeedFinish, FeedDone
<1>7. CASE Poll
  BY <1>7 DEF Poll
<1>8. CASE Submit
  <2>1. fill <= LowWater
    BY <1>8 DEF Submit
  <2>2. fill' <= fill + MaxPhrase
    BY <1>8 DEF Submit, FarPlay
  <2>3. fill' \in Nat /\ fill' <= RingSize
    BY <1>8, <2>1, <2>2 DEF Submit, FarPlay
  <2>4. pc' \in {"finish", "submitted"}
    BY <1>8 DEF Submit
  <2>5. QED
    BY <2>3, <2>4
<1>9. CASE Host
  BY <1>9 DEF Host
<1>10. CASE BiosTick
  <2>1. fill > 0 /\ fill' < fill /\ ring # <<>>
    BY <1>10 DEF BiosTick
  <2>2. QED
    BY <1>10, <2>1 DEF BiosTick
<1>11. CASE UNCHANGED vars
  BY <1>11 DEF vars
<1>12. QED
  BY <1>1, <1>2, <1>3, <1>4, <1>5, <1>6, <1>7, <1>8, <1>9, <1>10, <1>11,
     <1>13
  DEF Next, Handler, Feed

THEOREM QueueCorrect == Spec => []QueueInv
<1>1. Init => QueueInv
  BY FeederAssumption DEF Init, QueueInv
<1>2. QED
  BY <1>1, NextQueue, ControlCorrect, PTL DEF Spec

(***************************************************************************)
(* No ring is ever overrun, whatever the phrases compile to.               *)
(***************************************************************************)
THEOREM NeverOverrun == Spec => []NoOverrun
<1>1. QueueInv => NoOverrun
  BY DEF QueueInv, NoOverrun
<1>2. QED
  BY <1>1, QueueCorrect, PTL

-------------------------------------------------------------------------------
(* The answer to the host.  While no newer request is pending, the ports   *)
(* still hold the request the handler is working on, so each of its labels *)
(* knows which one that is; everywhere else that request is carried out.   *)
Answered ==
  /\ active = 1 => song \in Asked
  /\ \A i \in 1 .. Len(ring) : ring[i][1] \in Asked

AnswerInv ==
  ~irq =>
    /\ pc \in {"play", "select", "setup", "ready"} => command = HP_PLAY
    /\ pc = "stop" => command = HP_STOP
    /\ pc \in {"setup", "ready"} => song = code
    /\ pc \in BootPc \cup MainPc \cup {"leave"} /\ command # HP_LOADPLAY => Answered

LEMMA NextAnswer ==
  ControlInv /\ QueueInv /\ AnswerInv /\ [Next]_vars => AnswerInv'
<1> SUFFICES ASSUME ControlInv, QueueInv, AnswerInv, [Next]_vars PROVE AnswerInv'
  OBVIOUS
<1> USE DEF ControlInv, TypeOK, HostTypeOK, GateInv, FeedInv, RingInv, AnswerInv,
            Commands, HP_PLAY, HP_LOADPLAY, HP_STOP, BootPc, MainPc, IsrPc, hostVars,
            feedVars, biosVars, SetGate, Goto, At
<1>1. ASSUME UNCHANGED <<command, code, active, song, ring>> PROVE Answered' <=> Answered
  BY <1>1 DEF Answered, Asked
<1>2. ASSUME ring' = <<>>, active' = 0 PROVE Answered'
  BY <1>2 DEF Answered
<1>3. CASE LoadOverlay \/ InitDriver
  BY <1>1, <1>3 DEF LoadOverlay, InitDriver
<1>4. CASE Install
  BY <1>2, <1>4 DEF Install, FarStop
<1>5. CASE TakeCommand
  BY <1>5 DEF TakeCommand
<1>6. CASE ReadCommand
  BY <1>6 DEF ReadCommand
<1>7. CASE Silence
  BY <1>7 DEF Silence
<1>8. CASE Select
  <2>1. CASE code \in Songs
    BY <1>8, <2>1 DEF Select
  <2>2. CASE code \notin Songs
    <3>1. active' = 0 /\ ring' = <<>>
      BY <1>8, <2>2 DEF Select, QueueInv
    <3>2. QED
      BY <1>2, <1>8, <2>2, <3>1 DEF Select
  <2>3. QED
    BY <2>1, <2>2
<1>9. CASE Setup
  BY <1>9 DEF Setup
<1>10. CASE Ready
  <2>1. ~irq => song \in Asked /\ ring = <<>>
    BY <1>10 DEF Ready, Asked, QueueInv
  <2>2. ~irq => Answered'
    BY <1>10, <2>1 DEF Ready, Answered, Asked
  <2>3. QED
    BY <1>10, <2>2 DEF Ready
<1>11. CASE StopPlaying
  BY <1>2, <1>11 DEF StopPlaying, FarStop
<1>12. CASE Leave
  BY <1>1, <1>12 DEF Leave
<1>13. CASE EnterFeed \/ Poll \/ Submitted \/ FeedDone
  BY <1>1, <1>13 DEF EnterFeed, Poll, Submitted, FeedDone
<1>14. CASE Submit
  <2>1. CASE <<song, phrase>> \in Broken
    BY <1>1, <1>14, <2>1 DEF Submit
  <2>2. CASE <<song, phrase>> \notin Broken
    <3>1. /\ ring' = Append(ring, <<song, phrase>>)
          /\ <<song, phrase>> \in Phrases
          /\ UNCHANGED <<command, code, irq, active, song>>
          /\ active = 1
          /\ pc' = "submitted"
      BY <1>14, <2>2 DEF Submit, FarPlay, Phrases
    <3>2. Answered => Answered'
      BY <3>1, AppendProperties DEF Answered, Asked
    <3>3. QED
      BY <1>14, <3>1, <3>2 DEF Submit
  <2>3. QED
    BY <2>1, <2>2
<1>15. CASE FeedFinish
  <2>1. Answered => Answered'
    BY <1>15 DEF FeedFinish, Answered, Asked
  <2>2. QED
    BY <1>15, <2>1 DEF FeedFinish
<1>16. CASE Host
  BY <1>16 DEF Host, HostRequest
<1>17. CASE BiosTick
  <2>1. ring # <<>> /\ UNCHANGED <<command, code, irq, active, song, pc>>
    BY <1>17 DEF BiosTick
  <2>2. CASE ring' = ring
    BY <1>1, <2>1, <2>2
  <2>3. CASE ring' = Tail(ring)
    <3>1. Answered => Answered'
      BY <2>1, <2>3, HeadTailProperties DEF Answered, Asked
    <3>2. QED
      BY <2>1, <3>1
  <2>4. QED
    BY <1>17, <2>2, <2>3 DEF BiosTick
<1>18. CASE UNCHANGED vars
  BY <1>1, <1>18 DEF vars
<1>19. QED
  BY <1>3, <1>4, <1>5, <1>6, <1>7, <1>8, <1>9, <1>10, <1>11, <1>12, <1>13, <1>14,
     <1>15, <1>16, <1>17, <1>18
  DEF Next, Boot, Handler, Feed

(***************************************************************************)
(* Whatever requests the host makes and whenever it makes them, what is    *)
(* fed and queued once the handler is done is what was asked for last.     *)
(***************************************************************************)
THEOREM LastRequestAnswered == Spec => []AnswersLastRequest
<1>1. Init => AnswerInv
  BY DEF Init, AnswerInv, Answered
<1>2. AnswerInv => AnswersLastRequest
  BY DEF AnswerInv, Answered, AnswersLastRequest, Settled
<1>3. QED
  BY <1>1, <1>2, NextAnswer, ControlCorrect, QueueCorrect, PTL DEF Spec

-------------------------------------------------------------------------------
(* The feeder implements PhrasePlayer: each of its steps is one of the     *)
(* player's, or changes neither the queue nor the phrase to queue next.    *)
LEMMA UpcomingType == ControlInv => Upcoming \in Phrases \cup {None}
  BY FeederAssumption
  DEF ControlInv, TypeOK, FeedInv, Upcoming, After, Phrases

LEMMA StepKeepsPromise ==
  ControlInv /\ QueueInv /\ [Next]_vars => [Promise!Next]_(Promise!vars)
<1> SUFFICES ASSUME ControlInv, QueueInv, [Next]_vars
             PROVE  Promise!Next \/ UNCHANGED <<Upcoming, ring>>
  BY DEF Promise!vars
<1> USE DEF ControlInv, GateInv, FeedInv, FeedPc, BootPc, MainPc, IsrPc, feedVars,
            biosVars, hostVars, Goto, At
<1>1. ASSUME UNCHANGED <<active, song, phrase>>, pc \notin {"submitted", "finish"},
             pc' \notin {"submitted", "finish"}
      PROVE  UNCHANGED Upcoming
  BY <1>1 DEF Upcoming
<1>2. ASSUME ring' = <<>>, active' = 0 PROVE Promise!Cut
  BY <1>2 DEF Promise!Cut, Upcoming
<1>3. CASE LoadOverlay \/ InitDriver
  BY <1>1, <1>3 DEF LoadOverlay, InitDriver
<1>4. CASE Install
  BY <1>2, <1>4 DEF Install, FarStop, Promise!Next
<1>5. CASE TakeCommand
  <2>1. pc = "idle"
    BY <1>5 DEF TakeCommand, Deliver, Deliverable, HF_ENABLE, HF_DISABLE
  <2>2. QED
    BY <1>1, <1>5, <2>1 DEF TakeCommand
<1>6. CASE ReadCommand \/ Leave \/ EnterFeed \/ Poll \/ FeedDone
  BY <1>1, <1>6 DEF ReadCommand, Leave, EnterFeed, Poll, FeedDone
<1>7. CASE Silence \/ StopPlaying
  BY <1>2, <1>7 DEF Silence, StopPlaying, FarStop, Promise!Next
<1>8. CASE Select
  BY <1>8 DEF Select, Upcoming
<1>9. CASE Setup
  <2>1. CASE KnownRom
    BY <1>2, <1>9, <2>1 DEF Setup, FarStop, Promise!Next
  <2>2. CASE ~KnownRom
    BY <1>1, <1>9, <2>2 DEF Setup
  <2>3. QED
    BY <2>1, <2>2
<1>10. CASE Ready
  <2>1. Upcoming = None /\ ring = <<>> /\ song \in Songs
    BY <1>10 DEF Ready, Upcoming, QueueInv
  <2>2. Upcoming' = <<song, 0>> /\ ring' = ring
    BY <1>10 DEF Ready, Upcoming
  <2>3. QED
    BY <2>1, <2>2 DEF Promise!Begin, Promise!Next
<1>11. CASE Submit
  <2>1. Upcoming = <<song, phrase>> /\ <<song, phrase>> \in Phrases
    BY <1>11 DEF Submit, Upcoming, Phrases, TypeOK
  <2>2. CASE <<song, phrase>> \in Broken
    BY <1>11, <2>2 DEF Submit, Upcoming, Promise!GiveUp, Promise!Next
  <2>3. CASE <<song, phrase>> \notin Broken
    <3>1. ring' = Append(ring, Upcoming) /\ Upcoming # None
      BY <1>11, <2>1, <2>3, FeederAssumption DEF Submit, FarPlay, Phrases
    <3>2. Upcoming' = Promise!Succ(Upcoming)
      BY <1>11, <2>1, <2>3 DEF Submit, Upcoming, After, Promise!Succ
    <3>3. QED
      BY <3>1, <3>2 DEF Promise!Queue, Promise!Next
  <2>4. QED
    BY <2>2, <2>3
<1>12. CASE Submitted
  <2>1. Upcoming = After(song, phrase + 1)
    BY <1>12 DEF Submitted, Upcoming
  <2>2. Upcoming' = After(song, phrase + 1)
    BY <1>12 DEF Submitted, Upcoming, After
  <2>3. QED
    BY <1>12, <2>1, <2>2 DEF Submitted
<1>13. CASE FeedFinish
  BY <1>13 DEF FeedFinish, Upcoming
<1>14. CASE Host
  BY <1>14 DEF Host, Upcoming
<1>15. CASE BiosTick
  <2>1. UNCHANGED Upcoming
    BY <1>15 DEF BiosTick, Upcoming
  <2>2. ring # <<>>
    BY <1>15 DEF BiosTick, RingInv, TypeOK
  <2>3. QED
    BY <1>15, <2>1, <2>2 DEF BiosTick, Promise!Finish, Promise!Next
<1>16. CASE UNCHANGED vars
  BY <1>16 DEF vars, Upcoming
<1>17. QED
  BY <1>3, <1>4, <1>5, <1>6, <1>7, <1>8, <1>9, <1>10, <1>11, <1>12, <1>13, <1>14,
     <1>15, <1>16
  DEF Next, Boot, Handler, Feed

(***************************************************************************)
(* The feeder keeps the promise of PhrasePlayer.                           *)
(***************************************************************************)
THEOREM FeederKeepsPromise == Spec => KeepsPromise
<1>1. Init => Promise!Init
  BY DEF Init, Promise!Init, Upcoming
<1>2. QED
  BY <1>1, StepKeepsPromise, ControlCorrect, QueueCorrect, PTL
  DEF Spec, KeepsPromise, Promise!Spec

-------------------------------------------------------------------------------
(* The order of the queue follows from the promise alone: no step of       *)
(* PhrasePlayer can break a run of successors.                             *)
LEMMA PromiseKeepsOrder ==
  ASSUME ring \in Seq(Phrases), Upcoming \in Phrases \cup {None}, RingInOrder,
         [Promise!Next]_(Promise!vars)
  PROVE  RingInOrder'
<1> USE DEF RingInOrder, Promise!Contiguous
<1>1. CASE \E s \in Songs : Promise!Begin(s)
  BY <1>1 DEF Promise!Begin
<1>2. CASE Promise!Queue
  <2>1. /\ Upcoming \in Phrases
        /\ ring' = Append(ring, Upcoming)
        /\ Upcoming' = Promise!Succ(Upcoming)
    BY <1>2 DEF Promise!Queue
  <2>2. /\ Len(ring') = Len(ring) + 1
        /\ \A i \in 1 .. Len(ring) : ring'[i] = ring[i]
        /\ ring'[Len(ring) + 1] = Upcoming
    BY <2>1, AppendProperties
  <2>3. ASSUME NEW i \in 1 .. Len(ring') - 1
        PROVE  ring'[i + 1] = Promise!Succ(ring'[i])
    <3>1. CASE i < Len(ring)
      BY <2>2, <2>3, <3>1
    <3>2. CASE i = Len(ring)
      BY <1>2, <2>2, <2>3, <3>2 DEF Promise!Queue
    <3>3. QED
      BY <2>2, <2>3, <3>1, <3>2
  <2>4. Upcoming' = Promise!Succ(ring'[Len(ring')])
    BY <2>1, <2>2
  <2>5. QED
    BY <2>3, <2>4 DEF Promise!Succ
<1>3. CASE Promise!GiveUp
  BY <1>3 DEF Promise!GiveUp, Promise!Succ
<1>4. CASE Promise!Cut
  BY <1>4 DEF Promise!Cut
<1>5. CASE Promise!Finish
  <2>1. ring # <<>> /\ ring' = Tail(ring) /\ Upcoming' = Upcoming
    BY <1>5 DEF Promise!Finish
  <2>2. /\ Len(ring') = Len(ring) - 1
        /\ \A i \in 1 .. Len(ring') : ring'[i] = ring[i + 1]
    BY <2>1, HeadTailProperties
  <2>3. ASSUME NEW i \in 1 .. Len(ring') - 1
        PROVE  ring'[i + 1] = Promise!Succ(ring'[i])
    BY <2>2, <2>3
  <2>4. ring' # <<>> /\ Upcoming # None => Upcoming = Promise!Succ(ring'[Len(ring')])
    <3>1. ring' \in Seq(Phrases)
      BY <2>1, HeadTailProperties
    <3>2. ring' # <<>> => Len(ring') \in 1 .. Len(ring')
      BY ONLY <3>1, EmptyLen
    <3>3. QED
      BY <2>1, <2>2, <3>2
  <2>5. QED
    BY <2>1, <2>3, <2>4 DEF Promise!Succ
<1>6. CASE UNCHANGED Promise!vars
  BY <1>6 DEF Promise!vars, Promise!Succ
<1>7. QED
  BY <1>1, <1>2, <1>3, <1>4, <1>5, <1>6 DEF Promise!Next

(***************************************************************************)
(* What the rings hold is one unbroken run of one tune, in the order of    *)
(* its table, and the phrase to queue next continues it.                   *)
(***************************************************************************)
THEOREM RingAlwaysInOrder == Spec => []RingInOrder
<1>1. Init => RingInOrder
  BY DEF Init, RingInOrder, Promise!Contiguous
<1>2. ControlInv /\ QueueInv /\ RingInOrder /\ [Next]_vars => RingInOrder'
  BY StepKeepsPromise, UpcomingType, PromiseKeepsOrder DEF ControlInv, TypeOK
<1>3. QED
  BY <1>1, <1>2, ControlCorrect, QueueCorrect, PTL DEF Spec

-------------------------------------------------------------------------------
(* Two steps that never happen. *)

RomInv == pc \notin {"load", "init", "dead"} => rom = \h00b3

LEMMA NextRom == ControlInv /\ RomInv /\ [Next]_vars => RomInv'
<1> SUFFICES ASSUME ControlInv, RomInv, [Next]_vars PROVE RomInv'
  OBVIOUS
<1> USE DEF ControlInv, GateInv, RomInv, BootPc, MainPc, IsrPc, Goto, At
<1>1. CASE LoadOverlay \/ Install
  BY <1>1 DEF LoadOverlay, Install
<1>2. CASE InitDriver
  BY <1>2 DEF InitDriver, KnownRom, PatchedRom
<1>3. CASE Setup
  BY <1>3 DEF Setup, KnownRom, PatchedRom
<1>4. CASE TakeCommand \/ ReadCommand \/ Silence \/ Select \/ Ready \/ StopPlaying \/ Leave
  BY <1>4 DEF TakeCommand, ReadCommand, Silence, Select, Ready, StopPlaying, Leave
<1>5. CASE Feed
  BY <1>5 DEF Feed, EnterFeed, Poll, Submit, Submitted, FeedFinish, FeedDone
<1>6. CASE Host \/ BiosTick \/ UNCHANGED vars
  BY <1>6 DEF Host, BiosTick, vars
<1>7. QED
  BY <1>1, <1>2, <1>3, <1>4, <1>5, <1>6 DEF Next, Boot, Handler

LEMMA DeathOnlyAtStart ==
  ControlInv /\ RomInv /\ [Next]_vars
    => [pc' = "dead" => pc \in BootPc \cup {"dead"}]_vars
<1> SUFFICES ASSUME ControlInv, RomInv, Next, pc' = "dead"
             PROVE  pc \in BootPc \cup {"dead"}
  OBVIOUS
<1> USE DEF ControlInv, GateInv, RomInv, BootPc, Goto, At
<1>1. CASE Boot
  BY <1>1 DEF Boot, LoadOverlay, InitDriver, Install
<1>2. CASE TakeCommand \/ Handler
  BY <1>2 DEF TakeCommand, Handler, ReadCommand, Silence, Select, Setup, KnownRom,
              Ready, StopPlaying, Leave
<1>3. CASE Feed
  BY <1>3 DEF Feed, EnterFeed, Poll, Submit, Submitted, FeedFinish, FeedDone
<1>4. CASE Host \/ BiosTick
  BY <1>4 DEF Host, BiosTick
<1>5. QED
  BY <1>1, <1>2, <1>3, <1>4 DEF Next

(***************************************************************************)
(* Once the vector is installed no request can end the player: the ROM     *)
(* word it finds is the one its own start left there.                      *)
(***************************************************************************)
THEOREM NeverDiesPlaying == Spec => DiesOnlyAtStart
<1>1. Init => RomInv
  BY DEF Init, RomInv
<1>2. QED
  BY <1>1, NextRom, DeathOnlyAtStart, ControlCorrect, PTL DEF Spec, DiesOnlyAtStart

LEMMA DrainStep ==
  ASSUME ControlInv, QueueInv, [Next]_vars, NEW p \in DrainAt, ring' = Append(ring, p)
  PROVE  ring = <<>>
<1>1. ring \in Seq(Phrases) /\ p \in Phrases
  BY FeederAssumption DEF ControlInv, TypeOK, Phrases
<1>2. Len(ring') = Len(ring) + 1 /\ ring' # <<>> /\ ring'[Len(ring) + 1] = p
  BY <1>1, AppendProperties
<1>3. CASE Submit
  <2>1. ring' = Append(ring, <<song, phrase>>)
    BY <1>1, <1>2, <1>3 DEF Submit, FarPlay, biosVars
  <2>2. p = <<song, phrase>>
    <3>1. <<song, phrase>> \in Phrases
      BY <1>3 DEF Submit, ControlInv, FeedInv, TypeOK, Phrases, At
    <3>2. QED
      BY ONLY <1>1, <2>1, <3>1, AppendInjective, ring' = Append(ring, p)
  <2>3. QED
    BY <1>3, <2>2 DEF Submit, QueueInv, MayFollow, Silent, At
<1>4. CASE BiosTick
  <2>1. ring' = ring \/ (ring' = Tail(ring) /\ ring # <<>>)
    BY <1>4 DEF BiosTick, ControlInv, RingInv, TypeOK
  <2>2. Len(ring') <= Len(ring)
    BY <1>1, <2>1, HeadTailProperties, LenProperties
  <2>3. QED
    BY <1>1, <1>2, <2>2, LenProperties
<1>5. CASE ring' = ring
  BY <1>1, <1>2, <1>5, LenProperties
<1>6. CASE ring' = <<>>
  BY <1>2, <1>6
<1>7. QED
  BY <1>3, <1>4, <1>5, <1>6
  DEF Next, Boot, Handler, Feed, LoadOverlay, InitDriver, Install, TakeCommand,
      ReadCommand, Silence, Select, Setup, Ready, StopPlaying, Leave, EnterFeed, Poll,
      Submitted, FeedFinish, FeedDone, Host, FarStop, biosVars, vars

(***************************************************************************)
(* A phrase that must follow silence is queued into empty rings only, for  *)
(* every set of such phrases.                                              *)
(***************************************************************************)
THEOREM AlwaysDrainsFirst == Spec => DrainsFirst
<1>1. ControlInv /\ QueueInv /\ [Next]_vars
        => [\A p \in DrainAt : ring' = Append(ring, p) => ring = <<>>]_vars
  BY DrainStep
<1>2. QED
  BY <1>1, ControlCorrect, QueueCorrect, PTL DEF Spec, DrainsFirst

-------------------------------------------------------------------------------
(***************************************************************************)
(* Far Side Moon.  With the tables that say what its code does (FsmTables) *)
(* each of its steps is one of PhraseFeeder's, except the one that ends an *)
(* effect, which PhraseFeeder does not have because it leaves the phrase   *)
(* index where it is.  What was proved of PhraseFeeder's steps is used as  *)
(* it stands, and only that one step is looked at here.                    *)
(***************************************************************************)

(* The disjunct of FsmSubmitted that is not a step of PhraseFeeder. *)
EndEffect ==
  /\ At("submitted")
  /\ IsEffect
  /\ Goto("finish")
  /\ UNCHANGED <<hostVars, feedVars, biosVars, rom>>

FsmInv == ControlInv /\ QueueInv /\ AnswerInv /\ RomInv

-------------------------------------------------------------------------------
(* The codes the handler compares with 28 are the songs of the table.      *)
LEMMA FsmSelects ==
  ASSUME FsmTables
  PROVE  ControlInv /\ FsmSelect => Select
<1> SUFFICES ASSUME ControlInv, FsmSelect PROVE Select
  OBVIOUS
<1>1. code < 28 <=> code \in Songs
  <2>1. code \in Nat
    BY FeederAssumption DEF ControlInv, TypeOK, HostTypeOK
  <2>2. QED
    BY <2>1 DEF FsmTables
<1>2. QED
  BY <1>1 DEF FsmSelect, Select

(* The counts and loop points in the code are those of the table.          *)
LEMMA FsmSubmits ==
  ASSUME FsmTables
  PROVE  ControlInv /\ FsmSubmitted => Submitted \/ EndEffect
<1> SUFFICES ASSUME ControlInv, FsmSubmitted PROVE Submitted \/ EndEffect
  OBVIOUS
<1> USE DEF FsmTables, FsmSubmitted, Submitted, WrapAt, OneShot
<1>1. phrase \in Nat
  BY DEF ControlInv, TypeOK
<1>2. CASE IsEffect /\ Goto("finish") /\ UNCHANGED phrase
  BY <1>2 DEF EndEffect, feedVars
<1>3. CASE song = 0 /\ Goto("done") /\ WrapAt(12, 0)
  BY <1>1, <1>3
<1>4. CASE song = 1 /\ Goto("done") /\ WrapAt(17, 12)
  BY <1>1, <1>4
<1>5. CASE song = 2 /\ Goto("done") /\ WrapAt(6, 1)
  BY <1>1, <1>5
<1>6. QED
  BY <1>2, <1>3, <1>4, <1>5

LEMMA FsmStep ==
  ASSUME FsmTables
  PROVE  ControlInv /\ [FsmNext]_vars => [Next]_vars \/ EndEffect
  BY FsmSelects, FsmSubmits
  DEF FsmNext, FsmHandler, FsmFeed, Next, Handler, Feed

(* The end of an effect changes nothing but the program counter. *)
LEMMA EndEffectKeeps == FsmInv /\ EndEffect => FsmInv'
<1> SUFFICES ASSUME FsmInv, EndEffect PROVE FsmInv'
  OBVIOUS
<1> USE DEF FsmInv, EndEffect, hostVars, feedVars, biosVars, Goto, At
<1>1. ControlInv'
  BY DEF ControlInv, TypeOK, HostTypeOK, GateInv, FeedInv, RingInv, FeedPc, InnerPc,
         BootPc, MainPc, IsrPc
<1>2. QueueInv'
  BY DEF QueueInv, BootPc
<1>3. AnswerInv'
  <2>1. Answered => Answered'
    BY DEF Answered, Asked
  <2>2. QED
    BY <2>1 DEF AnswerInv, BootPc, MainPc
<1>4. RomInv'
  BY DEF RomInv
<1>5. QED
  BY <1>1, <1>2, <1>3, <1>4

LEMMA NextFsm ==
  ASSUME FsmTables
  PROVE  FsmInv /\ [FsmNext]_vars => FsmInv'
  BY FsmStep, EndEffectKeeps, NextControl, NextQueue, NextAnswer, NextRom DEF FsmInv

(* The invariant of the table-driven player is one of Far Side Moon too.   *)
THEOREM FsmCorrect ==
  ASSUME FsmTables
  PROVE  FsmSpec => []FsmInv
<1>1. Init => FsmInv
  BY InitControl, FeederAssumption DEF Init, FsmInv, QueueInv, AnswerInv, Answered, RomInv
<1>2. FsmInv /\ [FsmNext]_vars => FsmInv'
  BY NextFsm
<1>3. QED
  BY <1>1, <1>2, PTL DEF FsmSpec

-------------------------------------------------------------------------------
(***************************************************************************)
(* The rings of Far Side Moon are never overrun, whatever its phrases      *)
(* compile to.                                                             *)
(***************************************************************************)
THEOREM FsmNeverOverruns ==
  ASSUME FsmTables
  PROVE  FsmSpec => []NoOverrun
<1>1. FsmInv => NoOverrun
  BY DEF FsmInv, QueueInv, NoOverrun
<1>2. QED
  BY <1>1, FsmCorrect, PTL

(***************************************************************************)
(* Far Side Moon, too, feeds and queues what the host asked for last.      *)
(***************************************************************************)
THEOREM FsmAnswersLastRequest ==
  ASSUME FsmTables
  PROVE  FsmSpec => []AnswersLastRequest
<1>1. FsmInv => AnswersLastRequest
  BY DEF FsmInv, AnswerInv, Answered, AnswersLastRequest, Settled
<1>2. QED
  BY <1>1, FsmCorrect, PTL

(* With an effect's only phrase queued nothing is left to queue, before    *)
(* its end is noted and after.                                             *)
LEMMA EndEffectIsSilent ==
  ASSUME FsmTables
  PROVE  ControlInv /\ EndEffect => UNCHANGED Promise!vars
<1> SUFFICES ASSUME ControlInv, EndEffect PROVE UNCHANGED <<Upcoming, ring>>
  BY DEF Promise!vars
<1> USE DEF FsmTables, EndEffect, Goto, At, feedVars, biosVars
<1>1. active = 1 /\ song \in 3 .. 27 /\ phrase \in Nat
  BY DEF ControlInv, TypeOK, FeedInv, IsEffect
<1>2. phrase = 0
  BY <1>1 DEF ControlInv, FeedInv
<1>3. Upcoming = None
  BY <1>1, <1>2 DEF Upcoming, After
<1>4. Upcoming' = None
  BY DEF Upcoming
<1>5. QED
  BY <1>3, <1>4

LEMMA FsmStepKeepsPromise ==
  ASSUME FsmTables
  PROVE  FsmInv /\ [FsmNext]_vars => [Promise!Next]_(Promise!vars)
  BY FsmStep, StepKeepsPromise, EndEffectIsSilent DEF FsmInv

(***************************************************************************)
(* Far Side Moon keeps the promise of PhrasePlayer: its loops return where *)
(* its code says, and an effect is queued once.                            *)
(***************************************************************************)
THEOREM FsmKeepsPromise ==
  ASSUME FsmTables
  PROVE  FsmSpec => KeepsPromise
<1>1. Init => Promise!Init
  BY DEF Init, Promise!Init, Upcoming
<1>2. FsmInv /\ [FsmNext]_vars => [Promise!Next]_(Promise!vars)
  BY FsmStepKeepsPromise
<1>3. QED
  BY <1>1, <1>2, FsmCorrect, PTL DEF FsmSpec, KeepsPromise, Promise!Spec

(***************************************************************************)
(* What its rings hold is one unbroken run of one tune.                    *)
(***************************************************************************)
THEOREM FsmRingInOrder ==
  ASSUME FsmTables
  PROVE  FsmSpec => []RingInOrder
<1>1. Init => RingInOrder
  BY DEF Init, RingInOrder, Promise!Contiguous
<1>2. FsmInv /\ RingInOrder /\ [FsmNext]_vars => RingInOrder'
  BY FsmStepKeepsPromise, UpcomingType, PromiseKeepsOrder DEF FsmInv, ControlInv, TypeOK
<1>3. QED
  BY <1>1, <1>2, FsmCorrect, PTL DEF FsmSpec

(***************************************************************************)
(* No request can end it.                                                  *)
(***************************************************************************)
THEOREM FsmNeverDiesPlaying ==
  ASSUME FsmTables
  PROVE  FsmSpec => DiesOnlyAtStart
<1>1. FsmInv /\ [FsmNext]_vars => [pc' = "dead" => pc \in BootPc \cup {"dead"}]_vars
  BY FsmStep, DeathOnlyAtStart DEF FsmInv, EndEffect, Goto
<1>2. QED
  BY <1>1, FsmCorrect, PTL DEF FsmSpec, DiesOnlyAtStart

-------------------------------------------------------------------------------
(***************************************************************************)
(* A2.  With the tables that say what its code does (A2Tables) its player  *)
(* is the table-driven player with a detour: on its way from ready to      *)
(* leave it may load a file, with the handler's gate closed, nothing       *)
(* queued and nothing fed.  Every step outside of the detour is one of     *)
(* PhraseFeeder's, because the two variables the handler sets agree with   *)
(* the tables whenever a tune is active.                                   *)
(***************************************************************************)

(* What load_music may assume: all that ready may, and that the song is a  *)
(* file.                                                                   *)
Loading ==
  /\ HostTypeOK
  /\ gate = HF_DISABLE /\ ret = "idle"
  /\ active = 0 /\ song \in 10 .. 14 /\ phrase = 0
  /\ ring = <<>> /\ fill = 0 /\ rom = \h00b3
  /\ ~irq => command = HP_PLAY /\ song = code

PlayerInv == ControlInv /\ QueueInv /\ AnswerInv /\ RomInv

A2Inv ==
  /\ pc = "load_music" => Loading
  /\ pc # "load_music" => PlayerInv
  /\ CountIsOfSong

-------------------------------------------------------------------------------
(* The codes the handler compares with 6, 10 and 15 are the songs.         *)
LEMMA SelectsTheSame ==
  ASSUME A2Tables
  PROVE  ControlInv /\ A2Select => Kept(Select)
<1> SUFFICES ASSUME ControlInv, A2Select PROVE Kept(Select)
  OBVIOUS
<1>1. code \in Nat
  BY FeederAssumption DEF ControlInv, TypeOK, HostTypeOK
<1>2. Valid <=> code \in Songs
  BY <1>1 DEF A2Tables, Valid
<1>3. QED
  BY <1>2 DEF A2Select, Select, Kept

(* Where the variables agree with the tables, so do the two players.       *)
LEMMA SubmitsTheSame == ControlInv /\ CountIsOfSong /\ A2Submitted => Kept(Submitted)
<1> SUFFICES ASSUME ControlInv, CountIsOfSong, A2Submitted PROVE Kept(Submitted)
  OBVIOUS
<1>1. /\ phrase \in Nat /\ song \in Songs
      /\ count = Count[song] /\ repeat_at = Repeat[song]
      /\ Count[song] \in Nat
  BY FeederAssumption
  DEF ControlInv, TypeOK, FeedInv, CountIsOfSong, A2Submitted, At
<1>2. CASE phrase + 1 < Count[song]
  BY <1>1, <1>2 DEF A2Submitted, Submitted, Kept, Goto
<1>3. CASE ~(phrase + 1 < Count[song])
  BY <1>1, <1>3 DEF A2Submitted, Submitted, Kept, Goto
<1>4. QED
  BY <1>2, <1>3

(* ready sets the variables to the tables' values, except for a file.      *)
LEMMA ReadyAgrees ==
  ASSUME A2Tables, ControlInv, A2Ready
  PROVE  /\ ~IsFile => Ready /\ count' = Count[song] /\ repeat_at' = Repeat[song]
         /\ IsFile => /\ song \in 10 .. 14
                      /\ pc' = "load_music"
                      /\ UNCHANGED <<hostVars, feedVars, biosVars, rom, ret>>
<1>1. song \in Songs
  BY DEF ControlInv, FeedInv, A2Ready, At
<1>2. CASE IsFile
  BY <1>1, <1>2 DEF A2Tables, A2Ready, IsFile, Goto, feedVars
<1>3. CASE ~IsFile
  <2>1. song \in 0 .. 5
    BY <1>1, <1>3 DEF A2Tables, IsFile
  <2>2. QED
    BY <1>3, <2>1 DEF A2Tables, A2Ready, Ready, Goto
<1>4. QED
  BY <1>2, <1>3

(* Outside of the detour a step of A2 is a step of the player, and it      *)
(* either sets the variables for a new tune or keeps them and the tune.    *)
LEMMA A2Step ==
  ASSUME A2Tables, ControlInv, CountIsOfSong, A2Next, pc # "load_music", pc' # "load_music"
  PROVE  /\ Next
         /\ \/ count' = Count[song] /\ repeat_at' = Repeat[song] /\ song' = song
            \/ UNCHANGED <<count, repeat_at>> /\ (active' = 1 => active = 1 /\ song' = song)
<1> USE DEF At, Goto
<1>1. CASE Kept(ReadCommand \/ Silence \/ Setup \/ StopPlaying \/ Leave)
  BY <1>1 DEF Kept, Next, Handler, ReadCommand, Silence, Setup, StopPlaying, Leave, feedVars
<1>2. CASE A2Select
  <2>1. Kept(Select)
    BY <1>2, SelectsTheSame
  <2>2. active = 0
    BY <1>2 DEF A2Select, ControlInv, FeedInv
  <2>3. QED
    BY <2>1, <2>2 DEF Kept, Select, Next, Handler
<1>3. CASE A2Ready
  BY <1>3, ReadyAgrees DEF Ready, Next, Handler
<1>4. CASE LoadMusic
  BY <1>4 DEF LoadMusic
<1>5. CASE Kept(EnterFeed \/ Poll \/ Submit \/ FeedFinish \/ FeedDone)
  BY <1>5
  DEF Kept, Next, Feed, EnterFeed, Poll, Submit, FeedFinish, FeedDone, feedVars,
      ControlInv, TypeOK
<1>6. CASE A2Submitted
  BY <1>6, SubmitsTheSame DEF Kept, Next, Feed, Submitted
<1>7. CASE Kept(Boot \/ TakeCommand \/ Host \/ BiosTick)
  BY <1>7
  DEF Kept, Next, Boot, LoadOverlay, InitDriver, Install, TakeCommand, Host, BiosTick, feedVars
<1>8. QED
  BY <1>1, <1>2, <1>3, <1>4, <1>5, <1>6, <1>7 DEF A2Next, A2Handler, A2Feed

(* A step to load_music is ready's, with a file.                           *)
LEMMA EntersFromReady ==
  ASSUME ControlInv, A2Next, pc # "load_music", pc' = "load_music"
  PROVE  A2Ready /\ IsFile
<1> USE DEF At, Goto
<1>1. ret # "load_music"
  BY DEF ControlInv, TypeOK, MainPc
<1>2. QED
  BY <1>1
  DEF A2Next, A2Handler, A2Feed, Kept, Boot, LoadOverlay, InitDriver, Install, TakeCommand,
      ReadCommand, Silence, Setup, StopPlaying, Leave, A2Select, A2Ready, LoadMusic,
      EnterFeed, Poll, Submit, A2Submitted, FeedFinish, FeedDone, Host, BiosTick

(* In load_music the host may replace its request, and load_music may      *)
(* return; nothing else happens there.                                     *)
LEMMA InLoadMusic ==
  ASSUME Loading, A2Next, pc = "load_music"
  PROVE  LoadMusic \/ Kept(Host)
<1>1. gate # HF_ENABLE /\ ~(fill > 0)
  BY DEF Loading, HF_DISABLE, HF_ENABLE
<1>2. QED
  BY <1>1
  DEF A2Next, A2Handler, A2Feed, Kept, Boot, LoadOverlay, InitDriver, Install, TakeCommand,
      Deliver, Deliverable, ReadCommand, Silence, Setup, StopPlaying, Leave, A2Select,
      A2Ready, EnterFeed, Poll, Submit, A2Submitted, FeedFinish, FeedDone, BiosTick, At

-------------------------------------------------------------------------------
(* The three kinds of steps that keep the invariant: into the detour, in   *)
(* it, and outside of it.                                                  *)
LEMMA EnteringKeeps ==
  ASSUME A2Tables, A2Inv, A2Next, pc # "load_music", pc' = "load_music"
  PROVE  A2Inv'
<1>1. PlayerInv
  BY DEF A2Inv
<1>2. A2Ready /\ IsFile
  BY <1>1, EntersFromReady DEF PlayerInv
<1>3. song \in 10 .. 14 /\ UNCHANGED <<hostVars, feedVars, biosVars, rom, ret>>
  BY <1>1, <1>2, ReadyAgrees DEF PlayerInv
<1>4. /\ pc = "ready" /\ active = 0 /\ phrase = 0 /\ gate = HF_DISABLE /\ ret = "idle"
  BY <1>1, <1>2 DEF A2Ready, At, PlayerInv, ControlInv, GateInv, FeedInv, InnerPc, IsrPc
<1>5. ring = <<>> /\ fill = 0 /\ rom = \h00b3
  BY <1>1, <1>4 DEF PlayerInv, ControlInv, RingInv, QueueInv, RomInv
<1>6. HostTypeOK /\ (~irq => command = HP_PLAY /\ song = code)
  BY <1>1, <1>4 DEF PlayerInv, ControlInv, TypeOK, AnswerInv
<1>7. Loading'
  BY <1>3, <1>4, <1>5, <1>6 DEF Loading, HostTypeOK, hostVars, feedVars, biosVars
<1>8. QED
  BY <1>3, <1>4, <1>7 DEF A2Inv, CountIsOfSong, feedVars

(* load_music returns with a tune that begins, or not at all.              *)
LEMMA LoadMusicKeeps ==
  ASSUME A2Tables, Loading, LoadMusic
  PROVE  A2Inv'
<1> USE DEF Loading, LoadMusic, Goto
<1>1. song \in Songs /\ Count[song] \in Nat \ {0}
  BY FeederAssumption DEF A2Tables
<1>2. UNCHANGED <<hostVars, song, phrase, biosVars, rom, ret>> /\ pc' \in {"dead", "leave"}
  OBVIOUS
<1>3. pc' = "dead" => UNCHANGED active
  OBVIOUS
<1>4. pc' = "leave" => active' = 1 /\ count' = Count[song] /\ repeat_at' = Repeat[song]
  BY DEF A2Tables
<1>5. ControlInv'
  <2>1. TypeOK'
    BY <1>1, <1>2, <1>3, <1>4, FeederAssumption
    DEF TypeOK, HostTypeOK, hostVars, biosVars, BootPc, MainPc, IsrPc
  <2>2. GateInv'
    BY <1>2 DEF GateInv, hostVars, BootPc, MainPc, FeedPc
  <2>3. FeedInv'
    BY <1>1, <1>2, <1>3, <1>4 DEF FeedInv, BootPc
  <2>4. RingInv'
    BY <1>2 DEF RingInv, biosVars
  <2>5. QED
    BY <2>1, <2>2, <2>3, <2>4 DEF ControlInv
<1>6. QueueInv'
  BY <1>2, FeederAssumption DEF QueueInv, biosVars, BootPc
<1>7. AnswerInv'
  BY <1>1, <1>2, <1>3, <1>4 DEF AnswerInv, Answered, Asked, hostVars, biosVars, BootPc, MainPc
<1>8. RomInv'
  BY <1>2 DEF RomInv
<1>9. CountIsOfSong'
  BY <1>2, <1>3, <1>4 DEF CountIsOfSong
<1>10. QED
  BY <1>2, <1>5, <1>6, <1>7, <1>8, <1>9 DEF A2Inv, PlayerInv

LEMMA NextA2 ==
  ASSUME A2Tables
  PROVE  A2Inv /\ [A2Next]_a2Vars => A2Inv'
<1> SUFFICES ASSUME A2Inv, [A2Next]_a2Vars PROVE A2Inv'
  OBVIOUS
<1>1. CASE UNCHANGED a2Vars
  <2>1. UNCHANGED vars /\ UNCHANGED <<count, repeat_at>>
    BY <1>1 DEF a2Vars
  <2>2. PlayerInv => PlayerInv'
    BY <2>1, NextControl, NextQueue, NextAnswer, NextRom DEF PlayerInv
  <2>3. QED
    BY <2>1, <2>2
    DEF A2Inv, Loading, HostTypeOK, CountIsOfSong, vars, hostVars, feedVars, biosVars
<1>2. CASE A2Next /\ pc = "load_music"
  <2>1. Loading
    BY <1>2 DEF A2Inv
  <2>2. CASE LoadMusic
    BY <2>1, <2>2, LoadMusicKeeps
  <2>3. CASE Kept(Host)
    BY <1>2, <2>1, <2>3
    DEF Kept, Host, HostRequest, A2Inv, Loading, HostTypeOK, CountIsOfSong, feedVars, biosVars
  <2>4. QED
    BY <1>2, <2>1, <2>2, <2>3, InLoadMusic
<1>3. CASE A2Next /\ pc # "load_music" /\ pc' = "load_music"
  BY <1>3, EnteringKeeps
<1>4. CASE A2Next /\ pc # "load_music" /\ pc' # "load_music"
  <2>1. PlayerInv /\ CountIsOfSong
    BY <1>4 DEF A2Inv
  <2>2. Next
    BY <1>4, <2>1, A2Step DEF PlayerInv
  <2>3. PlayerInv'
    BY <2>1, <2>2, NextControl, NextQueue, NextAnswer, NextRom DEF PlayerInv
  <2>4. CountIsOfSong'
    BY <1>4, <2>1, A2Step DEF PlayerInv, CountIsOfSong
  <2>5. QED
    BY <1>4, <2>3, <2>4 DEF A2Inv
<1>5. QED
  BY <1>1, <1>2, <1>3, <1>4

(***************************************************************************)
(* The invariant of A2: PhraseFeeder's outside of load_music, and inside   *)
(* of it a closed gate and a player that neither feeds nor plays.          *)
(***************************************************************************)
THEOREM A2Correct ==
  ASSUME A2Tables
  PROVE  A2Spec => []A2Inv
<1>1. A2Init => A2Inv
  BY InitControl, FeederAssumption
  DEF A2Init, Init, A2Inv, PlayerInv, CountIsOfSong, QueueInv, AnswerInv, Answered, RomInv
<1>2. QED
  BY <1>1, NextA2, PTL DEF A2Spec

-------------------------------------------------------------------------------
(***************************************************************************)
(* While a tune is fed, the count and the loop point the handler set are   *)
(* those of that tune, also of a file, whatever requests came between.     *)
(***************************************************************************)
THEOREM CountAlwaysOfSong ==
  ASSUME A2Tables
  PROVE  A2Spec => []CountIsOfSong
<1>1. A2Inv => CountIsOfSong
  BY DEF A2Inv
<1>2. QED
  BY <1>1, A2Correct, PTL

(***************************************************************************)
(* The rings of A2 are never overrun.                                      *)
(***************************************************************************)
THEOREM A2NeverOverruns ==
  ASSUME A2Tables
  PROVE  A2Spec => []NoOverrun
<1>1. A2Inv => NoOverrun
  BY FeederAssumption DEF A2Inv, PlayerInv, Loading, QueueInv, NoOverrun
<1>2. QED
  BY <1>1, A2Correct, PTL

(***************************************************************************)
(* A2, too, feeds and queues what the host asked for last, also when the   *)
(* request changed while a file was being loaded.                          *)
(***************************************************************************)
THEOREM A2AnswersLastRequest ==
  ASSUME A2Tables
  PROVE  A2Spec => []AnswersLastRequest
<1>1. A2Inv => AnswersLastRequest
  BY DEF A2Inv, PlayerInv, AnswerInv, Answered, AnswersLastRequest, Settled, MainPc
<1>2. QED
  BY <1>1, A2Correct, PTL

(* The detour is invisible: while a file is loaded nothing is queued, and  *)
(* its tune begins with load_music's return.                               *)
LEMMA A2StepKeepsPromise ==
  ASSUME A2Tables
  PROVE  A2Inv /\ [A2Next]_a2Vars => [Promise!Next]_(Promise!vars)
<1> SUFFICES ASSUME A2Inv, [A2Next]_a2Vars
             PROVE  Promise!Next \/ UNCHANGED <<Upcoming, ring>>
  BY DEF Promise!vars
<1>1. CASE UNCHANGED a2Vars
  BY <1>1 DEF a2Vars, vars, feedVars, biosVars, Upcoming
<1>2. CASE A2Next /\ pc = "load_music"
  <2>1. Loading /\ song \in Songs
    BY <1>2 DEF A2Tables, A2Inv, Loading
  <2>2. Upcoming = None
    BY <2>1 DEF Loading, Upcoming
  <2>3. CASE LoadMusic
    <3>1. UNCHANGED <<song, phrase, ring>>
      BY <2>3 DEF LoadMusic, biosVars
    <3>2. CASE Music[song] = Bad
      BY <2>1, <2>2, <2>3, <3>1, <3>2 DEF LoadMusic, Loading, Upcoming
    <3>3. CASE Music[song] # Bad
      <4>1. Upcoming' = <<song, 0>>
        BY <2>1, <2>3, <3>1, <3>3 DEF LoadMusic, Loading, Upcoming, Goto
      <4>2. QED
        BY <2>1, <2>2, <3>1, <4>1 DEF Loading, Promise!Begin, Promise!Next
    <3>4. QED
      BY <3>2, <3>3
  <2>4. CASE Kept(Host)
    BY <2>4 DEF Kept, Host, feedVars, biosVars, Upcoming
  <2>5. QED
    BY <1>2, <2>1, <2>3, <2>4, InLoadMusic
<1>3. CASE A2Next /\ pc # "load_music" /\ pc' = "load_music"
  <2>1. PlayerInv /\ A2Ready /\ IsFile
    BY <1>3, EntersFromReady DEF A2Inv, PlayerInv
  <2>2. active = 0 /\ UNCHANGED <<active, ring>>
    BY <2>1, ReadyAgrees DEF PlayerInv, ControlInv, FeedInv, A2Ready, At, feedVars, biosVars
  <2>3. QED
    BY <2>2 DEF Upcoming
<1>4. CASE A2Next /\ pc # "load_music" /\ pc' # "load_music"
  <2>1. PlayerInv /\ Next
    BY <1>4, A2Step DEF A2Inv, PlayerInv
  <2>2. QED
    BY <2>1, StepKeepsPromise DEF PlayerInv, Promise!vars
<1>5. QED
  BY <1>1, <1>2, <1>3, <1>4

(***************************************************************************)
(* A2 keeps the promise of PhrasePlayer, for its built-in tunes and for    *)
(* every music file it accepts.                                            *)
(***************************************************************************)
THEOREM A2KeepsPromise ==
  ASSUME A2Tables
  PROVE  A2Spec => KeepsPromise
<1>1. A2Init => Promise!Init
  BY DEF A2Init, Init, Promise!Init, Upcoming
<1>2. QED
  BY <1>1, A2StepKeepsPromise, A2Correct, PTL DEF A2Spec, KeepsPromise, Promise!Spec

(***************************************************************************)
(* What the rings of A2 hold is one unbroken run of one tune, built in or  *)
(* from a file.                                                            *)
(***************************************************************************)
THEOREM A2RingInOrder ==
  ASSUME A2Tables
  PROVE  A2Spec => []RingInOrder
<1>1. A2Init => RingInOrder
  BY DEF A2Init, Init, RingInOrder, Promise!Contiguous
<1>2. A2Inv => ring \in Seq(Phrases) /\ Upcoming \in Phrases \cup {None}
  <2>1. CASE pc = "load_music"
    BY <2>1 DEF A2Inv, Loading, Upcoming
  <2>2. CASE pc # "load_music"
    BY <2>2, UpcomingType DEF A2Inv, PlayerInv, ControlInv, TypeOK
  <2>3. QED
    BY <2>1, <2>2
<1>3. A2Inv /\ RingInOrder /\ [A2Next]_a2Vars => RingInOrder'
  BY <1>2, A2StepKeepsPromise, PromiseKeepsOrder
<1>4. QED
  BY <1>1, <1>3, A2Correct, PTL DEF A2Spec

(***************************************************************************)
(* Once hoot can see the player, nothing but a music file that is not      *)
(* acceptable ends it, and then with its rings empty.                      *)
(***************************************************************************)
THEOREM A2DiesSilent ==
  ASSUME A2Tables
  PROVE  A2Spec => DiesSilent
<1>1. A2Inv /\ [A2Next]_a2Vars
        => [pc' = "dead" /\ pc \notin BootPc \cup {"dead"} =>
              IsFile /\ Music[song] = Bad /\ ring = <<>>]_a2Vars
  <2> SUFFICES ASSUME A2Inv, A2Next, pc' = "dead", pc \notin BootPc \cup {"dead"}
               PROVE  IsFile /\ Music[song] = Bad /\ ring = <<>>
    OBVIOUS
  <2>1. CASE pc = "load_music"
    <3>1. Loading /\ (LoadMusic \/ Kept(Host))
      BY <2>1, InLoadMusic DEF A2Inv
    <3>2. LoadMusic
      BY <2>1, <3>1 DEF Kept, Host
    <3>3. QED
      BY <3>1, <3>2 DEF Loading, LoadMusic, IsFile, Goto
  <2>2. CASE pc # "load_music"
    <3>1. PlayerInv /\ Next
      BY <2>2, A2Step DEF A2Inv, PlayerInv
    <3>2. UNCHANGED vars
      BY <3>1, DeathOnlyAtStart DEF PlayerInv
    <3>3. QED
      BY <3>2 DEF vars
  <2>3. QED
    BY <2>1, <2>2
<1>2. QED
  BY <1>1, A2Correct, PTL DEF A2Spec, DiesSilent
===============================================================================
