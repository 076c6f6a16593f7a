----------------------------- MODULE SynupsPlayer -----------------------------
(***************************************************************************)
(* The SYNUPS player for DOS/V (synp_at.asm): hoot's INT 7Fh handler loads *)
(* a score, and the main loop starts it as soon as the SYNPLAY driver is   *)
(* no longer busy.  The two share start_pending and nothing else, and the  *)
(* handler can interrupt the main loop between any two of its steps.       *)
(*                                                                         *)
(* SYNPLAY (INT D3h) is not in the repository; it is modelled as it is     *)
(* used: 01 stops it and makes it forget its score, 0001 loads one from    *)
(* score_seg and may refuse, 0F says whether it is busy, 03 starts what is *)
(* loaded.  It plays out of score_seg, from its timer routine.             *)
(***************************************************************************)
EXTENDS HootPort, Integers

CONSTANTS
  Scores,      \* files that are whole SYNUPS1 containers
  Refused,     \* those SYNPLAY does not load
  Truncated,   \* files whose relocations are cut off
  Alien,       \* files of at least 15 bytes that are no SYNUPS1 container
  Unreadable,  \* files that cannot be read, or of less than 15 bytes
  None

ASSUME SynupsAssumption ==
  /\ Refused \subseteq Scores
  /\ None \notin Scores \cup Truncated \cup Alien \cup Unreadable
  /\ Codes = Scores \cup Truncated \cup Alien \cup Unreadable

VARIABLES
  start_pending,
  score_seg,      \* the file whose score information block is in score_seg
  loaded,         \* SYNPLAY: the score it was given last, or None
  phase,          \* SYNPLAY: "empty", "loaded", "playing" or "ended"
  busy,           \* SYNPLAY: what 0F answers
  synplay_count,
  pc              \* where the main loop is

synplayVars == <<loaded, phase, busy>>
vars == <<hostVars, start_pending, score_seg, synplayVars, synplay_count, pc>>

(* Memory, the two buffers, the set-up of SYNPLAY, the timer and the two   *)
(* vectors; the gate opens last.                                           *)
Init ==
  /\ HostInit
  /\ start_pending = 0
  /\ score_seg = None
  /\ loaded = None
  /\ phase = "empty"
  /\ busy = FALSE
  /\ synplay_count = 0
  /\ pc = "start"

Goto(label) == pc' = label
At(label) == pc = label

Start ==
  /\ At("start")
  /\ SetGate(HF_ENABLE)
  /\ Goto("mainloop")
  /\ UNCHANGED <<start_pending, score_seg, synplayVars, synplay_count>>

-------------------------------------------------------------------------------
(* mainloop.  "mainloop" is before the hlt and "hlt" is halted: a request  *)
(* that comes in between is not seen before the next interrupt.            *)

Main(action) == action /\ UNCHANGED <<hostVars, score_seg, synplay_count>>

Halt ==
  /\ At("mainloop")
  /\ Goto("hlt")
  /\ Main(UNCHANGED <<start_pending, synplayVars>>)

(* A variant that takes the flag as it tests it. *)
TestTakes ==
  /\ At("test")
  /\ Goto(IF start_pending = 1 THEN "query" ELSE "mainloop")
  /\ start_pending' = 0
  /\ Main(UNCHANGED synplayVars)

Test ==
  /\ At("test")
  /\ Goto(IF start_pending = 1 THEN "query" ELSE "mainloop")
  /\ Main(UNCHANGED <<start_pending, synplayVars>>)

(* A variant with the sense of 0F reversed. *)
QueryReversed ==
  /\ At("query")
  /\ Goto(IF busy THEN "clear" ELSE "mainloop")
  /\ Main(UNCHANGED <<start_pending, synplayVars>>)

(* INT D3h, AH=0F *)
Query ==
  /\ At("query")
  /\ Goto(IF busy THEN "mainloop" ELSE "clear")
  /\ Main(UNCHANGED <<start_pending, synplayVars>>)

Clear ==
  /\ At("clear")
  /\ start_pending' = 0
  /\ Goto("start_score")
  /\ Main(UNCHANGED synplayVars)

(* INT D3h, AH=03 *)
StartScore ==
  /\ At("start_score")
  /\ phase' = IF loaded = None THEN phase ELSE "playing"
  /\ Goto("mainloop")
  /\ Main(UNCHANGED <<start_pending, loaded, busy>>)

-------------------------------------------------------------------------------
(* vect_hoot.  It leaves interrupts disabled: the main loop and the timer  *)
(* see all of it or nothing.                                               *)

Wake == pc' = IF pc = "hlt" THEN "test" ELSE pc

(* INT D3h, AH=01 *)
Reset == loaded' = None /\ phase' = "empty" /\ busy' = FALSE

(* INT D3h, AX=0001: it may be busy with a score it accepts. *)
Load(file) == loaded' = file /\ phase' = "loaded" /\ busy' \in BOOLEAN

StopScore ==
  /\ start_pending' = 0
  /\ Reset
  /\ UNCHANGED score_seg

(* A variant that tells the main loop only of a score SYNPLAY has ready. *)
LoadScoreReady(file) ==
  /\ score_seg' = file
  /\ IF file \in Refused
     THEN Reset /\ UNCHANGED start_pending
     ELSE Load(file) /\ start_pending' = IF busy' THEN start_pending ELSE 1

(* A whole score: reset, then load; one that is refused leaves             *)
(* start_pending as it was.                                                *)
LoadScore(file) ==
  /\ score_seg' = file
  /\ IF file \in Refused
     THEN Reset /\ UNCHANGED start_pending
     ELSE Load(file) /\ start_pending' = 1

(* relocate_sib copies the block before it looks at the relocations. *)
CopyOnly(file) ==
  /\ score_seg' = file
  /\ UNCHANGED <<start_pending, synplayVars>>

(* A variant that does not look at the carry of relocate_sib. *)
PlayUnchecked(file) ==
  \/ file \in Unreadable /\ StopScore
  \/ file \notin Unreadable /\ LoadScore(file)

Play(file) ==
  \/ file \in Unreadable /\ StopScore
  \/ file \in Alien      /\ UNCHANGED <<start_pending, score_seg, synplayVars>>
  \/ file \in Truncated  /\ CopyOnly(file)
  \/ file \in Scores     /\ LoadScore(file)

Command ==
  /\ Deliver
  /\ pc # "start"
  /\ CASE command = HP_PLAY -> Play(code)
       [] command = HP_STOP -> StopScore
       [] OTHER             -> UNCHANGED <<start_pending, score_seg, synplayVars>>
  /\ Wake
  /\ UNCHANGED synplay_count

-------------------------------------------------------------------------------
(* vect_timer.  Of its three dividers the one of synplay_tick is kept: the *)
(* SYNUPS tick and the old INT 8 share no state with the player.           *)

SynplayPeriod == 6

(* A score that is loaded gets ready, one that is played may end. *)
SynplayTick ==
  /\ busy' = FALSE
  /\ \/ phase = "playing" /\ phase' = "ended"
     \/ UNCHANGED phase
  /\ UNCHANGED loaded

Timer ==
  /\ pc # "start"
  /\ synplay_count' = (synplay_count + 1) % SynplayPeriod
  /\ IF synplay_count' = 0 THEN SynplayTick ELSE UNCHANGED synplayVars
  /\ Wake
  /\ UNCHANGED <<hostVars, start_pending, score_seg>>

-------------------------------------------------------------------------------
Host == HostRequest /\ UNCHANGED <<start_pending, score_seg, synplayVars, synplay_count, pc>>

MainLoop == Halt \/ Test \/ Query \/ Clear \/ StartScore

Next == Start \/ MainLoop \/ Command \/ Timer \/ Host

Spec == Init /\ [][Next]_vars

(* The CPU runs the program, the 8253 does not stop, and once the gate is  *)
(* open it stays open, so hoot's interrupt arrives.                        *)
FairSpec ==
  /\ Spec
  /\ WF_vars(Start)
  /\ WF_vars(MainLoop)
  /\ WF_vars(Timer)
  /\ WF_vars(Command)

-------------------------------------------------------------------------------
(* Every variable has its type, and SYNPLAY holds a score it accepts or    *)
(* is empty, whatever the player does to it.                               *)
TypeOK ==
  /\ HostTypeOK
  /\ start_pending \in {0, 1}
  /\ score_seg \in (Scores \cup Truncated \cup {None})
  /\ loaded \in (Scores \ Refused) \cup {None}
  /\ phase \in {"empty", "loaded", "playing", "ended"}
  /\ (loaded = None) <=> (phase = "empty")
  /\ busy \in BOOLEAN
  /\ synplay_count \in 0 .. SynplayPeriod - 1
  /\ pc \in {"start", "mainloop", "hlt", "test", "query", "clear", "start_score"}

(* A score that was loaded and has not been started is not forgotten: the  *)
(* main loop has start_pending to tell it, or is about to start it.  (It   *)
(* clears start_pending before it starts, and a score loaded between its   *)
(* query and that store must not lose its start.)                          *)
NoLostStart == phase = "loaded" => start_pending = 1 \/ pc = "start_score"

(* Once the host leaves the player alone, a score does not stay loaded     *)
(* without being started, although the request may come just before a hlt  *)
(* and SYNPLAY may be busy when it is asked.                               *)
LoadedStarts == <>[]~irq => (phase = "loaded" ~> phase # "loaded")

(* "Stop/reset the previous score before loading a new one": a score is    *)
(* not played out of a block that holds another file.                      *)
PlaysItsOwnBlock == phase = "playing" => score_seg = loaded
===============================================================================
