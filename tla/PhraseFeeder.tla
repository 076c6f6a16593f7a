----------------------------- MODULE PhraseFeeder -----------------------------
(***************************************************************************)
(* The Artdink players of src/pc98/artdink: one program, copied with small *)
(* changes for four games, that plays a game's music through the game's    *)
(* own routines (far init, play, status, stop).                            *)
(*                                                                         *)
(* Two flows share the state.  The main loop (idle) feeds the Sound BIOS   *)
(* one phrase at a time whenever its rings have room; the INT 7Fh handler  *)
(* (command) carries out hoot's play and stop requests.  The handler can   *)
(* interrupt the main loop at any instruction the gate is open at.  The    *)
(* Sound BIOS empties the rings from its own timer interrupt, at any time. *)
(*                                                                         *)
(* This module is the player that reads its phrase counts and loop points  *)
(* from a table: A3 (a3_98.asm) and, with a phrase that waits for silence, *)
(* Arctic (arctc_98.asm).                                                  *)
(*                                                                         *)
(* Abstracted: the MML of a phrase is the pair <<song, phrase>>; the six   *)
(* rings are the fullest one (what status 0 returns); the values written   *)
(* into the driver's work area by seed_ssg_mixer and last_error, which     *)
(* nothing reads, are left out.                                            *)
(*                                                                         *)
(* A definition introduced by "without" or by the instruction a slip would *)
(* put in place of another is a variant of the one after it: what that     *)
(* slip would do.  No specification uses the variants.                     *)
(***************************************************************************)
EXTENDS HootPort, Integers, Sequences

CONSTANTS
  Songs,      \* the codes the command handler accepts
  Count,      \* tracks: phrase count
  Repeat,     \* tracks: loop index
  DrainAt,    \* phrases submitted only when every channel is silent
  Broken,     \* phrases the game's play routine refuses (AX # 0)
  LowWater,   \* status(0) above this: no phrase is submitted
  MaxPhrase,  \* the most a compiled phrase takes in a ring
  RingSize,   \* the size of a Sound BIOS ring
  Roms,       \* the words the sound ROM may hold at CC00:30A5
  None        \* no phrase

OneShot == \hffff

ASSUME FeederAssumption ==
  /\ Songs \subseteq Nat
  /\ Codes \subseteq Nat
  /\ Codes # {}
  /\ Count \in [Songs -> Nat \ {0}]
  /\ Repeat \in [Songs -> Nat]
  /\ \A s \in Songs : Repeat[s] = OneShot \/ Repeat[s] < Count[s]
  /\ DrainAt \subseteq Songs \X Nat
  /\ LowWater \in Nat
  /\ MaxPhrase \in Nat \ {0}
  /\ RingSize \in Nat
  /\ LowWater + MaxPhrase <= RingSize
  /\ Roms \subseteq Nat
  /\ None \notin Songs \X Nat

VARIABLES
  active,     \* a tune is being fed
  song,
  phrase,     \* the phrase of song to submit next
  ring,       \* the phrases queued and not yet played to their end
  fill,       \* bytes in the fullest ring: what status(0) returns
  rom,        \* the word at CC00:30A5
  pc,         \* where the processor is
  ret         \* where the main loop was interrupted

feedVars == <<active, song, phrase>>
biosVars == <<ring, fill>>
vars == <<hostVars, feedVars, biosVars, rom, pc, ret>>

Phrases == Songs \X Nat

BootPc == {"load", "init", "install"}
MainPc == {"idle", "poll", "submit", "submitted", "finish", "done"}
IsrPc  == {"command", "play", "select", "setup", "ready", "stop", "leave"}

Goto(label) == pc' = label /\ UNCHANGED ret
At(label) == pc = label

-------------------------------------------------------------------------------
(* The Sound BIOS and the game's routines. *)

(* Without clearing the queues. *)
KeyOffOnly == UNCHANGED biosVars

(* far stop, AH=19h: clears the queues and keys every channel off. *)
FarStop == ring' = <<>> /\ fill' = 0

(* far status: 0 asks for the fill of the fullest ring, 10 whether any     *)
(* channel is still sounding.                                              *)
Status0 == fill
Silent == ring = <<>>

(* far play: compiles the phrase and puts it at the end of the rings. *)
FarPlay(p) ==
  /\ ring' = Append(ring, p)
  /\ \E n \in 1 .. MaxPhrase : fill' = fill + n

(* The BIOS timer plays on: a byte less, and perhaps a phrase less. *)
BiosTick ==
  /\ fill > 0
  /\ fill' = fill - 1
  /\ \/ ring' = ring /\ fill > 1 /\ Len(ring) < fill
     \/ ring' = Tail(ring) /\ (fill = 1 <=> Len(ring) = 1)
  /\ UNCHANGED <<hostVars, feedVars, rom, pc, ret>>

(* Without the second comparison. *)
FactoryRomOnly == rom = \h08b3

(* prepare_silent_init accepts the ROM as shipped (08b3h) and the ROM it   *)
(* has itself patched (00b3h), and patches the high byte to zero.          *)
KnownRom == rom \in {\h08b3, \h00b3}
PatchedRom == rom % 256

-------------------------------------------------------------------------------
(* start *)

Init ==
  /\ HostInit
  /\ active = 0
  /\ song = 0
  /\ phrase = 0
  /\ ring = <<>>
  /\ fill = 0
  /\ rom \in Roms
  /\ pc = "load"
  /\ ret = "idle"

(* Memory for the overlay and the game's program itself; either may fail. *)
LoadOverlay ==
  /\ At("load")
  /\ Goto("init") \/ Goto("dead")
  /\ UNCHANGED <<hostVars, feedVars, biosVars, rom>>

(* The first prepare_silent_init and far init; AX # 0 ends the program. *)
InitDriver ==
  /\ At("init")
  /\ IF KnownRom
     THEN /\ rom' = PatchedRom
          /\ Goto("install") \/ Goto("dead")
     ELSE /\ Goto("dead")
          /\ UNCHANGED rom
  /\ UNCHANGED <<hostVars, feedVars, biosVars>>

(* far stop, the vector of INT 7Fh, and the gate opens. *)
Install ==
  /\ At("install")
  /\ FarStop
  /\ SetGate(HF_ENABLE)
  /\ Goto("idle")
  /\ UNCHANGED <<feedVars, rom>>

-------------------------------------------------------------------------------
(* command: the INT 7Fh handler.  It runs with the main loop suspended and *)
(* closes the gate before it looks at the ports, which the host may        *)
(* rewrite between the read of the command and the read of the code.       *)

(* With interrupts enabled in the handler before its gate is closed. *)
TakeCommandNested ==
  /\ pc \in MainPc \cup IsrPc
  /\ Deliver
  /\ pc' = "command"
  /\ ret' = pc
  /\ UNCHANGED <<feedVars, biosVars, rom>>

TakeCommand ==
  /\ pc \in MainPc
  /\ Deliver
  /\ pc' = "command"
  /\ ret' = pc
  /\ UNCHANGED <<feedVars, biosVars, rom>>

ReadCommand ==
  /\ At("command")
  /\ SetGate(HF_DISABLE)
  /\ Goto(CASE command = HP_PLAY -> "play"
            [] command = HP_STOP -> "stop"
            [] OTHER             -> "leave")
  /\ UNCHANGED <<feedVars, biosVars, rom>>

Silence ==
  /\ At("play")
  /\ FarStop
  /\ active' = 0
  /\ Goto("select")
  /\ UNCHANGED <<hostVars, song, phrase, rom>>

(* Without the reset of the phrase. *)
SelectPhraseKept ==
  /\ At("select")
  /\ IF code \in Songs
     THEN song' = code /\ Goto("setup")
     ELSE Goto("leave") /\ UNCHANGED song
  /\ UNCHANGED <<hostVars, active, phrase, biosVars, rom>>

(* A code the player does not know leaves the song as it was, silent. *)
Select ==
  /\ At("select")
  /\ IF code \in Songs
     THEN /\ song' = code
          /\ phrase' = 0
          /\ Goto("setup")
     ELSE /\ UNCHANGED <<song, phrase>>
          /\ Goto("leave")
  /\ UNCHANGED <<hostVars, active, biosVars, rom>>

(* prepare_silent_init, far init, whose result is not looked at here, and  *)
(* a second far stop.                                                      *)
Setup ==
  /\ At("setup")
  /\ IF KnownRom
     THEN /\ rom' = PatchedRom
          /\ FarStop
          /\ Goto("ready")
     ELSE /\ Goto("dead")
          /\ UNCHANGED <<rom, biosVars>>
  /\ UNCHANGED <<hostVars, feedVars>>

Ready ==
  /\ At("ready")
  /\ active' = 1
  /\ Goto("leave")
  /\ UNCHANGED <<hostVars, song, phrase, biosVars, rom>>

(* Without the far stop: the queue plays on. *)
StopFeedingOnly ==
  /\ At("stop")
  /\ active' = 0
  /\ Goto("leave")
  /\ UNCHANGED <<hostVars, song, phrase, biosVars, rom>>

StopPlaying ==
  /\ At("stop")
  /\ active' = 0
  /\ FarStop
  /\ Goto("leave")
  /\ UNCHANGED <<hostVars, song, phrase, rom>>

Leave ==
  /\ At("leave")
  /\ SetGate(HF_ENABLE)
  /\ pc' = ret
  /\ UNCHANGED <<ret, feedVars, biosVars, rom>>

-------------------------------------------------------------------------------
(* feed: the main loop's only work. *)

(* Without the write to the gate. *)
EnterFeedUngated ==
  /\ At("idle")
  /\ Goto("poll")
  /\ UNCHANGED <<hostVars, feedVars, biosVars, rom>>

EnterFeed ==
  /\ At("idle")
  /\ SetGate(HF_DISABLE)
  /\ Goto("poll")
  /\ UNCHANGED <<feedVars, biosVars, rom>>

(* ja for jae, no test at all, and jbe for ja. *)
HasRoomOrMore == Status0 <= LowWater + 1
RoomUnchecked == TRUE
HasNoRoom == Status0 > LowWater

HasRoom == Status0 <= LowWater

(* Without the wait, and waiting for the wrong answer. *)
FollowsAtOnce == TRUE
FollowsSound == <<song, phrase>> \in DrainAt => ~Silent

(* arctc_98 only: the native program waits for all channels here. *)
MayFollow == <<song, phrase>> \in DrainAt => Silent

Poll ==
  /\ At("poll")
  /\ Goto(IF active = 1 /\ HasRoom /\ MayFollow THEN "submit" ELSE "done")
  /\ UNCHANGED <<hostVars, feedVars, biosVars, rom>>

Submit ==
  /\ At("submit")
  /\ IF <<song, phrase>> \in Broken
     THEN /\ Goto("finish")
          /\ UNCHANGED biosVars
     ELSE /\ FarPlay(<<song, phrase>>)
          /\ Goto("submitted")
  /\ UNCHANGED <<hostVars, feedVars, rom>>

(* jbe for jb; and without the test for FFFF. *)
SubmittedLate ==
  /\ At("submitted")
  /\ IF phrase + 1 <= Count[song]
     THEN phrase' = phrase + 1 /\ Goto("done")
     ELSE phrase' = phrase + 1 /\ Goto("finish")
  /\ UNCHANGED <<hostVars, active, song, biosVars, rom>>

SubmittedLoops ==
  /\ At("submitted")
  /\ phrase' = IF phrase + 1 < Count[song] THEN phrase + 1 ELSE 0
  /\ Goto("done")
  /\ UNCHANGED <<hostVars, active, song, biosVars, rom>>

Submitted ==
  /\ At("submitted")
  /\ IF phrase + 1 < Count[song]
     THEN phrase' = phrase + 1 /\ Goto("done")
     ELSE IF Repeat[song] = OneShot
     THEN phrase' = phrase + 1 /\ Goto("finish")
     ELSE phrase' = Repeat[song] /\ Goto("done")
  /\ UNCHANGED <<hostVars, active, song, biosVars, rom>>

FeedFinish ==
  /\ At("finish")
  /\ active' = 0
  /\ Goto("done")
  /\ UNCHANGED <<hostVars, song, phrase, biosVars, rom>>

(* Without opening the gate. *)
FeedDoneShut ==
  /\ At("done")
  /\ Goto("idle")
  /\ UNCHANGED <<hostVars, feedVars, biosVars, rom>>

FeedDone ==
  /\ At("done")
  /\ SetGate(HF_ENABLE)
  /\ Goto("idle")
  /\ UNCHANGED <<feedVars, biosVars, rom>>

-------------------------------------------------------------------------------
Boot    == LoadOverlay \/ InitDriver \/ Install
Handler == ReadCommand \/ Silence \/ Select \/ Setup \/ Ready \/ StopPlaying \/ Leave
Feed    == EnterFeed \/ Poll \/ Submit \/ Submitted \/ FeedFinish \/ FeedDone

Host == HostRequest /\ UNCHANGED <<feedVars, biosVars, rom, pc, ret>>

Next == Boot \/ TakeCommand \/ Handler \/ Feed \/ Host \/ BiosTick

Spec == Init /\ [][Next]_vars

(* The processor never stops, the timer never stops, and hoot holds on to  *)
(* a deferred request until it finds the gate open, which is open again    *)
(* and again.                                                              *)
Fairness ==
  /\ WF_vars(Boot)
  /\ WF_vars(Handler)
  /\ WF_vars(Feed)
  /\ WF_vars(BiosTick)
  /\ SF_vars(TakeCommand)

FairSpec == Spec /\ Fairness

-------------------------------------------------------------------------------
(* The state the variables stay in. *)
TypeOK ==
  /\ HostTypeOK
  /\ active \in {0, 1}
  /\ song \in Nat
  /\ phrase \in Nat
  /\ ring \in Seq(Phrases)
  /\ fill \in Nat
  /\ rom \in Nat
  /\ pc \in BootPc \cup MainPc \cup IsrPc \cup {"dead"}
  /\ ret \in MainPc

(***************************************************************************)
(* The gate does its work: a command is handled between two feeds, never   *)
(* inside one ("defer hoot commands while compiling/enqueuing a phrase",   *)
(* a3_98.asm:205).                                                         *)
(***************************************************************************)
FeedIsNotSplit == pc \in IsrPc => ret = "idle"

(***************************************************************************)
(* While a tune is active its phrase index is inside its table: feed reads *)
(* the pointers of a phrase that exists.                                   *)
(***************************************************************************)
PhraseInTable == active = 1 /\ pc # "finish" => song \in Songs /\ phrase < Count[song]

(***************************************************************************)
(* A phrase never overruns a ring, whatever it compiles to.                *)
(***************************************************************************)
NoOverrun == fill <= RingSize

(***************************************************************************)
(* Once the handler has nothing left to answer, what is fed and what is    *)
(* queued is what the host asked for last: after a stop or an unknown code *)
(* nothing, after a play that song only, whatever requests raced it.       *)
(***************************************************************************)
Settled == pc \in MainPc /\ ~irq

Asked == IF command = HP_PLAY THEN {code} \cap Songs ELSE {}

AnswersLastRequest ==
  Settled /\ command # HP_LOADPLAY =>
    /\ active = 1 => song \in Asked
    /\ \A i \in 1 .. Len(ring) : ring[i][1] \in Asked

(***************************************************************************)
(* The player never dies once hoot can see it: the ROM check of            *)
(* prepare_silent_init accepts its own patch.                              *)
(***************************************************************************)
DiesOnlyAtStart == [][pc' = "dead" => pc \in BootPc \cup {"dead"}]_vars

(***************************************************************************)
(* A phrase that must follow silence is queued into empty rings only.      *)
(***************************************************************************)
DrainsFirst ==
  [][\A p \in DrainAt : ring' = Append(ring, p) => ring = <<>>]_vars

-------------------------------------------------------------------------------
(* What the player promises.  The phrase to queue next is decided from the *)
(* moment the BIOS has the previous one: After is what submitted computes. *)
After(s, n) ==
  IF n < Count[s]           THEN <<s, n>>
  ELSE IF Repeat[s] # OneShot THEN <<s, Repeat[s]>>
  ELSE None

Upcoming ==
  IF active = 0 \/ pc = "finish" THEN None
  ELSE IF pc = "submitted"       THEN After(song, phrase + 1)
  ELSE <<song, phrase>>

Promise == INSTANCE PhrasePlayer WITH next <- Upcoming

(***************************************************************************)
(* The player does what PhrasePlayer promises: phrases are queued in the   *)
(* order of the tune's table, a tune begins at its first phrase in empty   *)
(* rings, a stop empties them and queues nothing more.                     *)
(***************************************************************************)
KeepsPromise == Promise!Spec

(***************************************************************************)
(* The queue is one unbroken run of one tune.                              *)
(***************************************************************************)
RingInOrder == Promise!Contiguous

(***************************************************************************)
(* Whatever path a feed or a command takes, the gate opens again.          *)
(***************************************************************************)
GateReopens == gate = HF_DISABLE ~> (gate = HF_ENABLE \/ pc = "dead")

(***************************************************************************)
(* A loop is fed for as long as nobody interferes; a one-shot comes to its *)
(* end and falls silent.                                                   *)
(***************************************************************************)
Undisturbed == <>[]~irq

LoopIsFed ==
  Undisturbed => []<>~(active = 1 /\ ring = <<>>)

OneShotEnds ==
  Undisturbed =>
    ((active = 1 /\ Repeat[song] = OneShot) ~> (active = 0 /\ ring = <<>>))
===============================================================================
