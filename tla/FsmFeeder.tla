------------------------------ MODULE FsmFeeder -------------------------------
(***************************************************************************)
(* Far Side Moon (fsm_98.asm): the player of PhraseFeeder, except that its *)
(* phrase counts and loop points are in its code, its effects end without  *)
(* moving the phrase index, and its rings may be fuller when a phrase is   *)
(* submitted.  The INT D2h calls that set the noise period and mixer of    *)
(* songs 1 and 2 change no state modelled here.                            *)
(***************************************************************************)
EXTENDS PhraseFeeder

(* The tables the promise is stated with say what the code does with each  *)
(* of its 28 songs: three loops, and effects of a single phrase.           *)
FsmTables ==
  /\ Songs = 0 .. 27
  /\ Count[0] = 12 /\ Repeat[0] = 0
  /\ Count[1] = 17 /\ Repeat[1] = 12
  /\ Count[2] = 6  /\ Repeat[2] = 1
  /\ \A s \in 3 .. 27 : Count[s] = 1 /\ Repeat[s] = OneShot

(* cmp ax, 28 / jae .done *)
FsmSelect ==
  /\ At("select")
  /\ IF code < 28
     THEN /\ song' = code
          /\ phrase' = 0
          /\ Goto("setup")
     ELSE /\ UNCHANGED <<song, phrase>>
          /\ Goto("leave")
  /\ UNCHANGED <<hostVars, active, biosVars, rom>>

IsEffect == song >= 3

(* jbe for jb. *)
WrapLate(last, first) ==
  phrase' = IF phrase + 1 <= last THEN phrase + 1 ELSE first

(* At the end of its phrases song s goes on at phrase n. *)
WrapAt(last, first) ==
  phrase' = IF phrase + 1 < last THEN phrase + 1 ELSE first

(* Without ending an effect. *)
FsmSubmittedEndless ==
  /\ At("submitted")
  /\ Goto("done")
  /\ \/ IsEffect  /\ UNCHANGED phrase
     \/ ~IsEffect /\ WrapAt(6, 0)
  /\ UNCHANGED <<hostVars, active, song, biosVars, rom>>

FsmSubmitted ==
  /\ At("submitted")
  /\ \/ IsEffect  /\ Goto("finish") /\ UNCHANGED phrase
     \/ song = 0  /\ Goto("done")   /\ WrapAt(12, 0)
     \/ song = 1  /\ Goto("done")   /\ WrapAt(17, 12)
     \/ song = 2  /\ Goto("done")   /\ WrapAt(6, 1)
  /\ UNCHANGED <<hostVars, active, song, biosVars, rom>>

FsmHandler ==
  ReadCommand \/ Silence \/ FsmSelect \/ Setup \/ Ready \/ StopPlaying \/ Leave

FsmFeed == EnterFeed \/ Poll \/ Submit \/ FsmSubmitted \/ FeedFinish \/ FeedDone

FsmNext == Boot \/ TakeCommand \/ FsmHandler \/ FsmFeed \/ Host \/ BiosTick

FsmSpec ==
  /\ Init /\ [][FsmNext]_vars
  /\ WF_vars(Boot)
  /\ WF_vars(FsmHandler)
  /\ WF_vars(FsmFeed)
  /\ WF_vars(BiosTick)
  /\ SF_vars(TakeCommand)

===============================================================================
