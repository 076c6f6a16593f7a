------------------------------- MODULE A2Feeder -------------------------------
(***************************************************************************)
(* A2 (a2_98.asm): the player of PhraseFeeder, except that the tune's      *)
(* phrase count and loop point are variables the handler sets, and that    *)
(* the codes from 10 on are music files, read and scanned in the handler.  *)
(* A file load_music cannot accept ends the program inside the handler.    *)
(* MusicScan is the scan itself; here a file is its phrase count, or Bad.  *)
(***************************************************************************)
EXTENDS PhraseFeeder

CONSTANT
  Music       \* Music[s]: the phrase count of the file of code s, or Bad

Bad == 0

(* The codes and the tables the promise is stated with: the title loops    *)
(* from its second phrase on, an effect is one phrase, a music file loops  *)
(* whole.                                                                  *)
A2Tables ==
  /\ Songs = 0 .. 5 \cup 10 .. 14
  /\ Music \in [10 .. 14 -> Nat]
  /\ Count[0] = 14 /\ Repeat[0] = 1
  /\ \A s \in 1 .. 5 : Count[s] = 1 /\ Repeat[s] = OneShot
  /\ \A s \in 10 .. 14 : Repeat[s] = 0 /\ (Music[s] # Bad => Count[s] = Music[s])

VARIABLES
  count,      \* the phrases of the tune
  repeat_at   \* the phrase its loop returns to

a2Vars == <<vars, count, repeat_at>>

Kept(action) == action /\ UNCHANGED <<count, repeat_at>>

A2Init == Init /\ count = 0 /\ repeat_at = 0

(* Codes 0 to 5 and 10 to 14. *)
Valid == code < 15 /\ (code < 6 \/ code >= 10)

A2Select ==
  /\ At("select")
  /\ IF Valid
     THEN /\ song' = code
          /\ phrase' = 0
          /\ Goto("setup")
     ELSE /\ UNCHANGED <<song, phrase>>
          /\ Goto("leave")
  /\ UNCHANGED <<hostVars, active, biosVars, rom, count, repeat_at>>

IsFile == song >= 10

(* Without the reset to one phrase and no loop. *)
A2ReadyStale ==
  /\ At("ready")
  /\ count'     = IF song = 0 THEN 14 ELSE count
  /\ repeat_at' = IF song = 0 THEN 1 ELSE repeat_at
  /\ IF IsFile
     THEN Goto("load_music") /\ UNCHANGED active
     ELSE Goto("leave") /\ active' = 1
  /\ UNCHANGED <<hostVars, song, phrase, biosVars, rom>>

(* The title loops from its second phrase on, an effect is one phrase. *)
A2Ready ==
  /\ At("ready")
  /\ count'     = IF song = 0 THEN 14 ELSE 1
  /\ repeat_at' = IF song = 0 THEN 1 ELSE OneShot
  /\ IF IsFile
     THEN Goto("load_music") /\ UNCHANGED active
     ELSE Goto("leave") /\ active' = 1
  /\ UNCHANGED <<hostVars, song, phrase, biosVars, rom>>

LoadMusic ==
  /\ At("load_music")
  /\ IF Music[song] = Bad
     THEN /\ Goto("dead")
          /\ UNCHANGED <<active, count, repeat_at>>
     ELSE /\ count' = Music[song]
          /\ repeat_at' = 0
          /\ active' = 1
          /\ Goto("leave")
  /\ UNCHANGED <<hostVars, song, phrase, biosVars, rom>>

(* jbe for jb. *)
A2SubmittedLate ==
  /\ At("submitted")
  /\ phrase' = IF phrase + 1 <= count \/ repeat_at = OneShot
               THEN phrase + 1
               ELSE repeat_at
  /\ Goto(IF phrase + 1 > count /\ repeat_at = OneShot THEN "finish" ELSE "done")
  /\ UNCHANGED <<hostVars, active, song, biosVars, rom, count, repeat_at>>

A2Submitted ==
  /\ At("submitted")
  /\ phrase' = IF phrase + 1 < count \/ repeat_at = OneShot
               THEN phrase + 1
               ELSE repeat_at
  /\ Goto(IF phrase + 1 >= count /\ repeat_at = OneShot THEN "finish" ELSE "done")
  /\ UNCHANGED <<hostVars, active, song, biosVars, rom, count, repeat_at>>

A2Handler ==
  \/ Kept(ReadCommand \/ Silence \/ Setup \/ StopPlaying \/ Leave)
  \/ A2Select
  \/ A2Ready
  \/ LoadMusic

A2Feed ==
  \/ Kept(EnterFeed \/ Poll \/ Submit \/ FeedFinish \/ FeedDone)
  \/ A2Submitted

A2Next ==
  \/ A2Handler
  \/ A2Feed
  \/ Kept(Boot \/ TakeCommand \/ Host \/ BiosTick)

A2Spec ==
  /\ A2Init /\ [][A2Next]_a2Vars
  /\ WF_a2Vars(Kept(Boot))
  /\ WF_a2Vars(A2Handler)
  /\ WF_a2Vars(A2Feed)
  /\ WF_a2Vars(Kept(BiosTick))
  /\ SF_a2Vars(Kept(TakeCommand))

-------------------------------------------------------------------------------
(***************************************************************************)
(* While a tune is active the handler's variables describe that tune and   *)
(* no earlier one.                                                         *)
(***************************************************************************)
CountIsOfSong ==
  active = 1 => count = Count[song] /\ repeat_at = Repeat[song]

(***************************************************************************)
(* Once hoot can see the player, only a music file load_music rejects can  *)
(* end it, and then it ends with every ring empty: no earlier tune plays   *)
(* on without a player that could stop it.                                 *)
(***************************************************************************)
DiesSilent ==
  [][pc' = "dead" /\ pc \notin BootPc \cup {"dead"} =>
       IsFile /\ Music[song] = Bad /\ ring = <<>>]_a2Vars
===============================================================================
