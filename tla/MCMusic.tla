--------------------------------- MODULE MCMusic ---------------------------------
(* The two parts of the Artdink drivers that run to their end on what they *)
(* are given: the scan of a music file by load_music (MusicScan), and the  *)
(* walk of feed over the pointers of a phrase (PhrasePointers). One run is *)
(* of one of them; the other stays as it is.                               *)
EXTENDS MusicScan

VARIABLES
  part,                      \* which of them runs
  game, song, phrase, at, left, stack

Pointers == INSTANCE PhrasePointers WITH si <- at

walk == <<game, song, phrase, at, left, stack>>
mcvars == <<part, vars, walk>>

MCInit ==
  \/ part = "scan" /\ Init /\ game = 0 /\ song = 0 /\ phrase = 0 /\ at = 0 /\ left = 0 /\ stack = 0
  \/ part = "walk" /\ Pointers!Init /\ file = <<>> /\ si = 1 /\ ptrs = <<>> /\ count = 0 /\ pc = "fatal"

MCNext ==
  \/ part = "scan" /\ Next /\ UNCHANGED <<part, walk>>
  \/ part = "walk" /\ Pointers!Next /\ UNCHANGED <<part, vars>>

MCSpec == MCInit /\ [][MCNext]_mcvars /\ WF_mcvars(MCNext)

(* play gets its twelve words in the order of its parameters, for every    *)
(* phrase of every tune of the four games, none of them from outside the   *)
(* game's tables.                                                          *)
RightArguments == part = "walk" => Pointers!RightArguments
==================================================================================
