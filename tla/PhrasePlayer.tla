----------------------------- MODULE PhrasePlayer -----------------------------
(***************************************************************************)
(* What a phrase feeder promises, without saying how.                      *)
(*                                                                         *)
(* A tune is a table of phrases.  The player owns the queue the Sound BIOS *)
(* plays from and keeps one number: the phrase to queue next, or None when *)
(* there is nothing to queue.  The promise is in the actions: a tune       *)
(* begins at its first phrase and into an empty queue, phrases are queued  *)
(* in the order of the tune's table with its loop, a cut empties the queue *)
(* and leaves nothing to queue, and giving up queues nothing more.         *)
(***************************************************************************)
EXTENDS Integers, Sequences

CONSTANTS
  Songs,     \* the tunes of the game
  Count,     \* Count[s]: the phrases of tune s
  Repeat,    \* Repeat[s]: the phrase a loop returns to, or OneShot
  OneShot,   \* a tune that ends after its last phrase
  None       \* no phrase

VARIABLES
  next,      \* the phrase to queue next
  ring       \* the phrases queued and not yet played to their end

vars == <<next, ring>>

Phrases == Songs \X Nat

(* The phrase after p in its tune. *)
Succ(p) ==
  LET s == p[1]
      n == p[2] + 1
  IN  IF n < Count[s]           THEN <<s, n>>
      ELSE IF Repeat[s] # OneShot THEN <<s, Repeat[s]>>
      ELSE None

Init ==
  /\ next = None
  /\ ring = <<>>

Begin(s) ==
  /\ next = None
  /\ ring = <<>>
  /\ next' = <<s, 0>>
  /\ UNCHANGED ring

Queue ==
  /\ next # None
  /\ ring' = Append(ring, next)
  /\ next' = Succ(next)

GiveUp ==
  /\ next' = None
  /\ UNCHANGED ring

Cut ==
  /\ next' = None
  /\ ring' = <<>>

(* The Sound BIOS has played the oldest phrase to its end. *)
Finish ==
  /\ ring # <<>>
  /\ ring' = Tail(ring)
  /\ UNCHANGED next

Next ==
  \/ \E s \in Songs : Begin(s)
  \/ Queue
  \/ GiveUp
  \/ Cut
  \/ Finish

Spec == Init /\ [][Next]_vars

(***************************************************************************)
(* The queue is a run of one tune in the order of its table, loops         *)
(* included, and what is queued next continues that run.                   *)
(***************************************************************************)
Contiguous ==
  /\ \A i \in 1 .. Len(ring) - 1 : ring[i + 1] = Succ(ring[i])
  /\ next # None /\ ring # <<>> => next = Succ(ring[Len(ring)])
===============================================================================
