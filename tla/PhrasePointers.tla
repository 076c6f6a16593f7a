---------------------------- MODULE PhrasePointers ----------------------------
(***************************************************************************)
(* How feed turns <<song, phrase>> into the call of the game's play        *)
(* routine, in the four Artdink players.  play takes 1 and six far         *)
(* pointers, one MML string per channel; feed pushes their twelve words    *)
(* from the last to the first, out of the game's pointer tables, and the   *)
(* empty string for the channels a tune does not use.                      *)
(*                                                                         *)
(* A pushed word is the address it is read from, or one of two literals.   *)
(***************************************************************************)
EXTENDS ArtdinkTracks, Sequences, FiniteSets

Games == {"a2", "a3", "arctic", "fsm"}

DS    == -1     \* push ds
EMPTY == -2     \* push the offset of the game's empty string

VARIABLES
  game, song, phrase,
  si,           \* the table word to push next
  left,         \* table words to push; a3: channels to push
  stack         \* the words pushed, the last one first

vars == <<game, song, phrase, si, left, stack>>

Empties(n) == [i \in 1 .. 2 * n |-> IF i % 2 = 1 THEN EMPTY ELSE DS]

-------------------------------------------------------------------------------
(* The frame a game starts from: where its walk begins, how many words it  *)
(* takes from the table, and the empty channels pushed before them.        *)

Frame(at, words, empties) == [si |-> at, left |-> words, stack |-> Empties(empties)]

(* The title has twelve words to a phrase; an effect one pointer; a file   *)
(* the twelve words load_music made.                                       *)
A2Ptrs == \h10000
A2Frame(s, n) ==
  CASE s = 0       -> Frame(n * 24 + \h1d1e + 22, 12, 0)
    [] s \in 1 .. 9 -> Frame((s - 1) * 4 + \h1e6e + 2, 2, 5)
    [] s >= 10     -> Frame(n * 24 + A2Ptrs + 22, 12, 0)

(* FM only: three pointers to a phrase, or one. *)
ArcticFrame(s, n) ==
  LET at == Arctic_tracks[s].base + n * 12
  IN  IF s < 3 THEN Frame(at + 10, 6, 3) ELSE Frame(at + 2, 2, 5)

(* Without the subtraction of the twelve phrases before the change. *)
FsmFrameUnshifted(s, n) ==
  CASE s >= 3            -> Frame((s - 3) * 12 + \h83fa + 10, 6, 3)
    [] s = 0             -> Frame(n * 24 + \h812a + 22, 12, 0)
    [] s = 1 /\ n < 12   -> Frame(n * 24 + \h824a + 22, 12, 0)
    [] s = 1 /\ n >= 12  -> Frame(n * 24 + \h8382 + 22, 12, 0)
    [] s = 2             -> Frame(n * 24 + \h836a + 22, 12, 0)

(* Song 1 changes its table at phrase 12. *)
FsmFrame(s, n) ==
  CASE s >= 3            -> Frame((s - 3) * 12 + \h83fa + 10, 6, 3)
    [] s = 0             -> Frame(n * 24 + \h812a + 22, 12, 0)
    [] s = 1 /\ n < 12   -> Frame(n * 24 + \h824a + 22, 12, 0)
    [] s = 1 /\ n >= 12  -> Frame((n - 12) * 24 + \h8382 + 22, 12, 0)
    [] s = 2             -> Frame(n * 24 + \h836a + 22, 12, 0)

(* a3: bit c of the mask says whether channel c has a pointer. *)
HasPointer(s, c) == (A3_tracks[s].mask \div 2 ^ c) % 2 = 1
PhraseBytes(s) == 4 * Cardinality({c \in 0 .. 5 : HasPointer(s, c)})

(* From the word after the phrase. *)
A3FrameAfter(s, n) ==
  Frame(A3_tracks[s].base + n * PhraseBytes(s) + PhraseBytes(s), 6, 0)

A3Frame(s, n) ==
  Frame(A3_tracks[s].base + n * PhraseBytes(s) + PhraseBytes(s) - 2, 6, 0)

Tunes ==
  {<<"a2", 0, n>> : n \in 0 .. 13}
    \cup {<<"a2", s, 0>> : s \in 1 .. 5}
    \cup {<<"a2", s, n>> : s \in 10 .. 14, n \in 0 .. 9}
    \cup {<<"a3", s, n>> : s \in 0 .. 36, n \in 0 .. 12}
    \cup {<<"arctic", s, n>> : s \in 0 .. 4, n \in 0 .. 39}
    \cup {<<"fsm", 0, n>> : n \in 0 .. 11}
    \cup {<<"fsm", 1, n>> : n \in 0 .. 16}
    \cup {<<"fsm", 2, n>> : n \in 0 .. 5}
    \cup {<<"fsm", s, 0>> : s \in 3 .. 27}

InTable(t) ==
  /\ t[1] = "a3" => t[3] < A3_tracks[t[2]].count
  /\ t[1] = "arctic" => t[3] < Arctic_tracks[t[2]].count

FrameOf(t) ==
  CASE t[1] = "a2"     -> A2Frame(t[2], t[3])
    [] t[1] = "a3"     -> A3Frame(t[2], t[3])
    [] t[1] = "arctic" -> ArcticFrame(t[2], t[3])
    [] t[1] = "fsm"    -> FsmFrame(t[2], t[3])

Init ==
  \E t \in Tunes :
    /\ InTable(t)
    /\ game = t[1] /\ song = t[2] /\ phrase = t[3]
    /\ si = FrameOf(t).si
    /\ left = FrameOf(t).left
    /\ stack = FrameOf(t).stack

PushWord ==
  /\ game # "a3"
  /\ left > 0
  /\ stack' = <<si>> \o stack
  /\ si' = si - 2
  /\ left' = left - 1
  /\ UNCHANGED <<game, song, phrase>>

(* The a3 loop goes from the last channel to the first. *)
PushChannel ==
  /\ game = "a3"
  /\ left > 0
  /\ IF HasPointer(song, left - 1)
     THEN stack' = <<si - 2, si>> \o stack /\ si' = si - 4
     ELSE stack' = <<EMPTY, DS>> \o stack /\ UNCHANGED si
  /\ left' = left - 1
  /\ UNCHANGED <<game, song, phrase>>

Next == PushWord \/ PushChannel

Spec == Init /\ [][Next]_vars

-------------------------------------------------------------------------------
Done == left = 0

Argument(c) == <<stack[2 * c + 1], stack[2 * c + 2]>>

(* The channels a tune has: all six of a song or a file, the FM channels   *)
(* of Arctic, the masked ones of A3, the first one for an effect of A2.    *)
ChannelsOfTune ==
  CASE game = "a2" /\ song \in 1 .. 5 -> {0}
    [] game = "a3"                    -> {c \in 0 .. 5 : HasPointer(song, c)}
    [] game = "arctic"                -> IF song < 3 THEN {0, 1, 2} ELSE {0}
    [] game = "fsm" /\ song >= 3      -> {0, 1, 2}
    [] OTHER                          -> 0 .. 5

(* Where the pointers of the phrase start: the tables lie one after the    *)
(* other, and the loop of fsm's song 1 is song 2 without its first phrase. *)
PhraseStart ==
  LET size == 4 * Cardinality(ChannelsOfTune)
  IN  CASE game = "a2" /\ song = 0     -> \h1d1e + size * phrase
        [] game = "a2" /\ song \in 1 .. 5 -> \h1d1e + 14 * 24 + size * (song - 1)
        [] game = "a2" /\ song >= 10   -> A2Ptrs + size * phrase
        [] game = "a3"                 -> A3_tracks[song].base + size * phrase
        [] game = "arctic"             -> Arctic_tracks[song].base + size * phrase
        [] game = "fsm" /\ song = 0    -> \h812a + size * phrase
        [] game = "fsm" /\ song = 1    ->
             \h812a + size * (IF phrase < 12 THEN 12 + phrase ELSE 13 + phrase)
        [] game = "fsm" /\ song = 2    -> \h812a + size * (24 + phrase)
        [] game = "fsm" /\ song >= 3   -> \h812a + 30 * 24 + size * (song - 3)

(* The game's pointer tables, which end where the empty string begins (a3: *)
(* begin after it).                                                        *)
Tables ==
  CASE game = "a2"     -> (\h1d1e .. \h1e81) \cup (A2Ptrs .. A2Ptrs + 239)
    [] game = "a3"     -> \h7756 .. \h7b61
    [] game = "arctic" -> \h12de .. \h1531
    [] game = "fsm"    -> \h812a .. \h8525

(* No phrase of a tune reads past them, also while they are being pushed. *)
InTables ==
  \A i \in 1 .. Len(stack) : stack[i] \notin {DS, EMPTY} => stack[i] \in Tables

(***************************************************************************)
(* play gets its twelve words in the order of its parameters: for every    *)
(* channel the tune has a whole pointer, offset before segment, channel    *)
(* after channel from the phrase's first pointer; for the others the       *)
(* empty string. No phrase reads past the game's tables.                   *)
(***************************************************************************)
RightArguments ==
  /\ InTables
  /\ Done =>
      /\ Len(stack) = 12
      /\ \A c \in 0 .. 5 :
           LET at == PhraseStart + 4 * Cardinality({d \in ChannelsOfTune : d < c})
           IN  Argument(c) = IF c \in ChannelsOfTune THEN <<at, at + 2>> ELSE <<EMPTY, DS>>
===============================================================================
