--------------------------------- MODULE MCD88 ---------------------------------
EXTENDS D88Client, TLC

Sector(c, h, r, n, bytes, have) == [id |-> <<c, h, r, n>>, size |-> bytes, have |-> have]
Track(t, n, records) ==
  [at |-> 1 + t, secs |-> [r \in 1 .. records |-> Sector(t \div 2, t % 2, r, n, 2^n, 2^n)]]
None == [at |-> 0, secs |-> <<>>]

\* Two records a track, all tracks formatted; a disk whose third track ends
\* early and holds a short sector, with a track past its end; a disk of one
\* track whose records are not in order.
Full == [size |-> 9, trk |-> [t \in 0 .. 3 |-> Track(t, 1, 2)]]
Odd == [size |-> 9, trk |-> [t \in 0 .. 3 |->
          CASE t = 0 -> Track(0, 1, 2)
            [] t = 1 -> [at |-> 2, secs |-> <<Sector(0, 1, 2, 1, 2, 2), Sector(0, 1, 1, 1, 1, 1)>>]
            [] t = 2 -> None
            [] t = 3 -> [at |-> 12, secs |-> <<Sector(1, 1, 1, 1, 2, 2)>>]]]
Zeroed == [Full EXCEPT !.size = 0]

MCImage == ("four" :> <<Full, Odd, Full, Full>>) @@ ("one" :> <<Odd>>) @@ ("zero" :> <<Zeroed>>)
MCSecSize == [n \in 0 .. 5 |-> 2^n]
MCSelections == {0, 1, 2}
MCRanges == {<<1, 2>>, <<1, 16>>}
MCReads == {[trk |-> 0, C |-> 0, H |-> 0, R |-> 2, N |-> 1, want |-> 9],
            [trk |-> 1, C |-> 0, H |-> 1, R |-> 2, N |-> 1, want |-> 4],
            [trk |-> 1, C |-> 1, H |-> 1, R |-> 1, N |-> 1, want |-> 3]}

(* The disks are ones of which the theorems about reads and lists hold. *)
ASSUME MCDisks == FewSectors /\ WholeSectors
================================================================================
