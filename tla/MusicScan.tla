------------------------------ MODULE MusicScan -------------------------------
(***************************************************************************)
(* load_music of a2_98.asm: the scan that finds the strings of a music     *)
(* file, one pointer per string, and the number of phrases they make.      *)
(*                                                                         *)
(* A byte is 0, the terminator 0b1h or any other one.  The sizes of the    *)
(* program (1024 bytes, 60 pointers, 6 strings to a phrase) are constants. *)
(***************************************************************************)
EXTENDS Integers, Sequences, FiniteSetsExt

CONSTANTS
  Bytes,       \* what a byte of a file may be
  Lengths,     \* how long a file may be
  BufferSize,  \* music: bytes
  PtrRoom,     \* ptrs: pointers
  Channels     \* pointers to a phrase

NUL == 0
TERMINATOR == \hb1

ASSUME MusicScanAssumption ==
  /\ Bytes \subseteq Nat
  /\ Lengths \subseteq Nat
  /\ BufferSize \in Nat
  /\ PtrRoom \in Nat
  /\ Channels \in Nat \ {0}

(* Whatever file the handler is given. *)
Files == UNION {[1 .. n -> Bytes] : n \in Lengths}

VARIABLES
  file,
  si,          \* the byte to look at, counted from 1
  ptrs,        \* where the strings found so far start
  count,
  pc

vars == <<file, si, ptrs, count, pc>>

Init ==
  /\ file \in Files
  /\ si = 1
  /\ ptrs = <<>>
  /\ count = 0
  /\ pc = "read"

Goto(label) == pc' = label
At(label) == pc = label
AtEnd == si > Len(file)

Read ==
  /\ At("read")
  /\ Goto(IF Len(file) \in 2 .. BufferSize - 1 THEN "scan" ELSE "fatal")
  /\ UNCHANGED <<file, si, ptrs, count>>

(* Without the test of the room in ptrs. *)
ScanUnbounded ==
  /\ At("scan")
  /\ IF AtEnd THEN Goto("fatal") /\ UNCHANGED ptrs
     ELSE IF file[si] = TERMINATOR THEN Goto("end") /\ UNCHANGED ptrs
     ELSE Goto("next") /\ ptrs' = Append(ptrs, si)
  /\ UNCHANGED <<file, si, count>>

Scan ==
  /\ At("scan")
  /\ IF AtEnd THEN Goto("fatal") /\ UNCHANGED ptrs
     ELSE IF file[si] = TERMINATOR THEN Goto("end") /\ UNCHANGED ptrs
     ELSE IF Len(ptrs) >= PtrRoom THEN Goto("fatal") /\ UNCHANGED ptrs
     ELSE Goto("next") /\ ptrs' = Append(ptrs, si)
  /\ UNCHANGED <<file, si, count>>

(* A jump back to the loop where the end is found. *)
SkipByteForever ==
  /\ At("next")
  /\ IF AtEnd
     THEN UNCHANGED <<si, pc>>
     ELSE /\ si' = si + 1
          /\ Goto(IF file[si] = NUL THEN "scan" ELSE "next")
  /\ UNCHANGED <<file, ptrs, count>>

SkipByte ==
  /\ At("next")
  /\ IF AtEnd
     THEN Goto("fatal") /\ UNCHANGED si
     ELSE /\ si' = si + 1
          /\ Goto(IF file[si] = NUL THEN "scan" ELSE "next")
  /\ UNCHANGED <<file, ptrs, count>>

(* Without the comparison of the end with the bytes read. *)
EndAnywhere ==
  /\ At("end")
  /\ LET phrases == Len(ptrs) \div Channels
     IN  IF Len(ptrs) % Channels = 0 /\ phrases >= 2
         THEN count' = phrases /\ Goto("loaded")
         ELSE UNCHANGED count /\ Goto("fatal")
  /\ UNCHANGED <<file, si, ptrs>>

End ==
  /\ At("end")
  /\ LET phrases == Len(ptrs) \div Channels
     IN  IF /\ si + 1 = Len(file)
            /\ file[si + 1] = NUL
            /\ Len(ptrs) % Channels = 0
            /\ phrases >= 2
         THEN count' = phrases /\ Goto("loaded")
         ELSE UNCHANGED count /\ Goto("fatal")
  /\ UNCHANGED <<file, si, ptrs>>

Next == Read \/ Scan \/ SkipByte \/ End

Spec == Init /\ [][Next]_vars /\ WF_vars(Next)

-------------------------------------------------------------------------------
(* The format, said without a scan: strings that end in NUL, none of them  *)
(* beginning with the terminator, then the terminator and a last NUL.      *)
Starts(f) == {i \in 1 .. Len(f) : i = 1 \/ f[i - 1] = NUL}

Terminators(f) == {i \in Starts(f) : f[i] = TERMINATOR}

Strings(f) == {i \in Starts(f) : \A t \in Terminators(f) : i < t}

WellFormed(f) ==
  /\ Len(f) < BufferSize
  /\ Terminators(f) # {}
  /\ Min(Terminators(f)) = Len(f) - 1
  /\ f[Len(f)] = NUL
  /\ \E n \in 2 .. PtrRoom \div Channels : Cardinality(Strings(f)) = Channels * n

(***************************************************************************)
(* The scan accepts exactly the well-formed files, with the right count.   *)
(***************************************************************************)
AcceptsTheFormat ==
  /\ At("loaded") => WellFormed(file) /\ Channels * count = Cardinality(Strings(file))
  /\ At("fatal") => ~WellFormed(file)

(***************************************************************************)
(* The pointers are the starts of the file's strings, in order, and never  *)
(* more than ptrs has room for, whatever the file.                         *)
(***************************************************************************)
PointersAreStarts ==
  /\ Len(ptrs) <= PtrRoom
  /\ \A i, j \in 1 .. Len(ptrs) : i < j => ptrs[i] < ptrs[j]
  /\ {ptrs[i] : i \in 1 .. Len(ptrs)} \subseteq Strings(file)
  /\ At("loaded") => Len(ptrs) = Cardinality(Strings(file))

(***************************************************************************)
(* Every scan comes to an end.                                             *)
(***************************************************************************)
Terminates == <>(pc \in {"loaded", "fatal"})
===============================================================================
