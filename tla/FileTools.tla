------------------------------- MODULE FileTools -------------------------------
(***************************************************************************)
(* The tools that make one file of another or of itself: scut and hcut cut *)
(* a part out, patscbios patches a byte of SCBIOS, gaia_dec and dbneg turn *)
(* every byte over, decrypt unpacks a resource (LzwDecode). Three of them  *)
(* write over their input, two after giving it another name. A run may be  *)
(* interrupted anywhere, and the tool run again on what is there.          *)
(*                                                                         *)
(* Abstracted: what patscbios looks for is one byte each; a file's bytes   *)
(* are on the disk when it is closed, or some of them when the run is      *)
(* interrupted.                                                            *)
(***************************************************************************)
EXTENDS Integers, Sequences, SequencesExt, FiniteSets

CONSTANTS
  Inputs,       \* the runs: a tool, its arguments, the disk, what fails the first time
  RUNS,         \* how often a tool is run
  READSIZE,     \* bytes hcut reads at a time: 2^20
  Unpacked(_),  \* what decrypt1 makes of a resource
  BitXor(_, _)  \* the exclusive or of two bytes

VARIABLES
  input,
  files,     \* the files there are
  run, pc,
  before,    \* the files when this run began
  disturbed, \* the runs in which something failed, or that were interrupted
  buf, pos,  \* what was read; where hcut reads on
  pending,   \* bytes written to a file not yet closed
  ret

vars == <<input, files, run, pc, before, disturbed, buf, pos, pending, ret>>

prog == input.prog
in == "in"
out == input.out
ORG == "org"

-------------------------------------------------------------------------------
(* What the tools make of a file. *)

(* Where the bytes are is where they are found, but for the first place,   *)
(* and if there are enough behind it.                                      *)
Found(p) == p # 0 /\ Len(buf) - p >= 3 /\ Len(buf) - p >= input.size

(* The comparison at the end of the file goes on behind the buffer.        *)
Certainly(p) == p + Len(input.pattern) <= Len(buf) /\ SubSeq(buf, p + 1, p + Len(input.pattern)) = input.pattern
Possibly(p) ==
  \A k \in DOMAIN input.pattern : p + k <= Len(buf) => buf[p + k] = input.pattern[k]
Hits ==
  {p \in 0 .. Len(buf) - 1 : Possibly(p) /\ \A q \in 0 .. p - 1 : ~Certainly(q)}

Cuttings ==
  {IF Found(p) THEN SubSeq(buf, p + 1, p + input.size) ELSE <<>> : p \in Hits}
  \cup (IF \E p \in Hits : Certainly(p) THEN {} ELSE {<<>>})

PATTERN == 30
PATTERN2 == 31
RETN == \hC3

search_bin2(v) ==
  IF \E p \in DOMAIN buf : buf[p] = v
  THEN (CHOOSE p \in DOMAIN buf : buf[p] = v /\ \A q \in 1 .. p - 1 : buf[q] # v) - 1
  ELSE 0
search_bin == IF search_bin2(PATTERN) # 0 THEN search_bin2(PATTERN) ELSE search_bin2(PATTERN2)

dec_val == CASE input.num = 1 -> \h55 [] input.num = 2 -> \hAA [] input.num = 3 -> \h5F [] OTHER -> \hFF

Patched == [buf EXCEPT ![search_bin + 1] = RETN]
(* Mutant: the value is added.                                             *)
DecodedBySum == [k \in DOMAIN buf |-> (buf[k] + dec_val) % 256]

Decoded == [k \in DOMAIN buf |-> BitXor(buf[k], dec_val)]

(* Mutant: the negation of nothing is one too wide for a byte.             *)
NegatedWide == [k \in DOMAIN buf |-> 256 - buf[k]]

Negated == [k \in DOMAIN buf |-> (256 - buf[k]) % 256]

-------------------------------------------------------------------------------
(* A run. *)

Init ==
  /\ input \in Inputs
  /\ files = input.files /\ before = input.files
  /\ run = 1 /\ pc = "start" /\ disturbed = {}
  /\ buf = <<>> /\ pos = 0 /\ pending = <<>> /\ ret = 0

Fails(what) == run = 1 /\ what \in input.fails
Disturb == disturbed' = disturbed \cup {run}

Return(code) == pc' = "done" /\ ret' = code

(* scut takes zeroes for a wrong number, a negative size for a large one;  *)
(* hcut takes no head of no bytes.                                         *)
BadArgument == (prog = "scut" /\ input.size = 0) \/ (prog = "hcut" /\ input.head = 0)

Refuse ==
  /\ pc = "start"
  /\ BadArgument \/ in \notin DOMAIN files
  /\ Return(IF ~BadArgument /\ prog = "scut" THEN -2 ELSE -1)
  /\ UNCHANGED <<input, files, run, before, disturbed, buf, pos, pending>>

(* Mutant: the file is cut before its length is known to be enough.        *)
ShortHeadLate ==
  /\ pc = "start" /\ ~BadArgument /\ in \in DOMAIN files
  /\ prog = "hcut" /\ input.head >= Len(files[in])
  /\ Return(-2)
  /\ files' = [f \in DOMAIN files \cup {out} |-> IF f = out THEN <<>> ELSE files[f]]
  /\ UNCHANGED <<input, run, before, disturbed, buf, pos, pending>>

ShortHead ==
  /\ pc = "start" /\ ~BadArgument /\ in \in DOMAIN files
  /\ prog = "hcut" /\ input.head >= Len(files[in])
  /\ Return(-2)
  /\ UNCHANGED <<input, files, run, before, disturbed, buf, pos, pending>>

LongEnough == prog = "hcut" => input.head < Len(files[in])

(* Without memory, gaia_dec, dbneg and decrypt read to nowhere.            *)
NoMemory ==
  /\ pc = "start" /\ ~BadArgument /\ in \in DOMAIN files /\ LongEnough
  /\ Fails("memory")
  /\ CASE prog \in {"scut", "hcut"} -> Return(-3)
       [] prog = "patscbios" -> Return(-2)
       [] OTHER -> pc' = "crash" /\ UNCHANGED ret
  /\ Disturb
  /\ UNCHANGED <<input, files, run, before, buf, pos, pending>>

Read ==
  /\ pc = "start" /\ ~BadArgument /\ in \in DOMAIN files /\ LongEnough
  /\ ~Fails("memory")
  /\ buf' = IF prog = "hcut" THEN <<>> ELSE files[in]
  /\ pos' = IF prog = "hcut" THEN input.head ELSE 0
  /\ pc' = IF prog = "patscbios" THEN "search" ELSE IF prog = "decrypt" THEN "rename" ELSE "create"
  /\ UNCHANGED <<input, files, run, before, disturbed, pending, ret>>

Search ==
  /\ pc = "search"
  /\ IF search_bin # 0 THEN pc' = "rename" /\ UNCHANGED ret ELSE Return(0)
  /\ UNCHANGED <<input, files, run, before, disturbed, buf, pos, pending>>

(* Nobody looks whether the renaming succeeds, which on some systems it    *)
(* does not when the name is taken. Mutant: the input's copy is made last. *)
RenameNothing ==
  /\ pc = "rename"
  /\ pc' = "create"
  /\ UNCHANGED <<input, files, run, before, disturbed, buf, pos, pending, ret>>

Rename ==
  /\ pc = "rename"
  /\ files' = IF ORG \in DOMAIN files /\ ~input.replaces THEN files
              ELSE [f \in (DOMAIN files \ {in}) \cup {ORG} |-> IF f = ORG THEN files[in] ELSE files[f]]
  /\ pc' = "create"
  /\ UNCHANGED <<input, run, before, disturbed, buf, pos, pending, ret>>

(* scut closes its input a second time on this way out.                    *)
CannotCreate ==
  /\ pc = "create" /\ Fails("create")
  /\ CASE prog = "scut" -> Return(-4) \/ (pc' = "crash" /\ UNCHANGED ret)
       [] prog = "hcut" -> Return(-4)
       [] prog \in {"gaia", "decrypt"} -> Return(-2)
       [] prog = "dbneg" -> Return(0)
       [] prog = "patscbios" -> pc' = "crash" /\ UNCHANGED ret
  /\ Disturb
  /\ UNCHANGED <<input, files, run, before, buf, pos, pending>>

Create ==
  /\ pc = "create" /\ ~Fails("create")
  /\ files' = [f \in DOMAIN files \cup {out} |-> IF f = out THEN <<>> ELSE files[f]]
  /\ pending' = <<>>
  /\ pc' = IF prog = "hcut" THEN "copy" ELSE "write"
  /\ UNCHANGED <<input, run, before, disturbed, buf, pos, ret>>

Outputs ==
  CASE prog = "scut" -> Cuttings [] prog = "patscbios" -> {Patched} [] prog = "gaia" -> {Decoded}
    [] prog = "dbneg" -> {Negated} [] prog = "decrypt" -> {Unpacked(buf)}

(* Whether all was written is only said, if at all.                        *)
Write ==
  /\ pc = "write"
  /\ \E made \in Outputs :
       \E n \in IF Fails("write") THEN 0 .. Len(made) ELSE {Len(made)} :
         /\ pending' = SubSeq(made, 1, n)
         /\ IF n = Len(made) THEN UNCHANGED disturbed ELSE Disturb
  /\ pc' = "close"
  /\ UNCHANGED <<input, files, run, before, buf, pos, ret>>

Chunk == SubSeq(files[in], pos + 1, Min({Len(files[in]), pos + READSIZE}))

(* Mutant: what is read is written as long as a whole buffer was.          *)
CopyWholeChunks ==
  /\ pc = "copy"
  /\ IF Len(Chunk) < READSIZE THEN pc' = "close" /\ UNCHANGED <<pos, pending, disturbed>>
     ELSE pending' = pending \o Chunk /\ pos' = pos + Len(Chunk) /\ UNCHANGED <<pc, disturbed>>
  /\ UNCHANGED <<input, files, run, before, buf, ret>>

(* Mutant: the end of the file is no reason to stop.                       *)
CopyForEver ==
  /\ pc = "copy"
  /\ pending' = pending \o Chunk /\ pos' = pos + Len(Chunk)
  /\ UNCHANGED <<pc, disturbed, input, files, run, before, buf, ret>>

Copy ==
  /\ pc = "copy"
  /\ IF Chunk = <<>> THEN pc' = "close" /\ UNCHANGED <<pos, pending, disturbed>>
     ELSE \E n \in IF Fails("write") THEN 0 .. Len(Chunk) ELSE {Len(Chunk)} :
            /\ pending' = pending \o SubSeq(Chunk, 1, n)
            /\ pos' = pos + Len(Chunk)
            /\ pc' = IF n = Len(Chunk) THEN pc ELSE "close"
            /\ IF n = Len(Chunk) THEN UNCHANGED disturbed ELSE Disturb
  /\ UNCHANGED <<input, files, run, before, buf, ret>>

(* scut closes its input a second time before it closes its output.        *)
Close ==
  /\ pc = "close"
  /\ \/ files' = [files EXCEPT ![out] = pending] /\ Return(0) /\ UNCHANGED disturbed
     \/ prog = "scut" /\ pc' = "crash" /\ Disturb /\ UNCHANGED <<files, ret>>
  /\ UNCHANGED <<input, run, before, buf, pos, pending>>

(* A crash, or the plug pulled: some of what was written may be there.     *)
Interrupt ==
  /\ pc \in {"search", "rename", "create", "write", "copy", "close"}
  /\ pc' = "crash" /\ Disturb
  /\ IF pc \in {"copy", "close"}
     THEN \E n \in 0 .. Len(pending) : files' = [files EXCEPT ![out] = SubSeq(pending, 1, n)]
     ELSE UNCHANGED files
  /\ UNCHANGED <<input, run, before, buf, pos, pending, ret>>

RunAgain ==
  /\ pc \in {"done", "crash"} /\ run < RUNS
  /\ run' = run + 1 /\ pc' = "start" /\ before' = files
  /\ buf' = <<>> /\ pos' = 0 /\ pending' = <<>> /\ ret' = 0
  /\ UNCHANGED <<input, files, disturbed>>

Step ==
  \/ Refuse \/ ShortHead \/ NoMemory \/ Read \/ Search \/ Rename \/ CannotCreate \/ Create
  \/ Write \/ Copy \/ Close \/ RunAgain

Next == Step \/ Interrupt

Spec == Init /\ [][Next]_vars /\ WF_vars(Step)

(* What the tools are run on. Three of them write over their input, the    *)
(* others if they are told to.                                             *)
RunsAreOfTools ==
  /\ READSIZE \in Nat \ {0}
  /\ \A x \in Inputs :
       /\ x.prog \in {"scut", "hcut", "patscbios", "gaia", "dbneg", "decrypt"}
       /\ x.out \in IF x.prog \in {"patscbios", "gaia", "decrypt"} THEN {in} ELSE {in, "out"}
       /\ in \in DOMAIN x.files => x.files[in] \in Seq(0 .. 255)
       /\ x.pattern \in Seq(0 .. 255) /\ x.size \in Nat /\ x.head \in Nat

XorUndoesItself == \A a, b \in 0 .. 255 : BitXor(a, b) \in 0 .. 255 /\ BitXor(BitXor(a, b), b) = a
UnpacksToBytes(S) == \A x \in S : Unpacked(x) \in Seq(0 .. 255)

-------------------------------------------------------------------------------
(* Properties. *)

IsFile(x) == \A k \in DOMAIN x : x[k] \in 0 .. 255

TypeOK ==
  /\ DOMAIN files \subseteq {"in", "out", ORG}
  /\ \A f \in DOMAIN files : IsFile(files[f])
  /\ pc \in {"start", "search", "rename", "create", "write", "copy", "close", "done", "crash"}
  /\ run \in 1 .. RUNS /\ disturbed \subseteq 1 .. RUNS
  /\ IsFile(buf) /\ IsFile(pending) /\ pos \in Nat
  /\ ret \in -4 .. 0

Original == input.files[in]
Renames == prog \in {"patscbios", "decrypt"}

Occurrences(x) ==
  {p \in 0 .. Len(x) - Len(input.pattern) : SubSeq(x, p + 1, p + Len(input.pattern)) = input.pattern}
Patterns(x, v) == {p \in 2 .. Len(x) : x[p] = v}
BothPatterns(x) == Patterns(x, PATTERN) \cup Patterns(x, PATTERN2)

(* patscbios has nothing (more) to patch, or does not see it behind a      *)
(* pattern that stands at the very beginning.                              *)
Settled(x) == \A v \in {PATTERN, PATTERN2} : Patterns(x, v) = {} \/ x[1] = v

(* The file the tool is for.                                               *)
Wanted(x) ==
  CASE prog = "scut" ->
         LET p == Min(Occurrences(x)) IN SubSeq(x, p + 1, p + input.size)
    [] prog = "hcut" -> SubSeq(x, input.head + 1, Len(x))
    [] prog = "patscbios" ->
         IF Patterns(x, PATTERN) # {} THEN [x EXCEPT ![Min(Patterns(x, PATTERN))] = RETN]
         ELSE IF Patterns(x, PATTERN2) # {} THEN [x EXCEPT ![Min(Patterns(x, PATTERN2))] = RETN]
         ELSE x
    [] prog = "gaia" -> [k \in DOMAIN x |-> BitXor(x[k], dec_val)]
    [] prog = "dbneg" -> [k \in DOMAIN x |-> IF x[k] = 0 THEN 0 ELSE 256 - x[k]]
    [] prog = "decrypt" -> Unpacked(x)

Enough(x) ==
  \E p \in Occurrences(x) : p = Min(Occurrences(x)) /\ Len(x) - p >= 3 /\ Len(x) - p >= input.size
Applies(x) ==
  CASE prog = "scut" -> Enough(x) /\ Min(Occurrences(x)) # 0
    [] prog = "hcut" -> out # in
    [] prog = "patscbios" -> x # <<>> => x[1] \notin {PATTERN, PATTERN2}
    [] OTHER -> TRUE

(* All it may make of a file, also where it is of no use: hcut told to     *)
(* write over its input empties it before it reads.                        *)
Makes(x) ==
  CASE prog = "scut" -> {SubSeq(x, p + 1, p + input.size) : p \in 1 .. Len(x) - input.size}
    [] prog = "hcut" -> IF out = in THEN {} ELSE {Wanted(x)}
    [] prog = "patscbios" -> {[x EXCEPT ![p] = RETN] : p \in BothPatterns(x)}
    [] OTHER -> {Wanted(x)}

Starts(x) == {SubSeq(x, 1, n) : n \in 0 .. Len(x)}
Beginnings(x) == {<<>>} \cup UNION {Starts(y) : y \in Makes(x)}

(* What a run found as its input, and that it can give it no other name.   *)
Given == before[in]
NameTaken == ORG \in DOMAIN before /\ ~input.replaces

(* What a run does to the files it found, at every moment of it and        *)
(* wherever it fails or is interrupted. Without an input, or with nothing  *)
(* to patch, it changes none. An input that is not the output stays as it  *)
(* was. One that is renamed is there under one name or the other, unless   *)
(* the second name was taken and is not replaced. The output is what it    *)
(* was, or a beginning of what the tool makes of its input; where no copy  *)
(* is made (gaia_dec; scut, hcut and dbneg told to write over their input; *)
(* a name that is taken) that is all there is of the input. No other file  *)
(* changes, but one renamed over.                                          *)
EachRunKeeps ==
  IF in \notin DOMAIN before \/ (prog = "patscbios" /\ Settled(Given)) THEN files = before
  ELSE
  /\ out # in => in \in DOMAIN files /\ files[in] = Given
  /\ (Renames /\ ~NameTaken) => \E f \in {in, ORG} : f \in DOMAIN files /\ files[f] = Given
  /\ (out = in /\ (Renames => NameTaken)) => in \in DOMAIN files
  /\ out \in DOMAIN files => (out \in DOMAIN before /\ files[out] = before[out]) \/ files[out] \in Beginnings(Given)
  /\ ORG \in DOMAIN files => (ORG \in DOMAIN before /\ files[ORG] = before[ORG]) \/ (Renames /\ files[ORG] = Given)
  /\ \A f \in DOMAIN before \ {in, out} :
       f \in DOMAIN files /\ (files[f] = before[f] \/ (Renames /\ f = ORG /\ input.replaces))

(* What is left of the first input after any number of runs, disturbed or  *)
(* not. It is whole if the output has another name. What gaia_dec, or      *)
(* dbneg in place, leaves is a beginning of it or of its decoding, never   *)
(* of anything else. What is renamed is whole under one of its names, but  *)
(* where renaming replaces and a second run renames again: decrypt always, *)
(* patscbios on a file with more than one pattern.                         *)
OriginalIsKept ==
  in \in DOMAIN input.files =>
    /\ out # in => in \in DOMAIN files /\ files[in] = Original
    /\ prog = "gaia" \/ (prog = "dbneg" /\ out = in) =>
         in \in DOMAIN files /\ files[in] \in Starts(Original) \cup Starts(Wanted(Original))
    /\ (Renames /\ ORG \notin DOMAIN input.files) =>
         \/ \E f \in DOMAIN files : files[f] = Original
         \/ /\ run > 1 /\ input.replaces
            /\ prog = "decrypt" \/ \E p, q \in BothPatterns(Original) : p # q

(* A tool that says it did not do its work has left every file as it was,  *)
(* but for the name decrypt gave its input.                                *)
RefusalLeavesNoTrace ==
  (pc = "done" /\ ret # 0) =>
    \/ files = before
    \/ prog = "decrypt" /\ ret = -2 /\ files[ORG] = before[in]

(* A run that nothing disturbs makes the file it is for, be it the first   *)
(* or one on what another has left, unless what it looks for stands at the *)
(* very beginning.                                                         *)
DoesItsWork ==
  (pc = "done" /\ ret = 0 /\ run \notin disturbed /\ in \in DOMAIN before /\ Applies(Given)) =>
    out \in DOMAIN files /\ files[out] = Wanted(Given)

(* What two runs leave that nothing disturbs. The second decoding is the   *)
(* undoing of the first. A second run of patscbios patches the pattern the *)
(* first has left, if there is one; it then renames again, as decrypt does *)
(* every time, and where that replaces, the copy is of what the first run  *)
(* has made and the original is gone.                                      *)
Renaming(x) == prog = "decrypt" \/ Wanted(x) # x

TwiceRun ==
  (run = 2 /\ pc = "done" /\ ret = 0 /\ disturbed = {} /\ in \in DOMAIN input.files) =>
    /\ prog = "gaia" \/ (prog = "dbneg" /\ out = in) => files[in] = Original
    /\ (Renames /\ Applies(Original) /\ ORG \notin DOMAIN input.files) =>
         LET once == Wanted(Original)
         IN  /\ in \in DOMAIN files /\ files[in] = Wanted(once)
             /\ IF Renaming(Original)
                THEN ORG \in DOMAIN files
                     /\ files[ORG] = IF Renaming(once) /\ input.replaces THEN once ELSE Original
                ELSE ORG \notin DOMAIN files

(* Every byte a tool is given is accounted for: what one run keeps of the  *)
(* files it finds, what any number of them leave of the first input, what  *)
(* a refusal leaves, what a run is for and what it does when repeated.     *)
AccountsForTheInput ==
  EachRunKeeps /\ OriginalIsKept /\ RefusalLeavesNoTrace /\ DoesItsWork /\ TwiceRun

(* Where the last run ends.                                                *)
Finished == pc \in {"done", "crash"} /\ run = RUNS
================================================================================
