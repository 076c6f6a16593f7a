# hoot-patches in TLA+

The repository holds the drivers ("patches") that let the music player *hoot*
play the music of old Japanese computer games with the games' own sound
routines, and the tools that cut the data out of the games. This directory is
a verification development beside it: TLA+ modules of the drivers' control
logic, TLC configurations, and TLAPS proofs.

Contents: 1 the system, 2 the modules, 3 the runs, 4 the proofs, 5 what is
abstracted, 6 what is not modelled, 7 the plan.


## 1. The system

A driver is a small program that hoot runs in an emulated machine. It loads
the game's sound driver, opens itself to requests, and from then on turns each
request of hoot (play code *n*, stop) into calls of the game's routines. The
program of one game shares nothing with that of another except the protocol
with hoot and, often, its text: players are copied and adapted.

| part | where | state | operations |
|---|---|---|---|
| hoot's port | outside; `hoot.inc` names it | command (7e0h), code (7e2h), gate (7e8h), pending INT 7Fh | request, deliver, open and close the gate |
| Artdink phrase feeders | `pc98/artdink/{a3,arctic,a2,far_side_moon}` | `active`, `song`, `phrase` (A2: `count`, `repeat_at`, `ptrs`, `music`) | start, command handler, feed, `load_music` |
| Sound BIOS and game routines | outside | per-channel rings, the ROM word the players patch | init, play, status, stop, timer tick |
| SYNUPS player for DOS/V | `pc/bothtec/synpus_dosv` | `start_pending`, `score_seg`, timer dividers | handler, main loop, timer, `relocate_sib` |
| SYNPLAY | outside | the loaded score and how far it is | reset, load, query, start, tick |
| bank-switching players | `pc98/starcraft/might_and_magic_{4,5}` | `current_bank`, far pointers | `select_bank`, handler |
| other PC-98 players | about a hundred under `pc98` | mostly none | a vector that calls play or stop |
| MSX, FM-7, PC-88, X1 drivers | `msx`, `fm7`, `pc88`, `pc88va`, `x1` | flags between loop and interrupt | poll the port, carry out, acknowledge; timer |
| BGMLIB player | `pc98/genecic_driver/bgmlib` | the file's handle, the gate | load, select, start, stop |
| D88 library | `*/cut/d88.cpp` (some twenty copies) | file, disks, selected disk, table of tracks, record range | `SetFile`, `SelectDisk`, `SetRecordRange`, `ReadDATA`, `ReadID` |
| D88 extractors | twenty-four `*file.cpp`, `angcut.cpp` | buffers of directory and file | read every directory, cut every file |
| decompressors | `*/decode`, `*/decompress`, `pc98/koei/generic_cut`, `pc98/cosmos_computer` | bit counters, window or table of words, output | decode |
| cutters | `*/cut` | place in the archive, files written | copy ranges of an archive to files |
| file tools | `common/scut`, `common/hcut`, `patscbios`, `gaia_dec`, `dbneg`, `decrypt` | input, output, a second name | make one file of another, or of itself |

**How the parts interact.** On PC-98 and DOS/V, hoot writes command and code to
the ports and injects INT 7Fh; the handler runs on top of the main loop. The
gate (HOOTFUNC 7e8h) defers the interrupt, not the write: the ports can change
while a handler reads them. The main loop of a feeder calls the game's play
routine, which fills the rings the Sound BIOS empties from its own timer
interrupt. In the SYNUPS player the handler loads and the main loop starts; one
byte, `start_pending`, joins the two.

The tools run alone, from a command line; an extractor calls the D88 library, a
cutter and a decoder share files through the directory. What they meet is the
file they are given and the file system: missing, cut short, wrong, not to be
created, interrupted.

**What is hard.**

* Two flows over the same variables without a lock: the handler against the
  main loop, both against the BIOS timer and the host.
* Requests that race their own handler (command of one, code of another).
* Bounded rings filled from a poll that is already old when it is used.
* Steps that can fail in the middle: a phrase the driver refuses, a file that
  cannot be read, a ROM that is not the known one, a block copied before its
  relocations are checked.
* Tunes of many shapes: counts and loop points from tables, from code, from
  files; boundary off by one here reads the pointers of another tune.
* Things that must happen in the end: the gate reopens, a loop is fed again, a
  one-shot ends, a loaded score starts, a decoder comes to its end.
* Counters that turn over together: track, cylinder, head and record of a
  read; place in the ring, in the file and in the output of a decoder; bit and
  byte of a token.
* State that outlives what it was for: the table of tracks of a disk after
  another file is opened, the directory of the disk before, the buffer of the
  piece before.
* Programs that write over their input.

`PROJECT.json` lists each of these at its line under "hazards".

**What makes each part correct.**

* Feeder: the rings hold phrases of one tune, in order, without gap or
  repetition, continued by the phrase to come; a new tune or a stop takes
  effect at once; no ring overruns; loops go on, one-shots stop; the player
  answers the last request and stays alive.
* `load_music`: it accepts the files of its format and no other, and never
  stores more pointers than it has room for.
* feed's argument walk: play gets its twelve words in parameter order, out of
  the game's tables.
* SYNUPS: no loaded score loses its start; the block a score is played from is
  that score's.
* D88 library: a read delivers the sectors that lie one after the other on the
  disk that is selected, none skipped, none twice, never more than was asked
  for; it answers of the file that is open whatever was open before.
* Extractors and cutters: every file that is all there is cut, whole, from where
  the table says; nothing from outside the archive; what failed is told.
* Decoders: what is written is what was packed, as far as the file goes; a
  broken file is refused where it can be seen, and a sound one is not; every
  place stays within its buffer; the program ends.
* File tools: every byte of the input is accounted for, however a run fails or is
  interrupted. An input that is not the output stays whole. One that is renamed
  (patscbios, decrypt) is whole under one of its names, until a later run renames
  again and replaces it: decrypt does so every time, patscbios where a second
  pattern is left to patch. gaia_dec always, and scut, hcut and dbneg where they
  are told to write over their input, make no copy: the input is left whole, or
  as a beginning of what the tool makes of it, or empty. A refusal leaves no
  trace but the name decrypt has given. A run that nothing disturbs makes the
  file it is for, and what a second one makes of that is known.


## 2. The modules

### HootPort
The host side, shared by every PC-98 and DOS/V player. External: `HostInit`,
`HostRequest`, `Deliver` are modelled from how the drivers use hoot. A request
stays in the ports until the next replaces it; a deferred request is *one*
pending interrupt; the host may write at any moment. `SetGate` is the driver's
`out dx, al` to 7e8h.

### PhrasePlayer (abstract)
What a feeder promises, with two variables: `next`, the phrase to queue next
or `None`, and `ring`, the phrases queued. `Begin` (the rings must be empty),
`Queue` (appends `next`, and moves it on by the table), `GiveUp` (a phrase was
refused), `Cut` (clears everything), `Finish` (the oldest phrase has been
played). Nothing of handlers, gates, bytes or program counters is in it.

### PhraseFeeder (a3_98.asm, arctc_98.asm)
| code (a3_98.asm) | definition |
|---|---|
| `start` 8-84 | `LoadOverlay`, `InitDriver`, `Install` |
| `prepare_silent_init` 97-132 | `KnownRom`, `PatchedRom` |
| `command` 153-198 | `TakeCommand`, then `ReadCommand`, `Silence`, `Select`, `Setup`, `Ready`, `StopPlaying`, `Leave`, one for each stretch between two reads of shared state |
| `feed` 200-282 | `EnterFeed`, `Poll`, `Submit`, `Submitted`, `FeedFinish`, `FeedDone` |
| `tracks` 285-327 | `Count`, `Repeat`, and ArtdinkTracks' `A3_tracks` |
| arctc 221-229 | `DrainAt`, `MayFollow` |
| Sound BIOS, game routines | `FarStop`, `FarPlay`, `Status0`, `Silent`, `BiosTick` |

`pc` is where the processor is, `ret` where the handler interrupted. The
handler may interrupt at every label of the main loop; that it does so only at
`idle` is not assumed but proved (`FeedIsNotSplit`). `FarPlay` compiles a
phrase to any length from 1 to `MaxPhrase`. `Promise` instantiates PhrasePlayer
with `next <- Upcoming`: a phrase counts as queued from the moment the rings
have it, so between `far play` and the update of `phrase` the phrase to come is
computed by `After`.

### FsmFeeder, A2Feeder
The differences of the two other copies. FsmFeeder: codes below 28; counts and
loop points as code (`WrapAt`); an effect ends without moving the index. Its
promise is that of the table `FsmTables` spells out, which only repeats the
numbers of the code. A2Feeder adds `count` and `repeat_at`, set by the handler
(`A2Ready`, `LoadMusic`), and ends the program where `load_music` jumps to
`fatal`; `A2Tables` ties the table of the promise to the numbers of the code
and to the phrases of each file.

### MusicScan
`load_music`'s scan, one action per label. `WellFormed` is the format said
without a scan: NUL-ended strings, none beginning with the terminator, then
terminator and NUL; strings for at least two whole phrases.

### PhrasePointers, ArtdinkTracks
How `feed` turns a song and a phrase into the frame of the game's play routine,
for all four games with their real tables. The check is against an independent
description: the pointers of a phrase lie one after the other from
`PhraseStart`, channel by channel, and the tables lie one after the other.

### SynupsPlayer (synp_at.asm)
`Start` 19-98, the main loop 100-113 as `Halt`, `Test`, `Query`, `Clear`,
`StartScore` (any interrupt can come between two of them, also between the test
and the `hlt`), `Command` for `vect_hoot` 163-282, `Timer` for 120-161. The
handler runs with interrupts off, so it is one step. A file is of one of five
kinds, by the way it leaves the handler: whole, refused by SYNPLAY, relocations
cut off, no container, unreadable. SYNPLAY is modelled by the calls made to it.

### D88, LinearRead (abstract), D88Client
| code (d88.cpp) | definition |
|---|---|
| `SetFile` | `SetFile`, `SetFileFails`, `Close` |
| `SelectDisk` | `SelectDisk`, `Header`, `Deselected` |
| `ReadDATA` | `StartRead`, `ReadSector`, `EndRead`; its counters in `NextSector` |
| `ReadDATA1`, `ReadID` | operators of the same names, over `Matching` and the sectors of a track |

A byte is the place it was read from, so that a byte from the wrong disk, track
or sector is another byte. `LinearRead` is what a read promises, on a line of
sectors without heads and records; `Line` is the refinement. D88Client is any
program: it calls everything in any order. It does not read after it has
selected the number of disks itself, which the library accepts (see
divergences), for the table of tracks is not one then. `ImageAssumption` says
what a file of disks is; `FewSectors` and `WholeSectors` describe the disks that
are formatted as usual, and are hypotheses of two theorems only.

### D88Tools, AngelFm7
Clients of D88. D88Tools is the main that twenty-four extractors share: `Open`,
`Select`, `SetRange`, `ReadDir`, `Listed`, `StartCut`, `Write`. What differs
between them is data (`SetupOf`) and arithmetic (an `...Entry` operator for each
directory format), and a few have actions of their own: `ReadHead` (three formats
with headers in the files), `NextTrack` (Pure 2), `Cross` (Otome Party),
`CutSamples` (the magazines), `ReadIdent` to `SaveDriver` (Hare no Chi
Oosawagi). AngelFm7 is the cutter of Angelous, which goes from track to track by
itself.

### Decoders
RingLz (five programs), LzwDecode, LsDecode (two), OrangeDecode (two, the
routine they share), MahouExpand, IllusionExpand, CosmosExpand (three). One
action for each kind of token, one step for each byte of a copy where the
order of the writes matters. RingSizes and LzwSizes hold the constants of the
two that are proved about, and these two also say what a packed archive or
stream is (`Packs`).

### Cutters, FileTools
TableCut (eighteen programs: `Format` of an entry, where the table ends, what
is checked, what a file that cannot be created leads to), MarkCut (five),
AngelMsx. FileTools models six tools, each of which may be interrupted
(`Interrupt`) and run again (`RUNS`); `disturbed` holds the runs in which
something failed or that were interrupted, `before` the files a run has found.
What `decrypt` unpacks to and the exclusive or of two bytes are constants
(`Unpacked`, `BitXor`), of which `RunsAreOfTools`, `UnpacksToBytes` and
`XorUndoesItself` say what is needed. `ArchivesAreRead` says the same of what
MarkCut is run on.

### BgmLib
`main` up to its wait, the gate it writes, and the handler.

### MC modules, variants
ToolInputs holds what the decoders, cutters and file tools are run on, with what
has to come out, computed from the text by other arithmetic than the programs'.
MCTools and MCDiskTools run one of their programs, chosen at the start; MCMusic
runs the scan of a music file or the argument walk, which share no state.
`MC*.tla` give the constants values; BgmLib needs no more than its cfg. A definition introduced by a comment like
"Mutant: ...", "Without ..." , "jbe for jb" or "A variant that ..." is the definition after
it with a slip in it; no specification uses it, and it documents which slip
each property would notice.


## 3. The runs

| run | question | constants |
|---|---|---|
| `a3` | everything about the feeder, on A3's own table | codes 1 (loop of several phrases), 3, 10, 11 and 37 (unknown); a refused phrase of song 11; three ROM words, one unknown |
| `arctic` | the phrase that waits for silence | Arctic's table; codes 0, 2, 3 and 5 (unknown) |
| `fsm` | counts and loop points in code; the higher threshold | codes 0 to 3 and 28 (unknown) |
| `a2` | `count` and `repeat_at`; files; death by a bad file | title, effect, two files, a bad file, two unknown codes |
| `music` | the scan against the format, and the argument walk against the layout of the tables | every file of up to 10 bytes over {0, terminator, other}; every phrase of every tune of the four games |
| `synups` | handler against main loop | two scores, one refused, one of each bad kind |
| `synups_block` | is a score played out of its own block? (violated) | the same |
| `d88` | the library under every order of calls | files of four disks, of one, and of one whose size field is zero; a disk with a missing, a late and a short track; three reads across heads and tracks |
| `d88_current` | does the library know which disk it has selected? (violated) | the same |
| `disk_tools` | the twenty-five programs on disks | two disks for each format: whole, with a directory missing, with a sector missing; for Angelous five and six records a track, and both |
| `tools` | decoders, cutters, file tools | see below |
| `bgmlib` | is a request ever served? (violated) | two tunes |

What the properties say:

* `FeedIsNotSplit`, `PhraseInTable`, `NoOverrun`: the gate does its work, the
  index stays in the table, the rings hold what is put into them.
* `AnswersLastRequest`: when no interrupt is pending and the handler is out,
  what is fed and what is in the rings is what the ports ask for. A LOADPLAY
  request, which the players ignore, is exempt.
* `RingInOrder`, `KeepsPromise`: the refinement of PhrasePlayer and its
  consequence, `Contiguous`.
* `DiesOnlyAtStart`, `DiesSilent`: the player survives its own ROM patch; where
  A2 gives up on a bad file, the rings are empty.
* `DrainsFirst`: Arctic's phrase is queued into silence only.
* `GateReopens`, `LoopIsFed`, `OneShotEnds`, `LoadedStarts`, `Terminates`:
  liveness.
* `CountIsOfSong`: no tune is fed with another's count or loop point.
* `NoLostStart`: a loaded score is pending or being started.
* `PlaysItsOwnBlock`: the comment of `synp_at.asm:195`; see findings.
* `ReadsTheLine`, `ReadsLinearly`: every byte of a read is the one that lies
  there, counted along the disk; the refinement of LinearRead.
* `AnswersAsTheFileIs`: without a disk nothing is read, although the table of
  tracks is still there; the disks found are those of the file; what `ReadID`
  lists is what `ReadDATA1` finds, though the two walk by different loops.
* `CutsWhatTheEntrySays`, `EndsWithEverything`: the disk programs against the
  layout of each format; a read that fell short brings nothing foreign into a
  file beyond what the code does bring in (a stale buffer where it is not
  cleared); everything that is there is cut, of every disk.
* `CurrentIsSelected`: the comments at `d88.cpp:111` and `d88.h:81`; see findings.
* `DecodesThePacked`: the output is the text; for the ring, that the ring is the
  end of the output after every step; for LZW, that the length of a token can
  name every text there is; for Illusion, that a file that is no file of its
  kind is refused without an output. Of archives joined in one file it speaks of
  the first only (`lor2cext.cpp:96`, see divergences).
* `CutsWhatIsThere`: every file of an archive is cut, from where the table or
  the marks say. Reserved are archives of toccut that are not whole sectors and
  tunes that fill their last sector; fwcut is not run on counts above 255. Of
  archives with a wrong table it claims only what the programs that check
  theirs can promise: Illusion City's and AMUS's copy no byte from outside the
  archive. They are run on tables with a wrong entry at every place, which may
  also be the one that ends it.
* `AccountsForTheInput`, in five parts. `EachRunKeeps` says what a run does to the
  files it has found, at every moment of it. `OriginalIsKept` says what is left
  of the first input after all runs, and where it is lost. `RefusalLeavesNoTrace`,
  `DoesItsWork` and `TwiceRun` say what a tool that refuses leaves, what a run
  that nothing disturbs makes (a first or a later one), and what two such runs
  leave.
* `EndsAndRefusesOnlyTheBroken`: every program comes to its end, and a sound
  file is not refused.

**Bounds.** Rings of 640 bytes with threshold 128 leave 512 bytes; they are
scaled to 5, 1 and 4 (Far Side Moon: 640, 256, 384 to 5, 2, 3). The scale keeps
what matters: a phrase may take everything the threshold leaves, several
phrases can be queued at once, and a threshold one too high overruns. The
codes chosen contain every shape of tune in the table (long loop, short loop,
one-shot of one and of several phrases) and an unknown code. The state is
finite without a cut on counters: `phrase` is bounded by the tables and `ring`
by `fill`. MusicScan's buffer, pointers and channels are scaled from 1024, 60
and 6 to 10, 6 and 2, so that files at, below and above each limit occur.
PhrasePointers has the real tables and no constants: its run is exhaustive.
SYNPLAY's divider keeps its real period, 6.

The decoders run at the scale of a byte of two or three bits, with rings,
tables and counters scaled along; every text of up to three or four tokens is
packed, which with rings of eight places and tokens of three to five bits is
enough for the ring to wrap, a copy to overlap what it writes or to begin
before the first byte, a table to fill, and every flag byte to be used up in
the middle of a token. Files are given whole, cut short by a byte or two, with
bytes left over and with tokens no packer makes. The archives of the cutters
have up to four files, of lengths at, below and above a sector, and one file
that cannot be created at each place. For the disks of the extractors a byte of
the model is 80h of the disk, so that a sector has two, four or eight; files
fill a sector, leave it short and pass a track's end.

**Fairness.** Weak fairness on the processor's own steps and on the timer: the
emulated CPU does not stop, and neither does the timer. The feeders get strong
fairness on `TakeCommand`: they close the gate again and again, and hoot holds
a deferred request until it finds the gate open. The SYNUPS gate stays open, so
weak fairness suffices there. Nothing is assumed of the host: `LoadedStarts`
is about behaviours in which it comes to rest. The tools get weak fairness on
their own steps, since nothing stops a program that runs alone; being
interrupted is not a step that has to happen, and a run that never is must end.
BgmLib has weak fairness on the steps of main and on the handler: nothing closes
its gate again once main waits.

**Findings.** `relocate_sib` copies a file's block over `score_seg` before it
has checked the relocations, and the reset of SYNPLAY comes after it; the
comment at `synp_at.asm:195` says the previous score is stopped before a new
one is loaded. With a file whose relocations are cut off, the previous score
goes on and is played out of the new file's bytes.

`d88.cpp` sets `m_curdisk` to -1 at `:128` and nowhere to anything else, so
`GetCurrentDisk` answers -1 also while a disk is selected; the comment at
`d88.cpp:111` says it returns the number of the disk that is selected now, and
`d88.h:81` (of Otome Party's copy) keeps -1 for when none is.

BGMLIB's main has the comment "hoot may call" (`bgml_98.c:69`) over a line that
writes `HF_DISABLE` once more; no request ever reaches the handler.

**Divergences met while modelling**, which the models follow and no run is
spent on:

* `d88.cpp:133`: the number of disks itself is accepted as a disk, against the
  comment above it; a read that ends at a short sector does not count the bytes it has put into the
  buffer (`:248`), against `d88.h:126`.
* `lor2cext.cpp:96`: of archives joined in one file, one whose size is reached
  inside a copy is left by the innermost loop only, so what follows is decoded
  on into it and the next archive does not begin where it should.
* `decompress0.c:120-123`: when the last copy is longer than the file, the
  comment calls that "a normal situation", but the loop moves on twice a round:
  every second byte of the rest is never written.
* `fwcut.cpp:54`: a count of two bytes of which one is used.
* `toccut.c:58`: the bytes that remain pass zero when the archive is not whole
  sectors, and the search goes on behind the buffer.
* `scut.c:48`: a pattern at place 0 is taken for none.


## 4. The proofs

`PhraseFeederProofs` proves, for every table, set of codes, ring size,
threshold and ROM, from `FeederAssumption` alone:

| theorem | statement |
|---|---|
| `TypeCorrect` | `Spec => []TypeOK` |
| `FeedNeverSplit` | `Spec => []FeedIsNotSplit` |
| `PhraseAlwaysInTable` | `Spec => []PhraseInTable` |
| `NeverOverrun` | `Spec => []NoOverrun` |
| `LastRequestAnswered` | `Spec => []AnswersLastRequest` |
| `FeederKeepsPromise` | `Spec => KeepsPromise` (refinement of PhrasePlayer) |
| `RingAlwaysInOrder` | `Spec => []RingInOrder` |
| `NeverDiesPlaying` | `Spec => DiesOnlyAtStart` |
| `AlwaysDrainsFirst` | `Spec => DrainsFirst` |

The argument is layered; each layer is inductive given the ones before.

1. `ControlInv` = `TypeOK`, `GateInv` (the gate is closed at every label of
   feed and of the handler's inside, hence `ret = "idle"`), `FeedInv` (what
   each label may assume of `active`, `song`, `phrase`), `RingInv` (the rings
   are empty exactly when no byte is left). `FeedIsNotSplit` is not inductive
   without `GateInv`: that a handler finds `idle` depends on the gate at every
   other label.
2. `QueueInv`: at `submit` the rings are no fuller than the threshold, though
   the BIOS has been ticking since the poll. With
   `LowWater + MaxPhrase <= RingSize` this gives `NoOverrun`.
3. `AnswerInv`: what each label of the handler knows of the request it is
   answering while the host may be rewriting the ports; a rewritten port means
   a pending interrupt, so the answer is only due when none is.
4. The refinement: `StepKeepsPromise`, one case per action, most of them
   stutters. `RingInOrder` follows from the abstract specification
   (`PromiseKeepsOrder`) and is transferred through the refinement.
5. `RomInv`: after the first `prepare_silent_init` the ROM holds 00b3h, which
   the next one accepts.

It also proves the same of Far Side Moon (`FsmNeverOverruns`,
`FsmAnswersLastRequest`, `FsmKeepsPromise`, `FsmRingInOrder`,
`FsmNeverDiesPlaying`, from `FsmCorrect`), for the tables of that game: `FsmTables`
is a hypothesis of these theorems, and TLC checks it in MCFsmFeeder. Nothing is proved twice: every step of
FsmFeeder is a step of PhraseFeeder, or `EndEffect`, the one step the copy has of
its own, and only that one is looked at. The comparisons written in the code
(28; 12, 17, 6 and where they return to) are shown to agree with the table the
promise is about.

It proves of A2's player, too, with its files and for the tables that `A2Tables`
says (checked by TLC in MCA2Feeder):

| theorem | statement |
|---|---|
| `CountAlwaysOfSong` | `A2Spec => []CountIsOfSong` |
| `A2NeverOverruns` | `A2Spec => []NoOverrun` |
| `A2AnswersLastRequest` | `A2Spec => []AnswersLastRequest` |
| `A2KeepsPromise` | `A2Spec => KeepsPromise` |
| `A2RingInOrder` | `A2Spec => []RingInOrder` |
| `A2DiesSilent` | `A2Spec => DiesSilent` |

`load_music` is a detour between two labels of PhraseFeeder's handler. Outside of
it a step of A2 is a step of PhraseFeeder, because `count` and `repeat_at` are
those of the song whenever a tune is active; inside it (`A2Inv`) the gate is
closed, nothing is fed, nothing is queued, and the host may replace its request.
The detour ends at `leave` with a new tune that begins, or with the program. So
`CountIsOfSong` is not only a property but what the refinement rests on.

`MusicScanProofs` proves `PointersAlwaysStarts` and `AcceptsExactlyTheFormat`
(`Spec => []AcceptsTheFormat`) for every file, buffer, number of pointers and
number of channels: a file is loaded only if `WellFormed`, and refused only if
not. `ScanInv` says that the pointers are, in order, the starts of strings passed
so far. The work is in counting: that as many pointers were stored as strings
begin before `si`, that a full table of pointers means too many strings, and
that the division at the end is the one `WellFormed` asks for.

`SynupsProofs` proves `Spec => []TypeOK` (`SynupsTypeCorrect`) and
`Spec => []NoLostStart` (`NoStartIsLost`) of SynupsPlayer for every set of
files. The two together are inductive (`StartInv`): the start at `start_score`
only counts because a SYNPLAY that is not empty has a score, which is part of
`TypeOK`.

`FeederAssumption` is checked by TLC on every feeder run. Its only numeric
content is `LowWater + MaxPhrase <= RingSize`: the longest phrase of the games
fits into what the threshold leaves, which is what the comment at
`a2_98.asm:212` says of the native program and cannot be seen in this code.

`D88Proofs` proves, for every set of files, record range, set of reads and number
of tracks, under any order of calls:

| theorem | statement |
|---|---|
| `ClientTypes` | `Spec => []TypeOK` |
| `ReadsStayPhysical` | a read that starts at the cylinder and head of its track stays at those of the track it has reached |
| `ReadsAreLinear` | `Spec => ReadsLinearly` (refinement of LinearRead) |
| `NeverWithoutADisk` | `Spec => []NothingWithoutADisk` |
| `DisksAreFound` | `Spec => []FindsTheDisks` |
| `ListsAreReads` | with `FewSectors`: `Spec => []ListsWhatItReads` |
| `AnswersAreTrue` | with `FewSectors`: `Spec => []AnswersAsTheFileIs` |
| `LineIsRead` | with `WholeSectors`: `Spec => []ReadsTheLine` |

The invariants are layered like the calls:

1. `WalkInv`: the place on the line is computed from track and record, so the
   refinement needs to know that a record is within the range it turns over at.
2. `ObjectInv`: while a file is open, the number of disks and their offsets are
   those of that file, and the selected disk has its own offset; a choice that
   was refused leaves the size 0. The table of tracks is *not* said to be of the
   selected disk, since it is not: after a refused choice it is that of the disk
   before. `NoDiskNoTrack` is why that does not show: every track of a disk of
   size 0 lies behind its end.
3. `ReadInv`: a read in progress has a disk under it.
4. `LineInv`: a read that has not come to its end has delivered whole sectors
   only, as many as it has moved on along the line; so the byte it is about to
   write at a place of the buffer is the byte that lies at that place of the
   line.

The two hypotheses are about data the library is given and does not check.
`FewSectors`: a track that is there has sectors, none empty, and no more than
fill the 64 bytes `ReadID` is given; it lists a seventeenth behind them.
`WholeSectors`: the file has the bytes its sector headers promise; what `fread`
leaves in the buffer otherwise is not of the line. The disks of the run satisfy
both (`MCDisks`, which TLC evaluates), the disks of the extractors' run do not
always, and what becomes of files then is what `CutsWhatTheEntrySays` says.

`RingLzProofs` proves `RingIsTheHistory` for every size of byte and ring and
every file: the ring is the end of what has been written, in order, after every
literal, every byte of a copy and every archive. It needs no more than the types
(`Types`) to be inductive; the work is in modular arithmetic (`Before`,
`Following`): the place before the one to be written next, and the places that
move one further away when a byte is written.

It also proves `DecodesThePackedText`: `Spec => []DecodesWhatIsThere` for each of
the five programs, every text and all sizes, if the archives are packed
(`ArchivesArePacked`). What that means is said in RingLz place by place, without
a packer: a packing lists the tokens, where each begins in the file and how much
of the text precedes it; `PacksByte` and `PacksCopy` say which bytes and which
bit of which flag byte stand there, and which bytes of the text they stand for,
in terms of the text alone (`Back`: so many bytes ago, zero before the first).
The ring does not occur in it. TLC evaluates it for every archive of the run
(`RingArchivesArePacked` in MCTools), so the hypothesis is satisfied there.
The invariant (`TextInv`) says which token is next, or how much of a copy is
done, that the flag is the token's flag byte shifted as often as its group has
had tokens, and that what is written is the text so far. That a copy takes the
right byte (`SourceIsBack`) needs `RingIsTheHistory`: the place in the ring is
turned into a distance, and the ring holds what was written that long ago. Behind
the tokens that are there, a file that is cut short or an archive that another
follows may make the program write more; of that the invariant only says that
all of the text is written already (`All`).

`LzwProofs` proves `TypesHold`, `WidthsHold` (the bits of the next token can name
every text there is) and `LinksPointBack` (a link is to bytes that have been
written, sound stream or not, while the output has room). Powers of two are not
within the provers' reach, so `LzwDecodeAssumption` states that they are
positive and double, and that the longest token lies in three bytes wherever it
begins (12 bits and bytes of 8 in the code); TLC checks it.

It also proves `WritesThePackedText`: `Spec => []WritesWhatWasPacked` for every
stream and all lengths of bytes and tokens, if the sound streams are packed
(`StreamsArePacked`). A packing lists the tokens: where each begins, in bits, how
long it is, how much of the text precedes it, and after which token the last
reset was. `PacksBits` says that the bits of the stream there are those of the
token, and that the token is as long as the number of texts so far makes it
(`Words`), which stops at what the longest tokens can name; `PacksByte`,
`PacksLink` and `PacksReset` say what a token stands for, a link in terms of the
text of an earlier token and the byte behind it. No table of texts and no
three-byte window occurs in it. TLC evaluates it for every stream of the run,
those that fill the table included (`LzwStreamsArePacked` in MCTools).
The argument has three parts. `ReadsTheBits`: what the shifts and masks take out
of three bytes is the number whose bits stand there (`BitsOfThree`, by induction
over the places of the bits). `WidthFollows`: the length the decoder counts up by
itself is the one the format prescribes, before and after the table is full,
since there is only one least length for a number of texts (`OneWidth`).
`Following`: with the invariant `TextInv` (which token is next, and that the
n-th remembered text is the place and length of the n-th token since the reset)
a step is one token of the packing; the link to the text that is only just being
given copies the byte it has itself written (`LinkFollows`). Tokens that are not
known, links that do not fit and the end of the bytes are shown not to occur.

`FileToolsProofs` proves `InputAccountedFor`: `Spec => []AccountsForTheInput` for
every file, every argument, every set of things that fail and any number of runs,
interrupted anywhere; gaia_dec and the tools that are told to write over their
input are among them, and so are files with several patterns. Its hypotheses are
`RunsAreOfTools` (the tools there are, that three of them write over their input,
that files hold bytes), `XorUndoesItself` and `UnpacksToBytes(Seq(0 .. 255))`
(what `decrypt` makes of bytes is bytes); TLC checks the first two of what the run
is given, and the third for short files (`ToolsAreRun` in MCTools). The invariant
has a part for each thing that has to be known.

1. `Control`: which tool may be where, and that past the beginning it has found
   its input.
2. `Stage`: what the files are at each label, in terms of what the run found:
   the same, the same with the input renamed (`Base`), or that with an output
   that is empty (`Filled`). `Reading`: what was read is what was found.
3. `Written`: what is about to be put into the output is a beginning of what the
   tool makes (`Beginnings`), and all that is wanted if nothing has disturbed the
   run. That it is what was wanted is `OutputsAreWanted`: a bounded search that
   stops at the first place (`FirstPattern`), a comparison that may go on behind
   the buffer (`OneHit`: where there are enough bytes behind the first place, no
   earlier one can pass for it), chunks that join (`ChunkIsPart`), and a search
   that calls a pattern at the first byte nothing (`NothingFound`).
4. `Ended`: after a run the files have one of the `Shapes` of what it found, and
   one of the `Finals` if nothing disturbed it.
5. `Rounds` speaks of more than one run. `Lasting` is what is left of the first
   input from run to run; it is inductive only with what a disturbed run may
   have made of it, a beginning of the decoding of a beginning (`TurnedOver`).
   Whether patscbios loses the original depends on whether anything is left to
   patch after the first run, so `StaysPatched` is carried on as well
   (`OncePatched`). A second run starts from the `Finals` of the first, from
   which `DoneTwice` concludes.

`MarkCutProofs` proves `MarksAlwaysCut`: `Spec => [](EveryTuneIsCut /\
EveryTuneIsFound /\ StaysInside)` for the five cutters without a table and every
archive, of any number of sectors and any first bytes in them; and `MarkTypesHold`
(`Spec => []TypeOK`: also that the next number of a kind is the number of files
there are of it). The hypothesis `ArchivesAreRead` only says what an archive is (its
bytes are bytes, its size is that of its sectors and less than the largest
`size_t`); TLC checks it of the run's (`MarksAreRead` in MCTools).

1. `Control`: which kind of cutter may be where, and that the number to be given
   next is no file's yet, so that no file takes another's name.
2. `Measured`: while a tune is measured the bytes still to be looked at are those
   of the sectors behind it. So the unsigned counter does not wrap (`LessIs`), and
   no tune reaches behind a whole archive (`FilesInside`).
3. `CutSoFar`: a tune is begun at a mark (`CutAtMarks`), no sector it has been
   measured over has one, and every mark passed has its file, numbered by the marks
   of its kind before it (`CutWhatIsPassed`). The length of a finished tune is the
   way to the next mark (`UpToNextIs`), which `EveryTuneIsCut` says without a
   search.
4. `FoundSoFar`: where the files begin are the marks passed that are not among a
   tune's bytes. The search goes on behind the sector a tune ends in; that the
   sectors it leaves out are among the tune's bytes needs that the tune does not
   fill its sectors (`ReachesTheLast`), the reservation `EveryTuneIsFound` makes.

The run `tools` checks the properties of RingLz, LzwDecode, FileTools and MarkCut
inside `DecodesThePacked`, `AccountsForTheInput` and `CutsWhatIsThere`, over programs
without proofs beside them, so the theorems name the modules' own: `RingIsHistory`,
`DecodesWhatIsThere`, `WidthsSuffice`, `PointsBack` and `WritesWhatWasPacked`;
`AccountsForTheInput`; `EveryTuneIsCut`, `EveryTuneIsFound` and `StaysInside`.

**Induction.** The library's induction theorems take an operator as a parameter
and cannot be instantiated by the provers at hand. Where a recursive function has
to be unfolded (`Offset`, the walk over the size fields), `LeastOfNat` stands in
for them: a set of naturals that is not empty has a least element (from
WellFoundedInduction's `WFMin`, which takes sets), so a counterexample would have
a least one. That `Offset` has values at all is shown by giving them in closed
form (`WalkToIsAWalk`), that it has no others by the least place where two walks
would part (`OneWalk`). In LzwProofs it takes the form of `StepByStep`, over the
places of a range, with the claim as a set of numbers instead of a predicate.

**Model-checked only.** All liveness (`GateReopens`, `LoopIsFed`, `OneShotEnds`,
`LoadedStarts`, `Terminates` and the ends of the tools), which is out of TLAPS'
reach. The argument walk of PhrasePointers, where the run covers every case there
is. The disk programs and the cutters other than MarkCut, whose properties are
about the data of each format. Of the decoders other than RingLz and LzwDecode, that
the output is the text: what it is compared with is computed from a text by the
packers of ToolInputs, and would have to be said place by place, as it is in
those two, to be used in a proof.


## 5. Abstractions

* The MML of a phrase is the pair of song and index; its compiled length is any
  within `MaxPhrase`. The argument walk is in PhrasePointers instead.
* Six rings are one, the fullest, as `status` 0 returns it; "all channels
  silent" is "nothing queued".
* `seed_ssg_mixer`, the SSG values set through INT D2h and `last_error` change
  sound or nothing, and no control; they are left out.
* The result of `far init` is looked at in `start` and ignored in the handler,
  as in the code; what a failed init leaves behind in the game is not known.
* `out 7e8h, 81h` and the `iret` after it are one step.
* An interrupt is taken between steps; steps end where shared state is read or
  written.
* SynupsPlayer keeps one of three timer dividers: the SYNUPS tick and the old
  INT 8 share no state with the player. SYNPLAY is taken to be ready at its
  tick.

* A byte of a disk is the place it was read from; a byte that is copied from an
  archive is the range it comes from. A name is a token. Messages and the
  parsing of command lines are left out; what a program returns is kept.
* The ciphers of the Angelous disks and of Hare no Chi Oosawagi are kept as far
  as it can be told whether a byte was deciphered once, and with the right part
  of the key; their arithmetic is not.
* Memory nothing was written to (`HOLE`, `JUNK`) is one value that no file has.
  Reads of it are followed, not excluded, where the code makes them.
* In `caratdec.cpp` and `moexdec.cpp` an assignment moves the pointer it reads
  through on the other side; the two orders a compiler may choose are both
  run (`late`).
* An allocation fails in FileTools only; a file that cannot be created is a
  case everywhere (a program that does not look goes on with no file, or ends),
  a write that fails half-way is one in FileTools.
* What the table-driven cutters read behind their table is the rest of the
  archive, one value for all of it; behind the archive the same value, or the
  end of the program (`ReadBehind`). AMUS's is the one whose end
  is run wrong.
* A second `fclose` of a file, or one of no file, ends the program or does nothing.
* Where a copy of a program differs from another by a table, a byte order or a
  check, both are run; where the text is the same (the copies of `d88.cpp`), it
  is modelled once.


## 6. Not modelled

The components with status `not_modelled` in `PROJECT.json`, with reasons there:
the bank-switching players, the rest of the PC-98 players, the polled drivers of
the other machines, the support code taken over from FreeSCI, and the build
files. The drivers are each a few dozen instructions around calls of a game's
own code, and are planned. Inside modelled components the following is left
out: names and types of disks (no program looks at them); `decrypt2` and
`sci0_get_compression_method` of Silpheed's decoder, and the `filecut` of
`angcut.cpp`, which nothing calls.


## 7. Plan

1. Done: feeders, their proofs, the scan and the argument walk; SynupsPlayer and
   its proof; the D88 library, its refinement and proof, the programs built on
   it; decoders, with proofs of two; cutters and file tools, with proofs of the
   tools and of the mark-driven cutters; BgmLib. All four feeders and the scan are proved, and so is all that
   the library answers.
2. `BankPlayer` (mm5_98, mm4_98): `current_bank`, pointers and mapped driver
   agree; each switch leaves the old driver before it enters the new. Run: two
   banks, codes at 0Fh, 10h, 14h, 15h, 30h, 31h. Theorem: the invariant.
   `NestedCommand` (vgn2_98 and the players that enable interrupts in the
   handler): what a second request does to the first.
3. `PolledDriver`, abstract, and its instances for MSX, FM-7, PC-88 and X1: a
   request is carried out once; a request written before the acknowledgement
   is the hazard; timer and loop share flags (`play_ball3`, `druaga`).
4. Proofs to add: the refusals of MahouExpand and IllusionExpand; the table-driven
   cutters and those of Angelous.
