-------------------------------- MODULE AngelFm7 --------------------------------
(***************************************************************************)
(* The cutter of the FM-7 Angelous disk (angcut.cpp), a client of the disk *)
(* library.  A file begins inside a track and goes on at the first record  *)
(* of the tracks behind it; the library is asked for six records a track,  *)
(* and where a track has five the cutter goes on by itself.                *)
(*                                                                         *)
(* Abstracted: one byte of the model is 0x80 bytes of a disk, as in        *)
(* D88Tools, which is once round the key, so that deciphering does not     *)
(* depend on where it begins; a cell holds one entry of the directory.     *)
(***************************************************************************)
EXTENDS D88

CONSTANTS
  Files,      \* the files of disks the cutter is run on, all in Image
  Even,       \* those of them whose tracks have all as many records, none missing
  Plain(_, _),\* the entry a cell of a file is deciphered to, NULL where a zero is
  Listed,     \* the names of each file's entries that are all on the disk
  BLOCK,      \* 0x100
  FAT         \* 0xc00

VARIABLES
  pc, fn,     \* where the program is, the slot of the directory
  cut,        \* the entry being cut
  load, next, \* bytes read of it, the track the loop reads next
  out, done,  \* the file written last, history: the entries cut, or not created
  lost        \* those given up, whose buffer is not freed

angelvars == <<pc, fn, cut, load, next, out, done, lost>>
vars == <<d88vars, angelvars>>

At(l) == pc = l /\ ~reading
Goto(l) == pc' = l
Library == UNCHANGED <<reading, address, transfer, buf, ret>>

Init ==
  /\ D88Init
  /\ reading = FALSE
  /\ trk = 0 /\ C = 0 /\ H = 0 /\ R = 1 /\ N = 0
  /\ size = 0 /\ secsize = SecSize[0] /\ want = 0 /\ ret = 0
  /\ dest = [buffer |-> "fat", at |-> 0]
  /\ buf = [fat |-> [i \in 1 .. FAT |-> Zero], buf |-> <<>>]
  /\ pc = "start" /\ fn = 0 /\ cut = NULL /\ load = 0 /\ next = 0
  /\ out = NULL /\ done = {} /\ lost = {}

Open ==
  /\ At("start")
  /\ \/ (\E f \in Files : SetFile(f)) /\ Goto("select")
     \/ SetFileFails /\ Goto("exit")
  /\ Library /\ UNCHANGED <<fn, cut, load, next, out, done, lost>>

Select ==
  /\ At("select")
  /\ SelectDisk(0) /\ Goto("range")
  /\ Library /\ UNCHANGED <<fn, cut, load, next, out, done, lost>>

SetRange ==
  /\ At("range")
  /\ SetRecordRange(1, 6) /\ Goto("dir")
  /\ Library /\ UNCHANGED <<fn, cut, load, next, out, done, lost>>

ReadDir ==
  /\ At("dir")
  /\ StartRead(1, 0, 1, 1, 3, "fat", 0, FAT) /\ Goto("slot")
  /\ UNCHANGED <<buf, fn, cut, load, next, out, done, lost>>

Slot == Plain(m_fp, buf.fat[fn + 1])

copyofs(e) == e.b8 + e.b9 * BLOCK

ReadSize(e) == ((e.size + copyofs(e)) \div BLOCK + 1) * BLOCK

(* The first read; the buffer is fresh from malloc.                        *)
Entry ==
  /\ At("slot") /\ fn < FAT /\ Slot # NULL
  /\ cut' = Slot /\ fn' = fn + 1 /\ load' = 0 /\ next' = Slot.trk + 1
  /\ StartRead(Slot.trk, Slot.trk \div 2, Slot.trk % 2, 1, 3, "buf", 0, ReadSize(Slot))
  /\ buf' = [buf EXCEPT !.buf = [i \in 1 .. ReadSize(Slot) |-> Kept]]
  /\ Goto("first")
  /\ UNCHANGED <<out, done, lost>>

(* The table is taken to end with a zero; behind it is the stack, which    *)
(* may have one or look like an entry of any kind.                         *)
EndOfTable ==
  /\ At("slot")
  /\ \/ fn < FAT /\ Slot = NULL /\ Goto("exit")
     \/ fn = FAT /\ pc' \in {"exit", "crash"}
  /\ UNCHANGED <<d88vars, fn, cut, load, next, out, done, lost>>

Short == load + ret < ReadSize(cut)

(* Mutants: the same track once more; as many bytes as in the beginning.   *)
NextTrackWhole ==
  /\ At("first") \/ (At("loop") /\ ret # 0)
  /\ Short
  /\ load' = load + ret
  /\ next' = next + 1
  /\ StartRead(next, next \div 2, next % 2, 1, 3, "buf", load + ret, ReadSize(cut))
  /\ Goto("loop")
  /\ UNCHANGED <<buf, fn, cut, out, done, lost>>

NextTrackSame ==
  /\ At("first") \/ (At("loop") /\ ret # 0)
  /\ Short
  /\ load' = load + ret
  /\ StartRead(next, next \div 2, next % 2, 1, 3, "buf", load + ret, ReadSize(cut) - (load + ret))
  /\ Goto("loop")
  /\ UNCHANGED <<buf, fn, cut, next, out, done, lost>>

(* A read that stopped is gone on with on the track behind the one the     *)
(* file begins on, or behind the one the loop was on last, wherever the    *)
(* library had come to by itself.                                          *)
NextTrack ==
  /\ At("first") \/ (At("loop") /\ ret # 0)
  /\ Short
  /\ load' = load + ret
  /\ next' = next + 1
  /\ StartRead(next, next \div 2, next % 2, 1, 3, "buf", load + ret, ReadSize(cut) - (load + ret))
  /\ Goto("loop")
  /\ UNCHANGED <<buf, fn, cut, out, done, lost>>

(* Mutants: a track that cannot be read is read again; the first read that *)
(* falls short is the last.                                                *)
NoDataAtOnce ==
  /\ At("first") \/ At("loop")
  /\ Short
  /\ lost' = lost \cup {cut.name}
  /\ Goto("slot")
  /\ UNCHANGED <<d88vars, fn, cut, load, next, out, done>>

NoDataOn ==
  /\ At("loop") /\ ret = 0 /\ Short
  /\ StartRead(next, next \div 2, next % 2, 1, 3, "buf", load, ReadSize(cut) - load)
  /\ UNCHANGED <<buf, pc, fn, cut, load, next, out, done, lost>>

NoData ==
  /\ At("loop") /\ ret = 0 /\ Short
  /\ lost' = lost \cup {cut.name}
  /\ Goto("slot")
  /\ UNCHANGED <<d88vars, fn, cut, load, next, out, done>>

(* Mutant: a file is written as far as it was read.                        *)
WriteAnyhow ==
  /\ At("first") \/ At("loop")
  /\ \/ out' = [entry |-> cut, bytes |-> SubSeq(buf.buf, copyofs(cut) + 1, copyofs(cut) + cut.size)]
     \/ UNCHANGED out
  /\ done' = done \cup {cut.name}
  /\ Goto("slot")
  /\ UNCHANGED <<d88vars, fn, cut, load, next, lost>>

(* The buffer is deciphered block by block and written from copyofs.       *)
Write ==
  /\ At("first") \/ At("loop")
  /\ ~Short
  /\ \/ out' = [entry |-> cut, bytes |-> SubSeq(buf.buf, copyofs(cut) + 1, copyofs(cut) + cut.size)]
     \/ UNCHANGED out   \* fopen fails
  /\ done' = done \cup {cut.name}
  /\ Goto("slot")
  /\ UNCHANGED <<d88vars, fn, cut, load, next, lost>>

Next ==
  \/ Open \/ Select \/ SetRange \/ ReadDir \/ Entry \/ EndOfTable \/ NextTrack \/ NoData \/ Write
  \/ ReadDATA /\ UNCHANGED angelvars

(* One program that nothing waits for runs until it returns.               *)
Spec == Init /\ [][Next]_vars /\ WF_vars(Next)

-------------------------------------------------------------------------------
(* Properties. *)

(* The directory and the file are read into buffers they fit in, however   *)
(* many reads a file takes.                                                *)
TypeOK ==
  /\ pc \in {"start", "select", "range", "dir", "slot", "first", "loop", "exit", "crash"}
  /\ fn \in 0 .. FAT /\ load \in Nat /\ next \in Nat /\ done \subseteq STRING /\ lost \subseteq STRING
  /\ Len(buf.fat) = FAT
  /\ pc \in {"first", "loop"} => Len(buf.buf) = ReadSize(cut)

(* On a disk whose tracks have all the same number of records, a file that *)
(* ends on the disk is what stands behind its offset on its track and the  *)
(* tracks that follow, whether the library or the loop went on to them.    *)
FilesAreWhole == (out # NULL /\ m_fp \in Even /\ out.entry.there) => out.bytes = out.entry.says

(* A file is written only if the disk has as many bytes from where it      *)
(* begins as the file and its offset; a hole ends it.                      *)
NothingUnread == out # NULL => \A i \in DOMAIN out.bytes : out.bytes[i] \notin {Kept, Zero}

(* When the table has been gone through, no file that is all on a disk of  *)
(* even tracks has been given up.                                          *)
EveryEntryIsCut ==
  (At("exit") /\ m_fp \in Even) => \A n \in Listed[m_fp] : n \in done

(* The program ends, whatever is missing from the disk.                    *)
Ends == <>(pc \in {"exit", "crash"})
================================================================================
