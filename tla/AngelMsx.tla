-------------------------------- MODULE AngelMsx --------------------------------
(***************************************************************************)
(* The cutter of the MSX Angelous disk (angcut.c): the whole disk is read, *)
(* the directory deciphered, and of every entry so many whole sectors are  *)
(* copied and deciphered that the file is among them.                      *)
(*                                                                         *)
(* Abstracted: a byte is one of BYTE values, the key goes round twice in   *)
(* BLOCK bytes, as 256 values and 0x100 bytes do; an entry of the          *)
(* directory is a record, of which what is deciphered is left out.         *)
(***************************************************************************)
EXTENDS Integers, Sequences, FiniteSets, Bitwise

CONSTANTS
  Disks,   \* disks: their bytes, their directories, what a directory should give
  BYTE,    \* 256
  BLOCK,   \* 0x100
  TRACK,   \* nine sectors
  DISK,    \* 0xb4000
  SLOTS,   \* entries of the directory: 0x1000 / 0x10
  JUNK     \* a byte that was never written to

VARIABLES
  input, disk,
  pc, slot,   \* where the program is, the entry's place
  buf, i, c,  \* filecut's buffer, how far it is deciphered, the key
  files,      \* the files written, by name
  failed      \* history: entries whose file could not be created

vars == <<input, disk, pc, slot, buf, i, c, files, failed>>

SECTOR == 2 * BLOCK

Init ==
  /\ input \in Disks
  /\ disk = <<>> /\ buf = <<>> /\ i = 0 /\ c = 0
  /\ pc = "open" /\ slot = 0
  /\ files = [n \in {} |-> <<>>] /\ failed = {}

CannotOpen ==
  /\ pc = "open"
  /\ pc' = "exit"
  /\ UNCHANGED <<input, disk, slot, buf, i, c, files, failed>>

(* A disk that is too short leaves the end of the array as it was.         *)
Open ==
  /\ pc = "open"
  /\ disk' = [k \in 1 .. DISK |-> IF k \in DOMAIN input.bytes THEN input.bytes[k] ELSE JUNK]
  /\ pc' = "entry"
  /\ UNCHANGED <<input, slot, buf, i, c, files, failed>>

e == input.dir[slot]

readofs(x) == (x.b7 * TRACK + x.b9 \div 2) * SECTOR

copyofs(x) == x.b8 + (x.b9 % 2) * BLOCK

(* Mutant: two sectors for what is left over.                              *)
readSizeMore(x) == ((x.size + copyofs(x)) \div SECTOR + 2) * SECTOR

readSize(x) == ((x.size + copyofs(x)) \div SECTOR + 1) * SECTOR

(* What is copied may reach past the array, onto the stack.                *)
Copy ==
  /\ pc = "entry" /\ slot < Len(input.dir)
  /\ LET x == input.dir[slot + 1] IN
       /\ buf' = [k \in 1 .. readSize(x) |->
                    IF readofs(x) + k \in DOMAIN disk THEN disk[readofs(x) + k] ELSE JUNK]
       /\ \/ pc' = "decrypt"
          \/ readofs(x) + readSize(x) > DISK /\ pc' = "crash"
  /\ slot' = slot + 1
  /\ i' = 0 /\ c' = 0
  /\ UNCHANGED <<input, disk, files, failed>>

(* The table ends with a zero; a full one ends where the stack has one.    *)
EndOfTable ==
  /\ pc = "entry" /\ slot = Len(input.dir)
  /\ pc' \in IF slot < SLOTS THEN {"exit"} ELSE {"exit", "crash"}
  /\ UNCHANGED <<input, disk, slot, buf, i, c, files, failed>>

(* Mutant: the key is no byte and goes up.                                 *)
keyUp(k) == c + 2 * k

key(k) == (c - 2 * k) % BYTE

(* Mutants: the key goes down by one; the block is the same once more.     *)
DecryptAgain ==
  /\ pc = "decrypt" /\ i < Len(buf)
  /\ buf' = [k \in DOMAIN buf |->
               IF k \in i + 1 .. i + BLOCK /\ buf[k] # JUNK THEN buf[k] ^^ key(k - i - 1) ELSE buf[k]]
  /\ UNCHANGED <<input, disk, pc, slot, i, c, files, failed>>

DecryptByOne ==
  /\ pc = "decrypt" /\ i < Len(buf)
  /\ buf' = [k \in DOMAIN buf |->
               IF k \in i + 1 .. i + BLOCK /\ buf[k] # JUNK THEN buf[k] ^^ ((c - (k - i - 1)) % BYTE) ELSE buf[k]]
  /\ i' = i + BLOCK
  /\ c' = IF i' % SECTOR = 0 THEN 0 ELSE key(BLOCK)
  /\ UNCHANGED <<input, disk, pc, slot, files, failed>>

(* One call of decrypt_sub; decrypt begins with key 0 on every sector.     *)
decrypt_sub ==
  /\ pc = "decrypt" /\ i < Len(buf)
  /\ buf' = [k \in DOMAIN buf |->
               IF k \in i + 1 .. i + BLOCK /\ buf[k] # JUNK THEN buf[k] ^^ key(k - i - 1) ELSE buf[k]]
  /\ i' = i + BLOCK
  /\ c' = IF i' % SECTOR = 0 THEN 0 ELSE key(BLOCK)
  /\ UNCHANGED <<input, disk, pc, slot, files, failed>>

(* A name that begins with ff is written with an underline for it.         *)
NameOf(x) == IF x.name[1] = "ff" THEN <<"_", x.name[2]>> ELSE x.name

(* Mutant: a file that cannot be created is the last.                      *)
WriteOrStop ==
  /\ pc = "decrypt" /\ i = Len(buf)
  /\ \/ /\ files' = [n \in DOMAIN files \cup {NameOf(e)} |->
                       IF n = NameOf(e) THEN SubSeq(buf, copyofs(e) + 1, copyofs(e) + e.size) ELSE files[n]]
        /\ pc' = "entry" /\ UNCHANGED failed
     \/ failed' = failed \cup {slot} /\ pc' = "exit" /\ UNCHANGED files
  /\ UNCHANGED <<input, disk, slot, buf, i, c>>

Write ==
  /\ pc = "decrypt" /\ i = Len(buf)
  /\ \/ /\ files' = [n \in DOMAIN files \cup {NameOf(e)} |->
                       IF n = NameOf(e) THEN SubSeq(buf, copyofs(e) + 1, copyofs(e) + e.size) ELSE files[n]]
        /\ UNCHANGED failed
     \/ failed' = failed \cup {slot} /\ UNCHANGED files
  /\ pc' = "entry"
  /\ UNCHANGED <<input, disk, slot, buf, i, c>>

Next == CannotOpen \/ Open \/ Copy \/ EndOfTable \/ decrypt_sub \/ Write

(* One program that nothing waits for runs until it returns.               *)
Spec == Init /\ [][Next]_vars /\ WF_vars(Next)

-------------------------------------------------------------------------------
(* Properties. *)

TypeOK ==
  /\ pc \in {"open", "entry", "decrypt", "exit", "crash"}
  /\ slot \in 0 .. SLOTS /\ c \in 0 .. BYTE - 1
  /\ i \in 0 .. Len(buf) /\ Len(buf) % SECTOR = 0
  /\ \A k \in DOMAIN buf : buf[k] \in 0 .. BYTE - 1 \cup {JUNK}

(* Every file is the text its entry stands for: through the half sectors   *)
(* the directory counts in, the whole sectors that are copied and the key  *)
(* that begins anew with each. Of two files of one name it is the later.   *)
FilesArePlain ==
  \A n \in DOMAIN files :
    \E k \in 1 .. slot :
      /\ NameOf(input.dir[k]) = n /\ files[n] = input.text[k]
      /\ \A j \in k + 1 .. slot :
           NameOf(input.dir[j]) = n => j \in failed \/ (j = slot /\ pc \in {"decrypt", "crash"})

(* Every file in the directory has been written when the program returns,  *)
(* or could not be.                                                        *)
EveryEntryIsCut ==
  (pc = "exit" /\ disk # <<>>) =>
    \A k \in DOMAIN input.dir : k \in failed \/ NameOf(input.dir[k]) \in DOMAIN files

(* A file that ends before the disk's last sector does is never a reason   *)
(* to read what is no disk.                                                *)
NothingBehindTheDisk ==
  pc = "crash" => (slot = SLOTS /\ i = Len(buf)) \/ readofs(e) + copyofs(e) + e.size >= DISK

(* Where the program ends.                                                 *)
Finished == pc \in {"exit", "crash"}
================================================================================
