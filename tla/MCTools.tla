-------------------------------- MODULE MCTools --------------------------------
(***************************************************************************)
(* The decoders, the cutters and the small file tools: programs that run   *)
(* alone, from a command line, on files that may be whole, cut short or    *)
(* wrong. Which program it is is part of the run; the variables of the     *)
(* others stay as they are.                                                *)
(***************************************************************************)
EXTENDS RingSizes, LzwSizes, ToolInputs

VARIABLES
  program,
  input, pc, ret, disk, files, file, out, output, dest, dst,
  at, filesize, tmp, in_size, out_size, flag, i, rb, dic, dic_pos, decode_startaddr,
  decode_length, j, decode_byte, readed_byte, members, named,
  bitlen, bitctr, bytectr, entries, tokenlastlength, destctr,
  rfp, wfp, apos, bitcnt, number, what, datum, leng, buffered,
  pos, insize, flag_remain, copylen, offset,
  source_position, output_size, flags, bit, length,
  input_pos, token, distance,
  k, place, piece, size, flag1, flag2, t, ofs, t_ofs, t_len, dest_ofs,
  a, created, unclosed,
  remain, found, count,
  run, before, disturbed, buf, pending,
  slot, c, failed

ring == <<at, filesize, tmp, in_size, out_size, rb, dic, dic_pos, decode_startaddr,
          decode_length, j, decode_byte, readed_byte, out, members, named>>
lzw == <<bitlen, bitctr, bytectr, entries, tokenlastlength, destctr>>
ls == <<rfp, wfp, apos, bitcnt, number, what, datum, leng, buffered>>
orange == <<insize, flag_remain, copylen>>
mahou == <<source_position, output_size, flags, bit>>
illusion == <<input_pos, token, distance>>
cosmos == <<k, piece, flag1, flag2, t, ofs, t_ofs, t_len, dest_ofs>>
table == <<a, created, unclosed>>
mark == <<remain, found, count>>
filetool == <<run, before, disturbed, pending>>
angel == <<slot, c, failed>>
shared == <<program, input, pc, ret, disk, files, file, output, dest, dst, flag, i, pos, offset,
            length, place, size, buf>>

vars == <<shared, ring, lzw, ls, orange, mahou, illusion, cosmos, table, mark, filetool, angel>>

-------------------------------------------------------------------------------
(* The programs, at the sizes their runs are packed for. The ring and the  *)
(* LZW decoder take theirs from this model's constants.                    *)

Ring == INSTANCE RingLz
Lzw == INSTANCE LzwDecode
Ls == INSTANCE LsDecode WITH BITS <- LsBITS, BYTE <- LsBYTE, HEAD <- LsHEAD, WORD <- 4096, Inputs <- LsRuns
Orange == INSTANCE OrangeDecode WITH BITS <- FlagBITS, LONG <- FlagLONG, Inputs <- OrangeRuns
Mahou == INSTANCE MahouExpand WITH BITS <- FlagBITS, LONG <- FlagLONG, HEAD <- MahouHEAD, Inputs <- MahouRuns
Illusion ==
  INSTANCE IllusionExpand WITH BYTE <- IllusionBYTE, zmd_signature <- IllusionSignature, Inputs <- IllusionRuns
Cosmos ==
  INSTANCE CosmosExpand WITH
    NIBBLE <- CosmosNIBBLE, TABLE <- CosmosTABLE, FRONT <- CosmosFRONT, DEST <- 50, Inputs <- CosmosRuns
Tables == INSTANCE TableCut WITH MAXOPEN <- 3, Inputs <- {}
Table ==
  INSTANCE TableCut WITH
    MAXOPEN <- 3, Inputs <- TableRuns(Tables!rol2, Tables!fuku2, Tables!rolw_tbl, Tables!fuku_tbl)
Mark == INSTANCE MarkCut WITH WORD <- 65536, BEYOND <- 2, Inputs <- MarkRuns
Tool ==
  INSTANCE FileTools WITH
    RUNS <- 2, READSIZE <- 2, Unpacked <- ToolUnpacked, BitXor <- ToolXor, Inputs <- ToolRuns
Angel ==
  INSTANCE AngelMsx WITH BYTE <- 4, BLOCK <- 4, TRACK <- 2, DISK <- 48, SLOTS <- 3, JUNK <- 9, Disks <- MsxDisks

(* The archives of the ring decoders are packed as the theorem about them  *)
(* asks for.                                                               *)
ASSUME RingArchivesArePacked ==
  /\ \A p \in {"lor2", "lenam", "shanghai", "lb"}, text \in RingSmall, cut \in {0, 1, 2} :
       Ring!Packs(RingArchive(p, text, cut), RingPacking(p, SubSeq(text, 1, RingThere(text, cut))))
  /\ \A text \in RingSmaller, after \in {<<u>> : u \in RingTokens} :
       Ring!Packs(RingJoined(text, after), RingPacking("lor2c", text))

(* And so are the sound streams of the LZW decoder.                        *)
ASSUME LzwStreamsArePacked ==
  \A text \in LzwShort \cup LzwGrown : Lzw!Packs(LzwWhole(text), LzwPacking(text))

(* The tools are run as the theorem about them asks for.                   *)
ASSUME MarksAreRead == Mark!ArchivesAreRead
ASSUME ToolsAreRun ==
  Tool!RunsAreOfTools /\ Tool!XorUndoesItself /\ Tool!UnpacksToBytes(ToolStrings(0 .. 3, 3))

-------------------------------------------------------------------------------
(* One program runs; what it has no use for is zero and stays so.          *)

Unused(v, users) == IF program \in users THEN TRUE ELSE /\ v = 0

Init ==
  /\ \/ program = "ring" /\ Ring!Init
     \/ program = "lzw" /\ Lzw!Init
     \/ program = "ls" /\ Ls!Init
     \/ program = "orange" /\ Orange!Init
     \/ program = "mahou" /\ Mahou!Init
     \/ program = "illusion" /\ Illusion!Init
     \/ program = "cosmos" /\ Cosmos!Init
     \/ program = "table" /\ Table!Init
     \/ program = "mark" /\ Mark!Init
     \/ program = "file" /\ Tool!Init
     \/ program = "angel" /\ Angel!Init
  /\ IF program = "ring" THEN TRUE
     ELSE /\ at = 0 /\ filesize = 0 /\ tmp = 0 /\ in_size = 0 /\ out_size = 0 /\ rb = 0
          /\ dic = 0 /\ dic_pos = 0 /\ decode_startaddr = 0 /\ decode_length = 0
          /\ j = 0 /\ decode_byte = 0 /\ readed_byte = 0 /\ out = 0 /\ members = 0
          /\ named = 0
  /\ Unused(flag, {"ring", "orange"})
  /\ Unused(i, {"ring", "lzw", "table", "angel"})
  /\ IF program = "lzw" THEN TRUE
     ELSE /\ bitlen = 0 /\ bitctr = 0 /\ bytectr = 0 /\ entries = 0
          /\ tokenlastlength = 0 /\ destctr = 0
  /\ Unused(dest, {"lzw", "cosmos"})
  /\ IF program = "ls" THEN TRUE
     ELSE /\ rfp = 0 /\ wfp = 0 /\ apos = 0 /\ bitcnt = 0 /\ number = 0 /\ what = 0
          /\ datum = 0 /\ leng = 0 /\ buffered = 0
  /\ Unused(dst, {"ls", "orange"})
  /\ Unused(disk, {"ls", "table", "angel"})
  /\ Unused(ret, {"ls", "mahou", "illusion", "table", "mark", "file"})
  /\ Unused(pos, {"orange", "file"})
  /\ IF program = "orange" THEN TRUE
     ELSE /\ insize = 0 /\ flag_remain = 0 /\ copylen = 0
  /\ Unused(offset, {"orange", "mahou", "illusion", "mark"})
  /\ IF program = "mahou" THEN TRUE
     ELSE /\ source_position = 0 /\ output_size = 0 /\ flags = 0 /\ bit = 0
  /\ Unused(length, {"mahou", "illusion"})
  /\ Unused(output, {"mahou", "illusion"})
  /\ Unused(file, {"mahou", "illusion"})
  /\ IF program = "illusion" THEN TRUE
     ELSE /\ input_pos = 0 /\ token = 0 /\ distance = 0
  /\ IF program = "cosmos" THEN TRUE
     ELSE /\ k = 0 /\ piece = 0 /\ flag1 = 0 /\ flag2 = 0 /\ t = 0 /\ ofs = 0
          /\ t_ofs = 0 /\ t_len = 0 /\ dest_ofs = 0
  /\ Unused(place, {"cosmos", "table"})
  /\ Unused(size, {"cosmos", "mark"})
  /\ Unused(files, {"cosmos", "mark", "file", "angel"})
  /\ IF program = "table" THEN TRUE
     ELSE /\ a = 0 /\ created = 0 /\ unclosed = 0
  /\ IF program = "mark" THEN TRUE
     ELSE /\ remain = 0 /\ found = 0 /\ count = 0
  /\ IF program = "file" THEN TRUE
     ELSE /\ run = 0 /\ before = 0 /\ disturbed = 0 /\ pending = 0
  /\ Unused(buf, {"file", "angel"})
  /\ IF program = "angel" THEN TRUE
     ELSE /\ slot = 0 /\ c = 0 /\ failed = 0

Idle(users, group) == IF program \in users THEN TRUE ELSE UNCHANGED group

Rest ==
  /\ UNCHANGED program
  /\ Idle({"ring"}, ring)
  /\ Idle({"ring", "orange"}, flag)
  /\ Idle({"ring", "lzw", "table", "angel"}, i)
  /\ Idle({"lzw"}, lzw)
  /\ Idle({"lzw", "cosmos"}, dest)
  /\ Idle({"ls"}, ls)
  /\ Idle({"ls", "orange"}, dst)
  /\ Idle({"ls", "table", "angel"}, disk)
  /\ Idle({"ls", "mahou", "illusion", "table", "mark", "file"}, ret)
  /\ Idle({"orange", "file"}, pos)
  /\ Idle({"orange"}, orange)
  /\ Idle({"orange", "mahou", "illusion", "mark"}, offset)
  /\ Idle({"mahou"}, mahou)
  /\ Idle({"mahou", "illusion"}, <<length, output, file>>)
  /\ Idle({"illusion"}, illusion)
  /\ Idle({"cosmos"}, cosmos)
  /\ Idle({"cosmos", "table"}, place)
  /\ Idle({"cosmos", "mark"}, size)
  /\ Idle({"cosmos", "mark", "file", "angel"}, files)
  /\ Idle({"table"}, table)
  /\ Idle({"mark"}, mark)
  /\ Idle({"file"}, filetool)
  /\ Idle({"file", "angel"}, buf)
  /\ Idle({"angel"}, angel)

Step ==
  \/ program = "ring" /\ Ring!Next /\ Rest
  \/ program = "lzw" /\ Lzw!Next /\ Rest
  \/ program = "ls" /\ Ls!Next /\ Rest
  \/ program = "orange" /\ Orange!Next /\ Rest
  \/ program = "mahou" /\ Mahou!Next /\ Rest
  \/ program = "illusion" /\ Illusion!Next /\ Rest
  \/ program = "cosmos" /\ Cosmos!Next /\ Rest
  \/ program = "table" /\ Table!Next /\ Rest
  \/ program = "mark" /\ Mark!Next /\ Rest
  \/ program = "file" /\ Tool!Step /\ Rest
  \/ program = "angel" /\ Angel!Next /\ Rest

Next == Step \/ (program = "file" /\ Tool!Interrupt /\ Rest)

(* A program that nothing waits for runs until it returns, unless somebody *)
(* interrupts it.                                                          *)
Spec == Init /\ [][Next]_vars /\ WF_vars(Step)

-------------------------------------------------------------------------------
(* Properties. *)

(* Every place, count and byte a program keeps stays within what it is     *)
(* kept in, whatever the file says.                                        *)
TypeOK ==
  CASE program = "ring" -> Ring!TypeOK
    [] program = "lzw" -> Lzw!TypeOK
    [] program = "ls" -> Ls!TypeOK
    [] program = "orange" -> Orange!TypeOK
    [] program = "mahou" -> Mahou!TypeOK
    [] program = "illusion" -> Illusion!TypeOK
    [] program = "cosmos" -> Cosmos!TypeOK
    [] program = "table" -> Table!TypeOK
    [] program = "mark" -> Mark!TypeOK
    [] program = "file" -> Tool!TypeOK
    [] program = "angel" -> Angel!TypeOK

(* A decoder writes what was packed, as far as the file goes: its window,  *)
(* its table of words and its counts stay in step with what it has         *)
(* written, and a file that is wrong is refused where the decoder can see  *)
(* it. Of archives joined in one file this is said of the first.           *)
DecodesThePacked ==
  /\ program = "ring" => Ring!RingIsHistory /\ Ring!DecodesWhatIsThere
  /\ program = "lzw" => Lzw!WidthsSuffice /\ Lzw!WritesWhatWasPacked /\ Lzw!PointsBack
  /\ program = "ls" => Ls!DecodesThePacked /\ Ls!WholeOrNothing
  /\ program = "orange" => Orange!CountFollowsPointer /\ Orange!DecodesThePacked
  /\ program = "mahou" => Mahou!ExpandsOrRefuses
  /\ program = "illusion" => Illusion!ExpandsOrRefuses
  /\ program = "cosmos" => Cosmos!FilesAreThePieces /\ Cosmos!CopiesOwnBytes /\ Cosmos!AFileForEach

(* A cutter writes every file its archive holds, whole and under its own   *)
(* number, nothing from outside the archive, and says so when a file could *)
(* not be written.                                                         *)
CutsWhatIsThere ==
  /\ program = "table" =>
       /\ Table!CutsWhatIsThere /\ Table!CutsEverything
       /\ Table!NothingFromOutside /\ Table!TellsWhatFailed
  /\ program = "mark" => Mark!EveryTuneIsCut /\ Mark!EveryTuneIsFound /\ Mark!StaysInside
  /\ program = "angel" => Angel!FilesArePlain /\ Angel!EveryEntryIsCut /\ Angel!NothingBehindTheDisk

(* Every byte a file tool is given is accounted for, however it fails or   *)
(* is interrupted: an input that is not written over is kept; one that is  *)
(* renamed is kept by that run, and lost to a second run that renames over *)
(* it; one that is written over in place is a beginning of what the tool   *)
(* makes of it. A refusal leaves no trace, a run does its work.            *)
AccountsForTheInput == program = "file" => Tool!AccountsForTheInput

Finished ==
  CASE program = "ring" -> Ring!Finished
    [] program = "lzw" -> Lzw!Finished
    [] program = "ls" -> Ls!Finished
    [] program = "orange" -> Orange!Finished
    [] program = "mahou" -> Mahou!Finished
    [] program = "illusion" -> Illusion!Finished
    [] program = "cosmos" -> Cosmos!Finished
    [] program = "table" -> Table!Finished
    [] program = "mark" -> Mark!Finished
    [] program = "file" -> Tool!Finished
    [] program = "angel" -> Angel!Finished

(* Every program comes to its end, whatever the file, and the two          *)
(* expanders that can refuse a stream refuse only a broken one.            *)
EndsAndRefusesOnlyTheBroken ==
  /\ [][program = "mahou" => Mahou!RefusesOnlyBroken]_vars
  /\ [][program = "illusion" => Illusion!RefusesOnlyBroken]_vars
  /\ <>Finished
================================================================================
