------------------------------- MODULE ToolInputs -------------------------------
(***************************************************************************)
(* What the programs of MCTools are run on.                                *)
(*                                                                         *)
(* The decoders: texts of a few tokens, packed here by the formats, with   *)
(* what they stand for, by other arithmetic than the decoders'; whole, cut *)
(* short and with what no packer makes. Each format is scaled to bytes of  *)
(* a few values.                                                           *)
(*                                                                         *)
(* The cutters and the small file tools: archives laid down file by file   *)
(* first, with the table written from that in the format of each cutter;   *)
(* archives of marked sectors; files with what can fail failing once; an   *)
(* encrypted disk.                                                         *)
(***************************************************************************)
EXTENDS Integers, Sequences, SequencesExt, FiniteSets, FiniteSetsExt, Bitwise

-------------------------------------------------------------------------------
(* RingLz. The archives of up to three tokens, whole and cut short anywhere, packed
   here by the format: the bytes of two tokens behind the flag of each. *)

RingFLAGS == 2
RingNIBBLE == 2
RingHEAD == 2
RingBYTE == RingNIBBLE * RingNIBBLE
RingDICT == RingBYTE * RingNIBBLE

RingByte(n) == [kind |-> "byte", b |-> n]
RingCopyOf(a, n) == [kind |-> "copy", addr |-> a, len |-> n]
RingTokens == {RingByte(1), RingByte(2)} \cup {RingCopyOf(a, n) : a \in {0, 3, 6}, n \in {3, 4}}
RingTexts == UNION {[1 .. n -> RingTokens] : n \in 1 .. 3}

(* What the tokens of an archive stand for: a copy goes back so far in     *)
(* what has been written, with zeroes before the first byte.               *)
RingBack(p, n, a) ==
  IF p = "lb" THEN a + 1
  ELSE LET dist == (n + (RingDICT - RingNIBBLE - 2) - a) % RingDICT IN IF dist = 0 THEN RingDICT ELSE dist
RingPlain(p, text) ==
  LET Token(o, t) ==
        IF t.kind = "byte" THEN Append(o, t.b)
        ELSE LET back == RingBack(p, Len(o), t.addr)
                 OneMore(s, k) == Append(s, IF back <= Len(s) THEN s[Len(s) + 1 - back] ELSE 0)
             IN  FoldLeft(OneMore, o, [k \in 1 .. t.len |-> k])
  IN  FoldLeft(Token, <<>>, text)

RingPacked(t) ==
  IF t.kind = "byte" THEN <<t.b>>
  ELSE <<t.addr % RingBYTE, (t.addr \div RingBYTE) * RingNIBBLE + t.len - 3>>
RingFlagOf(group) ==
  FoldLeft(LAMBDA s, k : s + (IF group[k].kind = "byte" THEN 2 ^ (k - 1) ELSE 0), 0,
           [k \in DOMAIN group |-> k])
RingGroups(text) ==
  [g \in 1 .. (Len(text) + RingFLAGS - 1) \div RingFLAGS |->
     SubSeq(text, (g - 1) * RingFLAGS + 1, IF g * RingFLAGS < Len(text) THEN g * RingFLAGS ELSE Len(text))]
RingBody(text) ==
  FoldLeft(LAMBDA s, g : s \o FoldLeft(LAMBDA r, t : r \o RingPacked(t), <<RingFlagOf(g)>>, g), <<>>, RingGroups(text))
RingSized(p, text) ==
  LET n == Len(RingPlain(p, text))
  IN  (IF p \in {"lenam", "shanghai"} THEN <<n \div RingBYTE, n % RingBYTE>> ELSE <<n % RingBYTE, n \div RingBYTE>>)
      \o RingBody(text)

(* The tokens of a text that are whole when the last bytes are cut off.    *)
RingThere(text, cut) ==
  Max({0} \cup {n \in 1 .. Len(text) : Len(RingBody(SubSeq(text, 1, n))) <= Len(RingBody(text)) - cut})

RingArchive(p, text, cut) ==
  [prog |-> p, file |-> SubSeq(RingSized(p, text), 1, RingHEAD + Len(RingBody(text)) - cut),
   plain |-> <<RingPlain(p, SubSeq(text, 1, RingThere(text, cut)))>>, whole |-> cut = 0]
(* The tokens of an archive that are there, and where they are.            *)
RingPacking(p, text) ==
  [text |-> text,
   at |-> [k \in 1 .. Len(text) + 1 |-> RingHEAD + Len(RingBody(SubSeq(text, 1, k - 1)))],
   to |-> [k \in 1 .. Len(text) + 1 |-> Len(RingPlain(p, SubSeq(text, 1, k - 1)))]]

RingJoined(a, b) ==
  [prog |-> "lor2c", file |-> RingSized("lor2c", a) \o RingSized("lor2c", b),
   plain |-> <<RingPlain("lor2c", a), RingPlain("lor2c", b)>>, whole |-> TRUE]

RingSmall == {t \in RingTexts : Len(RingPlain("lor2", t)) < RingBYTE * RingBYTE}
RingSmaller == {t \in RingTexts : Len(t) <= 2}
RingRuns ==
  {RingArchive(p, t, cut) : p \in {"lor2", "lenam", "shanghai", "lb"}, t \in RingSmall, cut \in {0, 1, 2}}
  \cup {RingJoined(a, b) : a \in RingSmaller, b \in {<<t>> : t \in RingTokens}}

-------------------------------------------------------------------------------
(* LzwDecode. Streams of up to four tokens, and longer ones that need tokens of every
   length, packed here; whole, broken off, longer than their header says and
   with tokens that are not known. A byte has two bits. *)

LzwBITS == 2
LzwMAXBITS == 5
LzwRESET == 2^LzwBITS
LzwTERMINATOR == LzwRESET + 1
LzwFIRST == LzwRESET + 2

LzwLowest(w, n) == IF w >= LzwMAXBITS \/ LzwFIRST + n - 1 < 2^w THEN w ELSE w + 1

(* The tokens since the last reset decide how many bits the next one has.  *)
LzwSince(t, k) ==
  LET resets == {0} \cup {m \in 1 .. k - 1 : t[m] = LzwRESET}
  IN  k - 1 - (CHOOSE m \in resets : \A n \in resets : n <= m)
LzwWidth(t, k) ==
  LET n == LzwSince(t, k) IN LzwLowest(LzwLowest(LzwLowest(LzwBITS + 1, n), n), n)

LzwBits(v, n) == [b \in 1 .. n |-> (v \div 2^(b - 1)) % 2]
LzwBitsOf(t) ==
  LET upto[k \in 0 .. Len(t)] == IF k = 0 THEN <<>> ELSE upto[k - 1] \o LzwBits(t[k], LzwWidth(t, k))
  IN  upto[Len(t)]
LzwPacked(t) ==
  LET s == LzwBitsOf(t)
      at(k) == IF k <= Len(s) THEN s[k] ELSE 0
  IN  [k \in 1 .. (Len(s) + LzwBITS - 1) \div LzwBITS |-> at(2 * k - 1) + 2 * at(2 * k)]

(* What the tokens stand for: every token since the last reset makes a new *)
(* word, its own text and the first byte of the next token's.              *)
LzwTexts(t) ==
  LET Text(s, k) ==
        LET word == k - 1 - LzwSince(t, k) + t[k] - LzwFIRST + 1
        IN  IF t[k] = LzwRESET THEN <<>>
            ELSE IF t[k] < LzwRESET THEN <<t[k]>>
            ELSE Append(s[word], IF word + 1 = k THEN s[word][1] ELSE s[word + 1][1])
      upto[k \in 0 .. Len(t)] ==
        IF k = 0 THEN <<>> ELSE LET s == upto[k - 1] IN Append(s, Text(s, k))
  IN  upto[Len(t)]
LzwPlain(t) ==
  LET texts == LzwTexts(t)
      upto[k \in 0 .. Len(t)] == IF k = 0 THEN <<>> ELSE upto[k - 1] \o texts[k]
  IN  upto[Len(t)]

LzwLiterals == {0, 1}
LzwNext1(t) == LzwLiterals \cup {LzwRESET} \cup (LzwFIRST .. LzwFIRST + (IF t = <<>> THEN -1 ELSE LzwSince(t, Len(t) + 1) - 1))
LzwLonger(S) == UNION {{Append(t, x) : x \in LzwNext1(t)} : t \in S}
LzwShort == {<<>>} \cup LzwLonger({<<>>}) \cup LzwLonger(LzwLonger({<<>>})) \cup LzwLonger(LzwLonger(LzwLonger({<<>>})))
         \cup LzwLonger(LzwLonger(LzwLonger(LzwLonger({<<>>}))))

LzwOnes(n) == [k \in 1 .. n |-> k % 2]
LzwGrown == {LzwOnes(n) \o <<x>> : n \in {3, 7, 10, 11, 25, 26, 27, 30}, x \in {0, LzwFIRST, LzwFIRST + 2}}
         \cup {LzwOnes(n) \o <<LzwRESET, 1, LzwFIRST>> : n \in {3, 11, 28}}
         \cup {<<0>> \o [k \in 1 .. n |-> LzwFIRST + k - 1] : n \in {9, 12}}
         \cup {LzwOnes(26) \o <<2^LzwMAXBITS - 1, 2^LzwMAXBITS - 2>>}

LzwWhole(t) ==
  [src |-> LzwPacked(t \o <<LzwTERMINATOR>>), length |-> Len(LzwPlain(t)), plain |-> LzwPlain(t), sound |-> TRUE]
(* Where each of its tokens lies and what it gives.                        *)
LzwPacking(t) ==
  LET text == t \o <<LzwTERMINATOR>>
  IN  [text |-> text,
       bit |-> [k \in 1 .. Len(text) + 1 |-> Len(LzwBitsOf(SubSeq(text, 1, k - 1)))],
       width |-> [k \in 1 .. Len(text) |-> LzwWidth(text, k)],
       to |-> [k \in 1 .. Len(text) |-> Len(LzwPlain(SubSeq(t, 1, k - 1)))],
       since |-> [k \in 1 .. Len(text) |-> k - 1 - LzwSince(text, k)]]
LzwBroken(t) == [LzwWhole(t) EXCEPT !.src = SubSeq(@, 1, Len(@) - 1), !.sound = FALSE]
LzwShorter(t, n) == [LzwWhole(t) EXCEPT !.length = @ - n, !.sound = FALSE]
LzwOdd(t) == [src |-> LzwPacked(t), length |-> 6, plain |-> <<>>, sound |-> FALSE]

LzwOddTexts == {<<7>>, <<7, 6>>, <<7, 6, 7>>, <<1, 7, 6>>, <<1, 7, 7, 7, 6>>, <<0, 6, 7, 8, 9, 9>>}
LzwRuns ==
  {LzwWhole(t) : t \in LzwShort \cup LzwGrown} \cup {LzwBroken(t) : t \in LzwShort \cup LzwGrown}
  \cup UNION {{LzwShorter(t, n) : n \in {m \in 1 .. 3 : m <= Len(LzwPlain(t))}} : t \in LzwShort \cup LzwGrown}
  \cup {LzwOdd(t) : t \in LzwOddTexts}
  \cup {[LzwWhole(LzwOnes(2)) EXCEPT !.src = <<>>, !.sound = FALSE]}


-------------------------------------------------------------------------------
(* LsDecode. Archives of up to three tokens, whole, one byte short, and with copies no
   packer makes. The numbers are packed here by what they stand for: n + 2 in
   binary, its leading one replaced by a one for each further bit and a zero. *)

LsBITS == 2
LsBYTE == 4
LsHEAD == 6

LsByte(n) == [kind |-> "byte", n |-> n]
LsCopyOf(d, l) == [kind |-> "copy", n |-> LsBYTE + d, l |-> l]
LsTable == [n \in 0 .. LsBYTE - 1 |-> (n + 1) % LsBYTE]

LsWidth(n) == CHOOSE w \in 1 .. 6 : 2 ^ w <= n + 2 /\ n + 2 < 2 ^ (w + 1)
LsNumber(n) ==
  LET w == LsWidth(n)
  IN  [k \in 1 .. w - 1 |-> 1] \o <<0>> \o [k \in 1 .. w |-> ((n + 2) \div 2 ^ (w - k)) % 2]
LsPacked(t) == LsNumber(t.n) \o (IF t.kind = "copy" THEN LsNumber(t.l - 3) ELSE <<>>)
LsBytes(bits) ==
  LET rest == (LsBITS - (Len(bits) % LsBITS)) % LsBITS IN bits \o [k \in 1 .. rest |-> 1]

LsPlain(text) ==
  LET Token(o, t) ==
        IF t.kind = "byte" THEN Append(o, LsTable[t.n])
        ELSE LET d == t.n - LsBYTE
             IN  FoldLeft(LAMBDA s, k : Append(s, s[Len(s) + 1 - d]), o, [k \in 1 .. t.l |-> k])
  IN  FoldLeft(Token, <<>>, text)

LsSound(text) ==
  \A k \in DOMAIN text :
    text[k].kind = "copy" =>
      /\ text[k].n > LsBYTE
      /\ text[k].n - LsBYTE <= FoldLeft(LAMBDA s, t : s + (IF t.kind = "byte" THEN 1 ELSE t.l), 0, SubSeq(text, 1, k - 1))

LsTokens == {LsByte(n) : n \in 0 .. 1} \cup {LsCopyOf(d, l) : d \in 0 .. 2, l \in {3, 5}}
LsTexts == UNION {[1 .. n -> LsTokens] : n \in 1 .. 3}

(* The data of number 1, behind that of number 0; off bytes of the file it *)
(* decodes to are wanted no more.                                          *)
LsArchive(p, text, cut, off) ==
  LET body == LsBytes(FoldLeft(LAMBDA s, t : s \o LsPacked(t), <<>>, text))
      entries == LsHEAD + 2 * (IF p = "ls10" THEN 32 ELSE 12)
      base == entries + 1
      plain == IF LsSound(text) THEN LsPlain(text) ELSE <<>>
      size == IF LsSound(text) THEN Len(plain) - off ELSE 4
  IN  [prog |-> p, num |-> 1, table |-> LsTable, base |-> entries,
       bits |-> <<1, 1>> \o body, size |-> base + (Len(body) \div LsBITS),
       entry |-> [arcpos |-> base, arcsize |-> (Len(body) \div LsBITS) - cut, dstsize |-> size],
       kind |-> IF ~LsSound(text) THEN "bad" ELSE IF cut > 0 THEN "short" ELSE "whole",
       plain |-> IF LsSound(text) THEN SubSeq(plain, 1, size) ELSE <<>>]

LsOutside ==
  LET a == LsArchive("ls11", <<LsByte(1)>>, 0, 0)
  IN  {[a EXCEPT !.num = 9], [a EXCEPT !.entry.arcsize = 20]}

LsRuns ==
  {LsArchive("ls11", t, 0, 0) : t \in LsTexts}
  \cup {LsArchive("ls11", t, 1, 0) : t \in {u \in LsTexts : Len(u) < 3}}
  \cup {LsArchive("ls11", t, 0, 1) : t \in {u \in LsTexts : LsSound(u) /\ Last(u).kind = "copy"}}
  \cup {LsArchive("ls10", t, 0, 0) : t \in {u \in LsTexts : LsSound(u) /\ Len(u) < 3}}
  \cup LsOutside

-------------------------------------------------------------------------------
(* Packing for the decoders of bits and bytes, in the order they ask for them. A
   flag byte stands where the first of its bits is wanted. *)

FlagBITS == 3

BitItem(b) == [kind |-> "bit", v |-> b]
ByteItem(v) == [kind |-> "byte", v |-> v]

Pack(items) ==
  LET Item(s, x) ==
        IF x.kind = "byte" THEN [s EXCEPT !.out = Append(@, x.v)]
        ELSE IF s.used = FlagBITS
             THEN [out |-> Append(s.out, x.v * 2 ^ (FlagBITS - 1)), flag |-> Len(s.out) + 1, used |-> 1]
             ELSE [s EXCEPT !.out[s.flag] = @ + x.v * 2 ^ (FlagBITS - 1 - s.used), !.used = @ + 1]
  IN  FoldLeft(Item, [out |-> <<>>, flag |-> 0, used |-> FlagBITS], items).out

(* What bytes and copies stand for; a copy of zeroes before the first byte.*)
FlagBack(s, dist) == IF dist <= Len(s) THEN s[Len(s) + 1 - dist] ELSE 0
Expand(text) ==
  LET Token(o, t) ==
        IF t.kind = "byte" THEN Append(o, t.b)
        ELSE FoldLeft(LAMBDA s, k : Append(s, FlagBack(s, t.dist)), o, [k \in 1 .. t.len |-> k])
  IN  FoldLeft(Token, <<>>, text)

(* Every copy goes back to a byte that is there.                           *)
WithinText(text) ==
  \A k \in DOMAIN text :
    text[k].kind = "copy" => text[k].dist <= Len(Expand(SubSeq(text, 1, k - 1)))

-------------------------------------------------------------------------------
(* OrangeDecode. Texts of up to four tokens, packed here; of up to three in both
   ways the assignment of a copy can be compiled. *)

FlagLONG == 4
FlagBYTE == 2 ^ FlagBITS

OrangeByte(n) == [kind |-> "byte", b |-> n]
OrangeCopyOf(how, d, n) == [kind |-> "copy", how |-> how, dist |-> d, len |-> n]
OrangeTokens ==
  {OrangeByte(1), OrangeByte(6)} \cup {OrangeCopyOf("near", d, n) : d \in {1, 2, 4}, n \in {2, 5}}
  \cup {OrangeCopyOf("far", d, n) : d \in {1, 3}, n \in {3, FlagLONG + 1}}
  \cup {OrangeCopyOf("long", d, n) : d \in {1, 2}, n \in {1, FlagBYTE}}
OrangeTexts(n) == {t \in [1 .. n -> OrangeTokens] : WithinText(t)}

OrangeWord(w) == <<ByteItem(w \div FlagBYTE), ByteItem(w % FlagBYTE)>>
OrangeItems(t) ==
  IF t.kind = "byte" THEN <<BitItem(1), ByteItem(t.b)>>
  ELSE IF t.how = "near"
  THEN <<BitItem(0), BitItem(0), BitItem((t.len - 2) \div 2), BitItem((t.len - 2) % 2),
         ByteItem(FlagBYTE - t.dist)>>
  ELSE <<BitItem(0), BitItem(1)>>
       \o (IF t.how = "far" THEN OrangeWord(FlagBYTE * FlagBYTE - t.dist * FlagLONG + t.len - 2)
           ELSE OrangeWord(FlagBYTE * FlagBYTE - t.dist * FlagLONG) \o <<ByteItem(t.len - 1)>>)

OrangeFile(text, late) ==
  [src |-> Pack(FoldLeft(LAMBDA s, t : s \o OrangeItems(t), <<>>, text)), plain |-> Expand(text), late |-> late]
OrangeShort == UNION {OrangeTexts(n) : n \in 1 .. 3}
OrangeRuns == {OrangeFile(t, FALSE) : t \in OrangeShort \cup OrangeTexts(4)} \cup {OrangeFile(t, TRUE) : t \in OrangeShort}

-------------------------------------------------------------------------------
(* MahouExpand. Texts of up to four tokens, packed here, whole, cut short by a byte, with a
   byte left over, and with a size that cuts the last copy off. *)

MahouHEAD == 3

MahouByte(n) == [kind |-> "byte", b |-> n]
MahouCopyOf(d, n) == [kind |-> "copy", dist |-> d, len |-> n]
MahouTokens == {MahouByte(1), MahouByte(3)} \cup {MahouCopyOf(d, n) : d \in {1, 2, 5, (FlagBYTE * FlagBYTE) \div FlagLONG}, n \in {3, FlagLONG + 2}}
MahouFew == {MahouByte(1), MahouCopyOf(2, 3), MahouCopyOf((FlagBYTE * FlagBYTE) \div FlagLONG, FlagLONG + 2)}
MahouTexts == UNION {[1 .. n -> MahouTokens] : n \in 1 .. 3} \cup [1 .. 4 -> MahouFew]

MahouItems(t) ==
  IF t.kind = "byte" THEN <<BitItem(1), ByteItem(t.b)>>
  ELSE LET w == FlagBYTE * FlagBYTE - t.dist * FlagLONG + t.len - 3
       IN  <<BitItem(0), ByteItem(w \div FlagBYTE), ByteItem(w % FlagBYTE)>>
MahouBody(text) == Pack(FoldLeft(LAMBDA s, t : s \o MahouItems(t), <<>>, text))
MahouSized(n) == [k \in 1 .. MahouHEAD |-> (n \div FlagBYTE ^ (MahouHEAD - k)) % FlagBYTE]

MahouFile(text) ==
  LET plain == Expand(text)
  IN  [source |-> MahouSized(Len(plain)) \o MahouBody(text), plain |-> plain, fault |-> "none"]
MahouOff(f) ==
  LET n == Len(f.plain) - 2
  IN  [f EXCEPT !.source = MahouSized(n) \o SubSeq(@, MahouHEAD + 1, Len(@)), !.plain = SubSeq(@, 1, n)]
MahouCut(f) == [f EXCEPT !.source = SubSeq(@, 1, Len(@) - 1), !.fault = "short"]
MahouOver(f) == [f EXCEPT !.source = Append(@, 0), !.fault = "over"]

MahouWhole == {MahouFile(t) : t \in MahouTexts}
MahouRuns ==
  MahouWhole \cup {MahouCut(f) : f \in MahouWhole} \cup {MahouOver(f) : f \in MahouWhole}
  \cup {MahouOff(MahouFile(t)) : t \in {u \in MahouTexts : Last(u).kind = "copy"}}
  \cup {[source |-> <<0, 0>>, plain |-> <<>>, fault |-> "short"],
        [source |-> [k \in 1 .. MahouHEAD + 1 |-> 0], plain |-> <<>>, fault |-> "empty"]}

-------------------------------------------------------------------------------
(* IllusionExpand. Files of up to three tokens, packed here, with and without a score in them;
   whole, a byte short, with a size one byte less, with the first copy going
   back too far. *)

IllusionBYTE == 8

IllusionTable == <<0, 2, 3>>
IllusionSignature == <<1, 2>>
IllusionRun(s) == [kind |-> "bytes", bytes |-> s, dist |-> 0, len |-> 0]
IllusionCopyOf(d, n) == [kind |-> "copy", bytes |-> <<>>, dist |-> d, len |-> n]
IllusionTokens ==
  {IllusionRun(<<1>>), IllusionRun(<<1, 2>>), IllusionRun(<<3, 1, 2, 5, 1, 2>>)}
  \cup {IllusionCopyOf(d, n) : d \in {k + 1 : k \in Range(IllusionTable)}, n \in {1, 3, IllusionBYTE}}
IllusionTexts == UNION {[1 .. n -> IllusionTokens] : n \in 1 .. 3}

IllusionPlain(text) ==
  LET Token1(o, t) ==
        IF t.kind = "bytes" THEN o \o t.bytes
        ELSE FoldLeft(LAMBDA s, k : Append(s, IF t.dist <= Len(s) THEN s[Len(s) + 1 - t.dist] ELSE 0),
                      o, [k \in 1 .. t.len |-> k])
  IN  FoldLeft(Token1, <<>>, text)
IllusionSound(text) ==
  \A k \in DOMAIN text : text[k].kind = "copy" => text[k].dist <= Len(IllusionPlain(SubSeq(text, 1, k - 1)))

IllusionPacked(t) ==
  IF t.kind = "copy"
  THEN <<(CHOOSE k \in DOMAIN IllusionTable : IllusionTable[k] = t.dist - 1) - 1, t.len % IllusionBYTE>>
  ELSE IF Len(IllusionTable) + Len(t.bytes) - 1 < IllusionBYTE - 1 THEN <<Len(IllusionTable) + Len(t.bytes) - 1>> \o t.bytes
  ELSE <<IllusionBYTE - 1, Len(t.bytes)>> \o t.bytes

IllusionScore(s) ==
  Min({Len(s)} \cup {i \in 0 .. Len(s) - Len(IllusionSignature) : SubSeq(s, i + 1, i + Len(IllusionSignature)) = IllusionSignature})

IllusionFile(text, carve) ==
  LET plain == IllusionPlain(text)
      data == IllusionTable \o FoldLeft(LAMBDA s, t : s \o IllusionPacked(t), <<>>, text)
  IN  [header |-> TRUE, table_size |-> Len(IllusionTable), output_size |-> Len(plain), body |-> data,
       plain |-> plain, carve |-> carve, fault |-> IF IllusionSound(text) THEN "none" ELSE "distance",
       score |-> IF IllusionScore(plain) = Len(plain) THEN -1 ELSE IllusionScore(plain)]
IllusionCut(f) == [f EXCEPT !.body = SubSeq(@, 1, Len(@) - 1), !.fault = "short"]
IllusionLess(f) == [f EXCEPT !.output_size = @ - 1, !.fault = "size"]

IllusionWhole == {IllusionFile(t, FALSE) : t \in IllusionTexts}
IllusionRuns ==
  IllusionWhole \cup {IllusionFile(t, TRUE) : t \in {u \in IllusionTexts : IllusionSound(u)}}
  \cup {IllusionCut(f) : f \in IllusionWhole} \cup {IllusionLess(IllusionFile(t, FALSE)) : t \in {u \in IllusionTexts : Last(u) # IllusionRun(<<1>>) /\ Last(u).len # 1}}
  \cup {[f EXCEPT !.header = FALSE, !.fault = "header"] : f \in {IllusionFile(<<IllusionRun(<<1>>)>>, FALSE)}}
  \cup {[f EXCEPT !.body = <<0>>, !.fault = "table"] : f \in {IllusionFile(<<IllusionRun(<<1>>)>>, FALSE)}}

-------------------------------------------------------------------------------
(* CosmosExpand. Files of two pieces of up to three tokens, and of a table that is full,
   packed here in the formats of the three programs. *)

CosmosNIBBLE == 4
CosmosBYTE == CosmosNIBBLE * CosmosNIBBLE
CosmosHIGH == CosmosBYTE \div 8
CosmosUNWRITTEN == CosmosBYTE
CosmosTABLE == 4
CosmosFRONT == 2

CosmosF1 == 9
CosmosF2 == 10
CosmosByte(n) == [kind |-> "byte", n |-> n, dist |-> 0, len |-> 0]
CosmosCopyOf(how, d, n) == [kind |-> how, n |-> 0, dist |-> d, len |-> n]
CosmosTokens(p) ==
  {CosmosByte(1), CosmosByte(2)} \cup {CosmosCopyOf("near", d, n) : d \in {1, 3}, n \in {1, 3}}
  \cup {CosmosCopyOf("far", d, n) : d \in {1, 2}, n \in {2, 5}}
  \cup (IF p = "magicr" THEN {} ELSE {CosmosCopyOf("long", 1, CosmosBYTE + 2)})

CosmosPlain(text) ==
  LET Token1(o, x) ==
        IF x.kind = "byte" THEN Append(o, x.n)
        ELSE FoldLeft(LAMBDA s, n : Append(s, IF x.dist <= Len(s) THEN s[Len(s) + 1 - x.dist] ELSE CosmosUNWRITTEN),
                      o, [n \in 1 .. x.len |-> n])
  IN  FoldLeft(Token1, <<>>, text)
CosmosSound(text) ==
  \A n \in DOMAIN text : text[n].kind # "byte" => text[n].dist <= Len(CosmosPlain(SubSeq(text, 1, n - 1)))
CosmosTexts(p, most) == {x \in UNION {[1 .. n -> CosmosTokens(p)] : n \in 1 .. most} : CosmosSound(x)}

CosmosPacked(x) ==
  IF x.kind = "byte" THEN <<x.n>>
  ELSE IF x.kind = "near" THEN <<CosmosF2, (x.dist - 1) * CosmosNIBBLE + x.len>>
  ELSE IF x.kind = "far" THEN <<CosmosF1, x.dist, 4 * CosmosHIGH, x.len>>
  ELSE <<CosmosF1, x.dist, 0, x.len % CosmosBYTE, x.len \div CosmosBYTE>>

(* Behind the tokens of a piece there may be an end mark and a byte more.  *)
CosmosPiece(p, text, marked) ==
  <<CosmosF1, CosmosF2>> \o (IF p = "magicr" THEN <<>> ELSE <<7>>)
  \o FoldLeft(LAMBDA s, x : s \o CosmosPacked(x), <<>>, text)
  \o (IF ~marked THEN <<>> ELSE IF p = "magicr" THEN <<CosmosF1, 1, 0, 5>> ELSE <<CosmosF2, CosmosNIBBLE, 5>>)

CosmosPad(p, s) ==
  LET front == IF p = "reg2" THEN <<3, 3>> \o s ELSE s
  IN  front \o [n \in 1 .. CosmosTABLE + 2 - Len(front) |-> 0]

CosmosFile(p, texts, marked) ==
  LET body(n) == CosmosPiece(p, texts[n], marked)
      start[n \in 1 .. Len(texts) + 1] == IF n = 1 THEN 20 ELSE start[n - 1] + CosmosFRONT + Len(body(n - 1))
      offset(n) == IF p = "magicr" THEN start[n] ELSE 20 + n
      ends == IF p = "magicr" THEN <<start[Len(texts) + 1]>> ELSE <<>>
  IN  [prog |-> p, size |-> 100,
       table |-> CosmosPad(p, [n \in DOMAIN texts |-> offset(n)] \o ends),
       pieces |-> [o \in {offset(n) : n \in DOMAIN texts} |->
                     LET n == CHOOSE m \in DOMAIN texts : offset(m) = o
                     IN  [bytes |-> body(n), size |-> Len(body(n))]],
       plain |-> [n \in DOMAIN texts |-> CosmosPlain(texts[n])]]

CosmosPrograms == {"reg2", "reg3", "magicr"}
CosmosRuns ==
  UNION {{CosmosFile(p, <<<<CosmosByte(3), CosmosCopyOf("near", 1, 3)>>, x>>, marked) : x \in CosmosTexts(p, 3), marked \in BOOLEAN}
         \cup {CosmosFile(p, [n \in 1 .. CosmosTABLE - (IF p = "reg3" THEN 0 ELSE 2) |-> <<CosmosByte(n)>>], FALSE)}
         \cup {CosmosFile(p, <<>>, FALSE)} : p \in CosmosPrograms}
  \cup {[CosmosFile("reg3", <<<<CosmosByte(3)>>, <<CosmosByte(1)>>>>, FALSE) EXCEPT !.table[2] = 120, !.plain = <<<<3>>>>]}

-------------------------------------------------------------------------------
(* TableCut. Archives of up to four files in the format of every cutter. The files are
   laid down one behind the other first, and the table is written from that. *)

TableLE(v, n) == [k \in 1 .. n |-> (v \div 256 ^ (k - 1)) % 256]
TableBE(v, n) == [k \in 1 .. n |-> (v \div 256 ^ (n - k)) % 256]
TableZeroes(n) == [k \in 1 .. n |-> 0]

TablePrograms == {"koei386", "chaos", "ranma", "hertz", "dennou2", "twilight3", "birdy", "ic98", "aggregate",
             "futurewars", "chuukinto2", "princess2", "amus", "metalorange", "carat", "fukujin"}

TableUnit(p) ==
  CASE p \in {"hertz", "dennou2"} -> 512 [] p = "birdy" -> 1024 [] p \in {"amus", "fukujin"} -> 256 [] OTHER -> 1
TableLengths(p) == IF p \in {"hertz", "dennou2", "amus", "fukujin"} THEN {TableUnit(p), 3 * TableUnit(p)} ELSE {1, 1300}

(* Where the first file is put.                                            *)
TableBase(p, n) ==
  CASE p = "koei386" -> 2 + 6 * n [] p \in {"chaos", "twilight3", "aggregate"} -> 0
    [] p = "ranma" -> 9000 [] p = "hertz" -> 512 * 9 [] p = "dennou2" -> 512 * 50 [] p = "birdy" -> 1024 * 20
    [] p = "ic98" -> 2 + 2 * n [] p = "princess2" -> 6 + 99 [] p = "metalorange" -> 4 + 88 [] p = "carat" -> 576
    [] p = "amus" -> 512 [] p = "fukujin" -> 256 * 33 [] OTHER -> 700

TableAligned(v, u) == ((v + u - 1) \div u) * u

(* The places of files of these lengths.                                   *)
TableStarts(p, lens) ==
  LET at[k \in 1 .. Len(lens) + 1] ==
        IF k = 1 THEN TableBase(p, Len(lens)) ELSE TableAligned(at[k - 1] + lens[k - 1], TableUnit(p))
  IN  at

TableSize(p, lens) ==
  CASE p = "dennou2" -> 737280 [] p = "birdy" -> 1261568 [] p \in {"ranma", "hertz"} -> 40000
    [] OTHER -> TableStarts(p, lens)[Len(lens) + 1]

TableAdded(p) == CASE p = "metalorange" -> 6 [] p = "carat" -> 7 [] OTHER -> 0

(* The head and the table that say so. A hole is an entry not in use.      *)
TableHeadOf(p, n) ==
  CASE p \in {"koei386", "chuukinto2"} -> TableLE(n, 2) [] p = "futurewars" -> TableBE(n, 2) [] p = "ic98" -> TableBE(n, 2)
    [] p = "princess2" -> TableLE(99, 4) \o TableLE(n, 2) [] p = "metalorange" -> TableBE(88, 4) [] OTHER -> <<>>

TableEntryOf(p, s, l, n) ==
  CASE p = "koei386" -> TableLE(s - (2 + 6 * n), 4) \o TableLE(l, 2)
    [] p = "ranma" -> <<65>> \o TableZeroes(10) \o TableLE(s \div 512, 2) \o TableLE((l - 1) \div 512 + 1, 2) \o TableLE(s % 512, 2)
                      \o TableLE(((l - 1) % 512) + 1, 2)
    [] p = "hertz" -> <<65>> \o TableZeroes(11) \o TableLE(s \div 512, 2) \o TableLE(l \div 512, 2)
    [] p = "dennou2" -> LET q == s \div 512
                        IN  <<65>> \o TableZeroes(11) \o <<l \div 512, 0, q \div 18, (q % 9) + 1 + 16 * ((q \div 9) % 2)>>
    [] p = "twilight3" -> TableLE(l, 2)
    [] p = "birdy" -> TableLE(l, 3) \o TableLE(s \div 1024, 2) \o <<1>>
    [] p = "ic98" -> TableBE(s, 2)
    [] p = "aggregate" -> TableLE(s + l, 4)
    [] p = "futurewars" -> TableZeroes(14) \o TableBE(s, 4) \o TableBE(l, 4)
    [] p = "chuukinto2" -> TableZeroes(12) \o TableLE(l \div 65536, 2) \o TableLE(l % 65536, 2) \o TableLE(s \div 65536, 2) \o TableLE(s % 65536, 2)
    [] p = "princess2" -> <<l % 3>> \o TableZeroes(l % 3) \o TableLE(l, 2)
    [] p = "amus" -> TableLE(s \div 256 + 1, 2)
    [] p = "metalorange" -> TableBE(l, 4) \o TableBE(7, 2)
    [] p = "carat" -> TableZeroes(10) \o TableBE(s - 576, 4) \o TableBE(l, 4)
    [] p = "fukujin" -> TableLE(s \div 256, 2) \o <<(l \div 256) % 256>>

(* The numbers of the entries that are used, and what is in the others.    *)
TableUsed(p) ==
  CASE p = "birdy" -> <<2, 3, 5, 255>> [] p = "fukujin" -> <<1, 2, 10, 190>> [] p = "hertz" -> <<0, 2, 3, 4>>
    [] p = "amus" -> <<1, 2, 3, 4>> [] OTHER -> <<0, 1, 2, 3>>
TableHole(p) == CASE p = "hertz" -> <<65>> [] OTHER -> <<>>
TableAfter(p, last, size) ==
  CASE p = "dennou2" -> <<<<255>>>> [] p = "metalorange" -> <<TableZeroes(4) \o <<255, 255>>>>
    [] p = "amus" -> <<TableLE(size \div 256 + 1, 2), TableLE(255, 2)>>
    [] OTHER -> <<>>

TableTableOf(p, lens) ==
  LET st == TableStarts(p, lens)
      used == TableUsed(p)
      last == used[Len(lens)]
      Row(k) ==
        IF \E m \in DOMAIN lens : used[m] = k
        THEN LET m == CHOOSE m \in DOMAIN lens : used[m] = k IN TableEntryOf(p, st[m], lens[m], Len(lens))
        ELSE TableHole(p)
  IN  [k \in 1 .. last + 1 |-> Row(k - 1)] \o TableAfter(p, last, TableSize(p, lens))

TableArchive(p, lens) ==
  LET st == TableStarts(p, lens)
      name(m) == IF p = "amus" THEN m ELSE TableUsed(p)[m]
  IN  [there |-> TRUE, named |-> TRUE, sound |-> TRUE, size |-> TableSize(p, lens),
       head |-> TableHeadOf(p, Len(lens)), table |-> TableTableOf(p, lens),
       behind |-> <<>>,
       says |-> [f \in {<<"A", name(m)>> : m \in DOMAIN lens} |->
                   LET m == CHOOSE m \in DOMAIN lens : name(m) = f[2]
                   IN  [kind |-> "file", from |-> st[m], len |-> lens[m], of |-> "image", front |-> TableAdded(p)]]]

(* Chaos Angels' map of two disks: where files end, with a start in front. *)
TableEnded(lens) == [k \in 1 .. Len(lens) + 1 |-> TableLE(FoldLeft(LAMBDA x, y : x + y, 0, SubSeq(lens, 1, k - 1)), 3)]
TableMap(lensa, lensb) ==
  LET At(lens, k) == FoldLeft(LAMBDA x, y : x + y, 0, SubSeq(lens, 1, k))
      lens(s) == IF s = "A" THEN lensa ELSE lensb
  IN  [there |-> TRUE, named |-> TRUE, sound |-> TRUE, size |-> 0, head |-> TableLE(Len(lensa), 2),
       table |-> TableEnded(lensa) \o TableEnded(lensb), behind |-> <<>>,
       says |-> [f \in ({"A"} \X (0 .. Len(lensa) - 1)) \cup ({"B"} \X (0 .. Len(lensb) - 1)) |->
                   [kind |-> "file", from |-> At(lens(f[1]), f[2]), len |-> lens(f[1])[f[2] + 1],
                    of |-> f[1], front |-> 0]]]

(* The two programs with tables of their own: the files fill the archive.  *)
TableTiled(sizes, size, name) ==
  LET At(k) == FoldLeft(LAMBDA x, y : x + y, 0, SubSeq(sizes, 1, k))
  IN  [there |-> TRUE, named |-> name, sound |-> TRUE, size |-> size, head |-> <<>>, table |-> <<>>, behind |-> <<>>,
       says |-> [f \in {"A"} \X (0 .. Len(sizes) - 1) |->
                   [kind |-> "file", from |-> At(f[2]), of |-> "image", front |-> 0,
                    len |-> IF f[2] = Len(sizes) - 1 THEN size - At(f[2]) ELSE sizes[f[2] + 1]]]]

TableLens(p, most) == UNION {[1 .. n -> TableLengths(p)] : n \in 1 .. most}
TablePlain(p) == IF p = "chaos" THEN {TableMap(x, y) : x, y \in TableLens(p, 2)} ELSE {TableArchive(p, l) : l \in TableLens(p, 4)}

TableAbsent(x) == [x EXCEPT !.there = FALSE, !.sound = FALSE]
TableBroken(x) ==
  {[x EXCEPT !.table = [@ EXCEPT ![k] = v], !.sound = FALSE, !.behind = b] :
     k \in DOMAIN x.table, v \in {<<0, 0>>, <<0, 3>>, <<3, 0>>, <<255, 254>>}, b \in {<<>>, <<2, 0>>, <<255, 0>>}}

TableRuns(rol2, fuku2, rolw_tbl, fuku_tbl) ==
  UNION {{[prog |-> p, full |-> f, archives |-> <<x>>] : f \in 0 .. 3, x \in TablePlain(p)} : p \in TablePrograms}
  \cup UNION {{[prog |-> p, full |-> 0, archives |-> <<TableAbsent(x)>>] : x \in {y \in TablePlain(p) : Cardinality(DOMAIN y.says) = 1}}
                : p \in TablePrograms \ {"chaos"}}
  \cup {[prog |-> "lodoss2", full |-> f, archives |-> <<x>>] :
          f \in {0, 5}, x \in {TableTiled(rol2, 24272, TRUE), TableTiled(fuku2, 37114, TRUE), TableAbsent(TableTiled(rol2, 24273, TRUE))}}
  \cup {[prog |-> "lodoss1", full |-> f, archives |-> <<x>>] :
          f \in {0, 5}, x \in {TableTiled(rolw_tbl, 21995, TRUE), TableTiled(fuku_tbl, 47638, FALSE)}}
  \cup UNION {{[prog |-> p, full |-> f, archives |-> <<x>>] : f \in {0, 2}, x \in TableBroken(TableArchive(p, <<256, 768>>))}
                : p \in {"ic98", "amus"}}
  \cup {[prog |-> "ic98", full |-> f, archives |-> <<x, y>>] :
          f \in 0 .. 3, x \in {TableArchive("ic98", <<1, 1300>>), TableAbsent(TableArchive("ic98", <<1>>))} \cup TableBroken(TableArchive("ic98", <<1, 2>>)),
          y \in {TableArchive("ic98", <<1300>>)}}
  \cup {[prog |-> "birdy", full |-> 0, archives |-> <<[TableArchive("birdy", <<1>>) EXCEPT !.size = 5, !.sound = FALSE]>>],
        [prog |-> "ranma", full |-> 0, archives |-> <<[TableArchive("ranma", <<1>>) EXCEPT !.named = FALSE, !.sound = FALSE]>>],
        [prog |-> "twilight3", full |-> 0, archives |-> <<[TableArchive("twilight3", <<1, 40000>>) EXCEPT !.sound = FALSE]>>],
        [prog |-> "ranma", full |-> 0, archives |-> <<[TableArchive("ranma", <<1>>) EXCEPT !.size = 20, !.sound = FALSE]>>]}

-------------------------------------------------------------------------------
(* MarkCut. Archives of up to four sectors, each with a mark or with one that is nearly
   right, whole and with a last sector that is not. *)

MarkSECTOR == 512
MarkHeads(p) ==
  CASE p = "fray" -> {<<12, 0>>, <<254, 0>>, <<12, 1>>, <<1, 0>>}
    [] p = "ds6" -> {<<32, 0>>, <<32, 1>>, <<1, 0>>, <<1, 1>>}
    [] p = "toc" -> {<<66, 71, 77>>, <<98, 103, 109>>, <<111, 110, 115>>, <<79, 78, 115>>}
    [] p \in {"wolfm", "arcusm"} ->
         {<<0, 66, 255, 1>>, <<1, 66, 188, 2>>, <<0, 66, 188, 2>>, <<0, 66, 0, 2>>, <<0, 65>>, <<0, 66, 0, 0>>}

MarkArchives(p, n) == [1 .. n -> MarkHeads(p)]

MarkTAIL == 200
MarkRun(p, h, n, f) == [prog |-> p, there |-> TRUE, heads |-> h, size |-> n, full |-> f]

MarkRuns ==
  UNION {{MarkRun(p, h, Len(h) * MarkSECTOR, f) : h \in UNION {MarkArchives(p, n) : n \in 0 .. 4}, f \in {0, 2}}
           : p \in {"fray", "ds6", "toc", "wolfm", "arcusm"}}
  \cup UNION {{MarkRun(p, h, (Len(h) - 1) * MarkSECTOR + MarkTAIL, 0) : h \in UNION {MarkArchives(p, n) : n \in 1 .. 3}}
                : p \in {"fray", "ds6", "toc", "wolfm", "arcusm"}}
  \cup {[prog |-> "fray", there |-> FALSE, heads |-> <<>>, size |-> 0, full |-> 0]}


-------------------------------------------------------------------------------
(* FileTools. Every tool on files of up to six bytes, with what can fail failing once,
   run twice, and interrupted anywhere. *)

ToolUnpacked(b) == b \o b
ToolXor(b, v) == b ^^ v

ToolStrings(S, n) == UNION {[1 .. k -> S] : k \in 0 .. n}
ToolNoFiles == [f \in {} |-> <<>>]
ToolIn(b) == [f \in {"in"} |-> b]
ToolWith(n, b, o) == [f \in {"in", n} |-> IF f = "in" THEN b ELSE o]
ToolInOrg(b, o) == ToolWith("org", b, o)

ToolTool(p, f, o, w, r) ==
  [prog |-> p, files |-> f, out |-> o, fails |-> w, replaces |-> r,
   pattern |-> <<1, 2, 1, 1>>, size |-> 3, head |-> 2, num |-> 0]
ToolSizes(x) == {[x EXCEPT !.size = n] : n \in {0, 1, 4, 5}}

ToolWhat == {{}, {"memory"}, {"create"}, {"write"}}
ToolBios == {<<7, 30, 31, 7>>, <<7, 31, 30>>, <<7, 30, 30>>, <<30, 7>>, <<31, 30>>, <<7, 8>>, <<>>, <<30, 30, 30>>, <<9, 31>>}
ToolCut == {SubSeq(<<1, 2, 3, 4, 5, 6>>, 1, n) : n \in 0 .. 6}

ToolRuns ==
  {ToolTool("scut", ToolIn(b), o, w, FALSE) : b \in ToolStrings({1, 2}, 6), o \in {"in", "out"}, w \in ToolWhat}
  \cup UNION {ToolSizes(ToolTool("scut", ToolIn(b), o, {}, FALSE)) : b \in ToolStrings({1, 2}, 6), o \in {"in", "out"}}
  \cup {[ToolTool("hcut", ToolIn(b), o, w, FALSE) EXCEPT !.head = h] : b \in ToolCut, o \in {"in", "out"}, w \in ToolWhat, h \in 0 .. 4}
  \cup {ToolTool("patscbios", f, "in", w, r) :
          f \in {ToolIn(b) : b \in ToolBios} \cup {ToolInOrg(b, <<5>>) : b \in ToolBios}, w \in ToolWhat, r \in BOOLEAN}
  \cup {[ToolTool("gaia", ToolIn(b), "in", w, FALSE) EXCEPT !.num = n] :
          b \in {<<>>, <<0, 85, 170>>, <<255, 95, 18>>}, w \in ToolWhat, n \in 0 .. 4}
  \cup {ToolTool("dbneg", ToolIn(b), o, w, FALSE) : b \in {<<>>, <<0, 1, 127>>, <<128, 255>>}, o \in {"in", "out"}, w \in ToolWhat}
  \cup {ToolTool("decrypt", f, "in", w, r) :
          f \in {ToolIn(<<1, 2>>), ToolIn(<<3>>), ToolInOrg(<<1, 2>>, <<5>>)}, w \in ToolWhat, r \in BOOLEAN}
  \cup {ToolTool(p, ToolWith("out", b, <<5, 5>>), "out", w, FALSE) : p \in {"scut", "hcut", "dbneg"}, b \in {<<2, 1, 2, 1, 1>>, <<3>>}, w \in ToolWhat}
  \cup {ToolTool(p, ToolNoFiles, "in", {}, FALSE) : p \in {"scut", "hcut", "patscbios", "gaia", "dbneg", "decrypt"}}

-------------------------------------------------------------------------------
(* AngelMsx. Disks of three tracks of two sectors of two blocks of four bytes,
   with every file that begins in the last two tracks and one or two more. *)

MsxPlain == [k \in 1 .. 48 |-> (k * k + k \div 5) % 4]
MsxKey == <<0, 2, 0, 2, 0, 2, 0, 2>>
MsxCipher == [k \in 1 .. 48 |-> MsxPlain[k] ^^ MsxKey[((k - 1) % 8) + 1]]

(* The byte behind which a file begins, counted along the disk.            *)
MsxAt0(x) == 16 * x.b7 + 4 * x.b9 + x.b8
MsxAnEntry(n, t, o, h, s) == [name |-> n, b7 |-> t, b8 |-> o, b9 |-> h, size |-> s]
MsxText(x) == SubSeq(MsxPlain, MsxAt0(x) + 1, MsxAt0(x) + x.size)
MsxDisk(d) == [bytes |-> MsxCipher, dir |-> d, text |-> [k \in DOMAIN d |-> MsxText(d[k])]]

MsxOne == {x \in {MsxAnEntry(<<"A", 1>>, t, o, h, s) : t \in 1 .. 2, o \in 0 .. 3, h \in 0 .. 3, s \in 0 .. 17} :
          MsxAt0(x) + x.size <= 48}
MsxPairs ==
  {<<x, y>> : x \in {MsxAnEntry(<<"ff", 1>>, 1, o, 3, 9) : o \in 0 .. 3},
              y \in {MsxAnEntry(n, t, 2, h, 6) : n \in {<<"_", 1>>, <<"ff", 1>>, <<"B", 1>>}, t \in 1 .. 2, h \in 0 .. 1}}

MsxDisks ==
  {MsxDisk(<<x>>) : x \in MsxOne} \cup {MsxDisk(p) : p \in MsxPairs}
  \cup {MsxDisk(p \o <<MsxAnEntry(<<"C", 1>>, 0, 1, 2, 5)>>) : p \in MsxPairs} \cup {MsxDisk(<<>>)}
================================================================================
