---- MODULE BulkCompression ----
(***************************************************************************)
(* ZGFX, the bulk compression of the graphics and the dynamic channels     *)
(* (codec/zgfx.cpp): the token code, the compressor with its sliding       *)
(* window and its hash chains, whose entries may be stale and are kept     *)
(* modulo 2^32, and the decompressor with its ring.  A compressed segment  *)
(* is a sequence of tokens here; the bits of a token are checked on their  *)
(* own.  The sizes are constants, small in the instance.                   *)
(***************************************************************************)
EXTENDS Integers, Sequences, SequencesExt, TLC

CONSTANTS
    HistorySize,    \* Params::history
    SegmentLimit,   \* Params::max_segment
    PositionModulus,\* 2^32 in the code: positions are stored modulo this
    HashModulus,    \* 2^hash_bits
    MaxChain, NiceLength, MaxInsert, TailInsert,  \* the search's limits
    SkipTrigger,    \* 2^skip_trigger
    RunHeaderBits,  \* 25 in the code
    BulkMessages    \* bound: messages sent

VARIABLE bulk

MinMatch == 3
MaxMatch == 65535
Lesser(a, b) == IF a < b THEN a ELSE b
Greater(a, b) == IF a > b THEN a ELSE b

\* ---- the token code ----------------------------------------------------

\* The match rows of `tokens`: prefix length, prefix, value bits, base
MatchTokens ==
    << <<5, 17, 5, 0>>, <<5, 18, 7, 32>>, <<5, 19, 9, 160>>, <<5, 20, 10, 672>>, <<5, 21, 12, 1696>>,
       <<6, 44, 14, 5792>>, <<6, 45, 15, 22176>>, <<7, 92, 18, 54944>>, <<7, 93, 20, 317088>>,
       <<8, 188, 20, 1365664>>, <<8, 189, 21, 2414240>> >>
\* The short literals: prefix length, first prefix, bytes
ShortLiterals ==
    << <<5, 24, <<0, 1>> >>, <<6, 52, <<2, 3, 255>> >>,
       <<7, 110, <<4, 5, 6, 7, 8, 9, 10, 11, 58, 59, 60, 61, 62, 63, 64, 128>> >>,
       <<8, 252, <<12, 56, 57, 102>> >> >>
BitsOf(value, count) == [i \in 1..count |-> (value \div 2^(count - i)) % 2]
RECURSIVE NumberOf(_), Total(_)
NumberOf(bits) ==
    IF Len(bits) = 1 THEN bits[1]
    ELSE LET half == Len(bits) \div 2
         IN  NumberOf(SubSeq(bits, 1, half)) * 2^(Len(bits) - half) + NumberOf(SubSeq(bits, half + 1, Len(bits)))
Total(numbers) ==
    IF Len(numbers) <= 1 THEN IF numbers = << >> THEN 0 ELSE numbers[1]
    ELSE LET half == Len(numbers) \div 2
         IN  Total(SubSeq(numbers, 1, half)) + Total(SubSeq(numbers, half + 1, Len(numbers)))
\* literal_codes
LiteralCode(byte) ==
    LET short == {row \in Range(ShortLiterals) : byte \in Range(row[3])}
    IN  IF short = {} THEN <<0>> \o BitsOf(byte, 8)
        ELSE LET row == CHOOSE r \in short : TRUE
             IN  BitsOf(row[2] + (CHOOSE i \in DOMAIN row[3] : row[3][i] = byte) - 1, row[1])
\* length_code
LengthCode(length) ==
    IF length = MinMatch THEN <<0>>
    ELSE LET k == CHOOSE j \in 1..14 : 2^(j + 1) <= length /\ length < 2^(j + 2)
         IN  [i \in 1..k |-> 1] \o <<0>> \o BitsOf(length - 2^(k + 1), k + 1)
\* distance_code
DistanceCode(distance) ==
    LET t == MatchTokens[CHOOSE j \in DOMAIN MatchTokens :
                            MatchTokens[j][4] <= distance /\ \A i \in DOMAIN MatchTokens : MatchTokens[i][4] <= distance => i <= j]
    IN  BitsOf(t[2], t[1]) \o BitsOf(distance - t[4], t[3])
\* What decode_segment reads from the bits of one token, and how many it takes
ReadToken(bits) ==
    LET starts(prefix, length) == Len(bits) >= length /\ NumberOf(SubSeq(bits, 1, length)) = prefix
        match == {t \in Range(MatchTokens) : starts(t[2], t[1])}
    IN  IF bits[1] = 0 THEN [byte |-> NumberOf(SubSeq(bits, 2, 9)), used |-> 9]
        ELSE IF match = {}
        THEN LET row == CHOOSE r \in Range(ShortLiterals) : \E i \in DOMAIN r[3] : starts(r[2] + i - 1, r[1])
                 i == CHOOSE j \in DOMAIN row[3] : starts(row[2] + j - 1, row[1])
             IN  [byte |-> row[3][i], used |-> row[1]]
        ELSE LET t == CHOOSE r \in match : TRUE
                 distance == t[4] + NumberOf(SubSeq(bits, t[1] + 1, t[1] + t[3]))
                 at == t[1] + t[3]
                 ones == CHOOSE k \in 0..14 : bits[at + k + 1] = 0 /\ \A i \in 1..k : bits[at + i] = 1
             IN  IF ones = 0 THEN [distance |-> distance, length |-> MinMatch, used |-> at + 1]
                 ELSE [distance |-> distance, used |-> at + 2 * ones + 2,
                       length |-> 2^(ones + 1) + NumberOf(SubSeq(bits, at + ones + 2, at + 2 * ones + 2))]
LiteralCost(bytes) == Total([i \in DOMAIN bytes |-> Len(LiteralCode(bytes[i]))])
MatchCost(distance, length) == Len(DistanceCode(distance)) + Len(LengthCode(length))

\* ---- the compressor ----------------------------------------------------

NewCompressor ==
    [window |-> << >>, start |-> 0, reset |-> 0, insert |-> 0, head |-> [h \in 0..(HashModulus - 1) |-> 0], chain |-> << >>]
WindowEnd(c) == c.start + Len(c.window)
ByteAt(c, pos) == c.window[pos - c.start + 1]
BytesOf(c, from, to) == SubSeq(c.window, from - c.start + 1, to - c.start)
\* hash3: three bytes, with collisions
Hash(c, pos) == (ByteAt(c, pos) + 3 * ByteAt(c, pos + 1) + 5 * ByteAt(c, pos + 2)) % HashModulus
ChainIndex(c, pos) == ((pos - c.reset) % Len(c.chain)) + 1
CeilPower(n) == CHOOSE p \in {1, 2, 4, 8, 16, 32} : p >= n /\ (p = 1 \/ p \div 2 < n)
\* append: the window slides,
Slid(c) ==
    LET keep == Lesser(Len(c.window), HistorySize)
    IN  [c EXCEPT !.window = SubSeq(@, Len(@) - keep + 1, Len(@)), !.start = @ + Len(c.window) - keep]
\* and the chain grows until the history is full.
Appended(c, data) ==
    LET s == IF Len(c.window) + Len(data) > 2 * HistorySize + SegmentLimit THEN Slid(c) ELSE c
        w == [s EXCEPT !.window = @ \o data]
        needed == CeilPower(Lesser(HistorySize, WindowEnd(w) - w.reset))
    IN  [w EXCEPT !.chain = IF Len(@) < needed THEN @ \o [i \in 1..(needed - Len(w.chain)) |-> 0] ELSE @]
\* insert
Inserted(c, pos) ==
    [c EXCEPT !.chain[ChainIndex(c, pos)] = c.head[Hash(c, pos)], !.head[Hash(c, pos)] = (pos + 1) % PositionModulus]
HashableEnd(c) == IF Len(c.window) >= MinMatch - 1 THEN WindowEnd(c) - (MinMatch - 1) ELSE c.start
RECURSIVE InsertedRange(_, _, _)
InsertedRange(c, from, to) ==
    IF from >= Lesser(to, HashableEnd(c)) THEN c ELSE InsertedRange(Inserted(c, from), from + 1, to)
RECURSIVE CommonLength(_, _, _, _)
CommonLength(c, a, b, limit) ==
    IF limit = 0 \/ ByteAt(c, a) /= ByteAt(c, b) THEN 0 ELSE 1 + CommonLength(c, a + 1, b + 1, limit - 1)
\* find_match's walk along the chain; the candidates' bytes are compared.
NoMatch == [distance |-> 0, length |-> 0]
Score(m) == IF m.length < MinMatch THEN 0 ELSE 9 * m.length - MatchCost(m.distance, m.length)
RECURSIVE Walk(_, _, _, _, _, _, _), Tried(_, _, _, _, _, _, _), Kept(_, _, _, _, _, _)
Walk(c, pos, limit, entry, depth, last, best) ==
    IF entry = 0 \/ depth = MaxChain THEN best
    ELSE Tried(c, pos, limit, (pos - (entry - 1)) % PositionModulus, depth, last, best)
Tried(c, pos, limit, distance, depth, last, best) ==
    IF distance <= last \/ distance > Lesser(HistorySize, pos - c.reset) THEN best
    ELSE IF ByteAt(c, pos - distance + best.length) /= ByteAt(c, pos + best.length)
    THEN Walk(c, pos, limit, c.chain[ChainIndex(c, pos - distance)], depth + 1, distance, best)
    ELSE Kept(c, pos, limit, depth, best, [distance |-> distance, length |-> CommonLength(c, pos - distance, pos, limit)])
Kept(c, pos, limit, depth, best, found) ==
    LET better == Score(found) > Score(best)
    IN  IF better /\ found.length >= Lesser(limit, NiceLength) THEN found
        ELSE Walk(c, pos, limit, c.chain[ChainIndex(c, pos - found.distance)], depth + 1, found.distance, IF better THEN found ELSE best)
\* put_literals
Literals(bytes) ==
    IF bytes = << >> THEN << >>
    ELSE IF RunHeaderBits + 8 * Len(bytes) < LiteralCost(bytes) THEN <<[kind |-> "run", bytes |-> bytes]>>
    ELSE [i \in DOMAIN bytes |-> [kind |-> "byte", byte |-> bytes[i]]]
\* compress_segment
InsertsTo(c, to) == [c EXCEPT !.insert = Greater(@, Lesser(to, HashableEnd(c)))]
RECURSIVE Parsed(_, _, _, _, _, _), Chosen(_, _, _, _, _, _, _)
Parsed(c, pos, literals, misses, end, tokens) ==
    IF pos + MinMatch > end
    THEN [c |-> InsertsTo(c, pos), tokens |-> tokens \o Literals(BytesOf(c, literals, end))]
    ELSE Chosen(Inserted(c, pos), pos, literals, misses, end, tokens,
                Walk(Inserted(c, pos), pos, Lesser(end - pos, MaxMatch), c.head[Hash(c, pos)], 0, 0, NoMatch))
Chosen(c, pos, literals, misses, end, tokens, m) ==
    LET matchEnd == pos + m.length
        first == IF m.length <= MaxInsert THEN pos + 1 ELSE Greater(pos + 1, matchEnd - TailInsert)
    IN  IF m.length >= MinMatch /\ (m.length >= 8 \/ MatchCost(m.distance, m.length) < LiteralCost(BytesOf(c, pos, matchEnd)))
        THEN Parsed(InsertedRange(c, first, matchEnd), matchEnd, matchEnd, 0, end,
                    tokens \o Literals(BytesOf(c, literals, pos))
                           \o <<[kind |-> "match", distance |-> m.distance, length |-> m.length]>>)
        ELSE Parsed(c, pos + 1 + (misses + 1) \div SkipTrigger, literals, misses + 1, end, tokens)
Segment(c, begin, end) ==
    Parsed(IF begin - c.insert < MinMatch THEN InsertsTo(InsertedRange(c, c.insert, begin), begin) ELSE [c EXCEPT !.insert = begin],
           begin, begin, 0, end, << >>)
TokenBits(t) ==
    CASE t.kind = "byte" -> Len(LiteralCode(t.byte)) [] t.kind = "match" -> MatchCost(t.distance, t.length)
      [] t.kind = "run" -> RunHeaderBits + 8 * Len(t.bytes)
\* encode_segment: compressed only where that is shorter
Shorter(tokens, data) == (Total([i \in DOMAIN tokens |-> TokenBits(tokens[i])]) + 7) \div 8 + 1 < Len(data)
Encoded(parsed, data) ==
    [c |-> parsed.c, out |-> IF Shorter(parsed.tokens, data) THEN [raw |-> FALSE, tokens |-> parsed.tokens] ELSE [raw |-> TRUE, bytes |-> data]]
EncodeAppended(c, data) == Encoded(Segment(c, WindowEnd(c) - Len(data), WindowEnd(c)), data)
EncodeSegment(c, data) == EncodeAppended(Appended(c, data), data)
\* compress: the segments of a message
BulkPieces(data) ==
    [i \in 1..((Len(data) + SegmentLimit - 1) \div SegmentLimit) |->
        SubSeq(data, (i - 1) * SegmentLimit + 1, Lesser(Len(data), i * SegmentLimit))]
BulkJoined(done, one) == [c |-> one.c, out |-> Append(done.out, one.out)]
RECURSIVE CompressedAll(_, _)
CompressedAll(done, pieces) ==
    IF pieces = << >> THEN done ELSE CompressedAll(BulkJoined(done, EncodeSegment(done.c, Head(pieces))), Tail(pieces))
Compressed(c, data) == CompressedAll([c |-> c, out |-> << >>], BulkPieces(data))
CompressorReset(c) ==
    [c EXCEPT !.head = [h \in DOMAIN @ |-> 0], !.window = << >>, !.start = WindowEnd(c), !.reset = WindowEnd(c), !.insert = WindowEnd(c)]

\* ---- the decompressor --------------------------------------------------

NewRing == [bytes |-> << >>, pos |-> 0]
\* record, one byte
RecordByte(ring, byte) ==
    IF Len(ring.bytes) < HistorySize
    THEN [bytes |-> Append(ring.bytes, byte), pos |-> (Len(ring.bytes) + 1) % HistorySize]
    ELSE [bytes |-> [ring.bytes EXCEPT ![ring.pos + 1] = byte], pos |-> (ring.pos + 1) % HistorySize]
Record(ring, bytes) == FoldLeft(RecordByte, ring, bytes)
\* copy_match: the source wraps, and a match longer than its distance repeats.
CopyMatch(ring, distance, length) ==
    LET size == Len(ring.bytes)
    IN  [i \in 1..length |-> ring.bytes[((ring.pos + size - distance + ((i - 1) % distance)) % size) + 1]] \o << >>
\* A match does not enter the history.
DecodeUnrecorded(state, t) ==
    IF state.failed \/ (t.kind = "match" /\ t.distance > Len(state.ring.bytes)) THEN [state EXCEPT !.failed = TRUE]
    ELSE IF t.kind = "match" THEN [state EXCEPT !.out = @ \o CopyMatch(state.ring, t.distance, t.length)]
    ELSE LET bytes == IF t.kind = "byte" THEN <<t.byte>> ELSE t.bytes
         IN  [state EXCEPT !.out = @ \o bytes, !.ring = Record(@, bytes)]
\* decode_segment; a distance beyond the history is an error.
DecodeToken(state, t) ==
    IF state.failed \/ (t.kind = "match" /\ t.distance > Len(state.ring.bytes)) THEN [state EXCEPT !.failed = TRUE]
    ELSE LET bytes == CASE t.kind = "byte" -> <<t.byte>> [] t.kind = "run" -> t.bytes
                        [] t.kind = "match" -> CopyMatch(state.ring, t.distance, t.length)
         IN  [state EXCEPT !.out = @ \o bytes, !.ring = Record(@, bytes)]
DecodeSegment(state, segment) ==
    IF segment.raw THEN [state EXCEPT !.out = @ \o segment.bytes, !.ring = Record(@, segment.bytes)]
    ELSE FoldLeft(DecodeToken, state, segment.tokens)
BulkDecompressed(ring, segments) == FoldLeft(DecodeSegment, [ring |-> ring, out |-> << >>, failed |-> FALSE], segments)

\* ---- the two ends ------------------------------------------------------

BulkInit ==
    bulk = [sender |-> NewCompressor, ring |-> NewRing, sent |-> << >>, got |-> << >>, stream |-> << >>, count |-> 0,
            code |-> << >>, meant |-> [byte |-> 0], failed |-> FALSE]
BulkDelivered(message, packed, opened) ==
    LET all == bulk.stream \o message
    IN  [bulk EXCEPT !.sender = packed.c, !.ring = opened.ring, !.sent = message, !.got = opened.out, !.count = @ + 1,
                     !.stream = SubSeq(all, Greater(1, Len(all) - HistorySize + 1), Len(all)), !.failed = opened.failed]
Decoded(message, packed) == BulkDelivered(message, packed, BulkDecompressed(bulk.ring, packed.out))
SendBulk(message) ==
    /\ bulk.count < BulkMessages
    /\ bulk' = Decoded(message, Compressed(bulk.sender, message))
\* Both ends start over, as when a client advertises its capabilities again.
ResetBulk ==
    /\ 0 < bulk.count /\ bulk.count < BulkMessages
    /\ bulk' = [bulk EXCEPT !.sender = CompressorReset(@), !.ring = NewRing, !.stream = << >>, !.count = @ + 1, !.sent = << >>, !.got = << >>]
\* The code of one token, followed by another, is read back.
TryLiteral(byte) ==
    bulk.count = 0 /\ bulk' = [bulk EXCEPT !.count = BulkMessages, !.code = LiteralCode(byte), !.meant = [byte |-> byte]]
TryMatch(distance, length) ==
    /\ bulk.count = 0
    /\ bulk' = [bulk EXCEPT !.count = BulkMessages, !.code = DistanceCode(distance) \o LengthCode(length),
                            !.meant = [distance |-> distance, length |-> length]]
BulkSamples == {<<73>>, <<0, 73, 0>>, <<0, 0, 0, 0, 0>>, <<73, 0, 73, 0, 73, 0, 73>>, <<9, 9, 73, 0, 73, 9>>}
EdgeDistances == {Greater(t[4], 1) : t \in Range(MatchTokens)} \cup {t[4] + 2^t[3] - 1 : t \in Range(MatchTokens)}
EdgeLengths == {MinMatch} \cup {2^j : j \in 2..15} \cup {2^j - 1 : j \in 3..16}
BulkNext ==
    \/ \E message \in BulkSamples : SendBulk(message)
    \/ ResetBulk
    \/ \E byte \in 0..255 : TryLiteral(byte)
    \/ \E distance \in EdgeDistances, length \in EdgeLengths : TryMatch(distance, length)

BulkSpec == BulkInit /\ [][BulkNext]_bulk

\* ---- properties --------------------------------------------------------

\* Every message comes out as it went in, whatever came before it: raw
\* segments, slides of the window, a wrapped ring, stale chain entries and
\* positions that ran over their width.
BulkIsLossless == ~bulk.failed /\ bulk.got = bulk.sent

\* The compressor's window ends with the bytes the decompressor's ring holds,
\* which are the last of what was sent since both were reset.
HistoriesAgree ==
    /\ bulk.stream = [i \in 1..Len(bulk.ring.bytes) |->
                        bulk.ring.bytes[((bulk.ring.pos + i - 1) % Len(bulk.ring.bytes)) + 1]]
    /\ Len(bulk.sender.window) >= Len(bulk.stream)
    /\ bulk.stream = SubSeq(bulk.sender.window, Len(bulk.sender.window) - Len(bulk.stream) + 1, Len(bulk.sender.window))

\* The code of every literal, and of every match at the edges of its rows, is
\* read back as it was meant, also when more tokens follow.
CodesReadBack == bulk.code /= << >> => ReadToken(bulk.code \o <<1, 0, 1>>) = bulk.meant @@ [used |-> Len(bulk.code)]

\* Compression and decompression are inverse, step by step: the segment
\* reads back, the histories of both ends stay the same, the codes too.
BulkCorrect ==
    /\ BulkIsLossless
    /\ HistoriesAgree
    /\ CodesReadBack
====
