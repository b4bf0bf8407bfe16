----------------------------- MODULE ClearCodec ------------------------------
(***************************************************************************)
(* ClearCodec (src/farland/codec/clear_encoder.cpp, clear_decoder.cpp):    *)
(* the encoder mirrors the V-bar, short V-bar and glyph storages of the    *)
(* client, whose decoder fills its own from the streams.  A region is its  *)
(* width and its pixels in raster order.  Which layer a strip goes to is   *)
(* any of them: the encoder's estimate of their sizes is left out, and so  *)
(* is the byte layout of a stream.                                         *)
(***************************************************************************)
EXTENDS Integers, Sequences, FiniteSets, SequencesExt, FiniteSetsExt, TLC

CONSTANTS VbarSlots, ShortSlots, GlyphSlots, \* the sizes of the client's storages
          SeqNumbers,      \* seqNumber counts modulo this (256)
          MaxBandHeight,   \* max_band_height
          MinBandGap,      \* min_band_gap
          SegmentBits,     \* bits of a RLEX segment (8)
          Run1, Run2,      \* the escapes of a run length (0xFF, 0xFFFF)
          ClearWidth,      \* the width of a region, of two rows
          ClearRegions     \* the regions, their pixels as the binary digits of a number

VARIABLES cenc,  \* the encoder
          cdec,  \* the client's decoder
          cseen  \* whether the last region was decoded as it was

clearVars == <<cenc, cdec, cseen>>

Unused == <<99>>
Layers == {"residual", "bands", "rlex", "raw"}
Regions == {[w |-> ClearWidth, px |-> [i \in 1..(2 * ClearWidth) |-> (n \div 2^(i - 1)) % 2]] : n \in ClearRegions}

Height(r) == Len(r.px) \div r.w
At(r, x, y) == r.px[(y - 1) * r.w + x]
Colours(s) == {s[i] : i \in DOMAIN s}
Position(r, x, y) == (y - 1) * r.w + x

NoColumns(n) == [slots |-> [i \in 0..(n - 1) |-> Unused], cur |-> 0]
NewEncoder == [vbars |-> NoColumns(VbarSlots), shorts |-> NoColumns(ShortSlots), glyphs |-> << >>, lru |-> << >>,
               seq |-> 0, reset |-> TRUE]
NewDecoder == [vbars |-> NoColumns(VbarSlots), shorts |-> NoColumns(ShortSlots),
               glyphs |-> [g \in 1..GlyphSlots |-> Unused], seq |-> 0]

ClearInit == cenc = NewEncoder /\ cdec = NewDecoder /\ cseen = TRUE

-----------------------------------------------------------------------------
(* The encoder's mirrors *)

\* ColumnCache::find, the slot or -1.
FindColumn(cache, column) ==
    LET at == {i \in DOMAIN cache.slots : cache.slots[i] = column} IN IF at = {} THEN -1 ELSE Min(at)

\* ColumnCache::insert, and the client's Entry at its cursor.
InsertColumn(cache, column) ==
    [slots |-> [cache.slots EXCEPT ![cache.cur] = column], cur |-> (cache.cur + 1) % Cardinality(DOMAIN cache.slots)]

\* GlyphCache::find: a glyph has its size as well as its pixels.
FindGlyph(e, r) == {g \in DOMAIN e.glyphs : e.glyphs[g] = r}
UseGlyph(e, g) == [e EXCEPT !.lru = Append(Remove(@, g), g)]

\* GlyphCache::insert: the slot never used, or the one used longest ago.
InsertGlyph(e, r) ==
    IF Len(e.glyphs) < GlyphSlots
    THEN LET g == Len(e.glyphs) + 1 IN [g |-> g, e |-> [e EXCEPT !.glyphs = Append(@, r), !.lru = Append(@, g)]]
    ELSE LET g == Head(e.lru) IN [g |-> g, e |-> UseGlyph([e EXCEPT !.glyphs[g] = r], g)]

-----------------------------------------------------------------------------
(* Run lengths *)

RunLength(n) == IF n < Run1 THEN <<n>> ELSE IF n < Run2 THEN <<Run1, n>> ELSE <<Run1, Run2, n>>
ReadRunLength(c) == IF c[1] < Run1 THEN c[1] ELSE IF c[2] < Run2 THEN c[2] ELSE c[3]

-----------------------------------------------------------------------------
(* Layers of the encoder *)

\* The most frequent colour; which one of several is left open.
PixelCount(px, c) == Cardinality({i \in DOMAIN px : px[i] = c})
MostFrequent(px) == CHOOSE c \in Colours(px) : \A d \in Colours(px) : PixelCount(px, c) >= PixelCount(px, d)
DominantColor(r, s) == MostFrequent(SubSeq(r.px, (s[1] - 1) * r.w + 1, s[2] * r.w))

\* Runs of rows of several colours, of at most MaxBandHeight rows each.
ManyColored(r) == {y \in 1..Height(r) : \E x \in 1..r.w : At(r, x, y) # At(r, 1, y)}
StripStarts(rows) == {y \in rows : (y - 1 - Max({0} \union ((1..(y - 1)) \ rows))) % MaxBandHeight = 0}
StripFrom(rows, y) == <<y, Max({z \in y..(y + MaxBandHeight - 1) : y..z \subseteq rows})>>
InOrder(pairs) == SetToSortSeq(pairs, LAMBDA a, b : a[1] < b[1])
StripsOf(rows) == InOrder({StripFrom(rows, y) : y \in StripStarts(rows)})
ClearStrips(r) == StripsOf(ManyColored(r))

\* load_column(): the part that differs from the background is the short V-bar.
ColumnOf(px, on) == [px |-> px, on |-> IF on = {} THEN 0 ELSE Min(on) - 1, off |-> IF on = {} THEN 0 ELSE Max(on)]
SplitColumn(px, bg) == ColumnOf(px, {i \in DOMAIN px : px[i] # bg})
LoadColumn(r, x, s, bg) == SplitColumn([i \in 1..(s[2] - s[1] + 1) |-> At(r, x, s[1] + i - 1)], bg)
ShortVbar(c) == SubSeq(c.px, c.on + 1, c.off)

\* split_bands(), of what is left when background columns are trimmed off both sides.
InkColumns(r, s, bg) == {x \in 1..r.w : \E y \in s[1]..s[2] : At(r, x, y) # bg}
BandStarts(ink) == {x \in ink : x = Min(ink) \/ \A g \in 1..MinBandGap : x - g \notin ink}
BandFrom(ink, starts, x) == <<x, Max({z \in ink : z >= x /\ \A y \in starts : y > x => z < y})>>
BandsFrom(ink, starts) == InOrder({BandFrom(ink, starts, x) : x \in starts})
SplitBands(ink) == BandsFrom(ink, BandStarts(ink))

\* The pixels of a strip between its outermost columns that are not background.
Trimmed(ink, s) == [x0 |-> Min(ink), x1 |-> Max(ink), y0 |-> s[1], y1 |-> s[2]]
RowMajor(r, a, w) ==
    [i \in 1..(w * (a.y1 - a.y0 + 1)) |-> At(r, a.x0 + ((i - 1) % w), a.y0 + ((i - 1) \div w))]
AreaPixels(r, a) == RowMajor(r, a, a.x1 - a.x0 + 1)

RlexIndexBits(n) == IF n <= 2 THEN 1 ELSE CHOOSE b \in 2..n : 2^(b - 1) < n /\ n <= 2^b

\* encode_rlex(): segments of a run and a suite of rising palette indices.
RunFrom(ix) == Max({n \in 1..Len(ix) : \A i \in 1..n : ix[i] = ix[1]})
SuiteFrom(ix, n, depth) == Max({d \in 0..depth : n + d <= Len(ix) /\ \A i \in 1..d : ix[n + i] = ix[1] + i})
ClearSegment(start, n, suite) == [stop |-> start + suite, depth |-> suite, run |-> RunLength(n - 1)]
RlexStep(acc, n, suite) ==
    [out |-> Append(acc.out, ClearSegment(acc.ix[1], n, suite)), ix |-> SubSeq(acc.ix, n + suite + 1, Len(acc.ix))]
RlexSegments(ix, depth) ==
    FoldLeft(LAMBDA acc, i : IF acc.ix = << >> THEN acc
                             ELSE RlexStep(acc, RunFrom(acc.ix), SuiteFrom(acc.ix, RunFrom(acc.ix), depth)),
             [out |-> << >>, ix |-> ix], ix).out

Palette(px) == FoldLeft(LAMBDA p, c : IF c \in Colours(p) THEN p ELSE Append(p, c), << >>, px)
Indices(px, palette) == [i \in DOMAIN px |-> (CHOOSE n \in DOMAIN palette : palette[n] = px[i]) - 1]
RlexOf(px, palette) ==
    [palette |-> palette,
     segments |-> RlexSegments(Indices(px, palette), 2^(SegmentBits - RlexIndexBits(Len(palette))) - 1)]
EncodeRlex(px) == RlexOf(px, Palette(px))

\* encode_residual(): runs over all pixels; what later layers paint extends the current run.
CloseRun(acc) == Append(acc.out, [c |-> acc.cur, run |-> RunLength(acc.run)])
ResidualStep(r, free, acc, i) ==
    IF i \in free /\ r.px[i] # acc.cur THEN [out |-> CloseRun(acc), cur |-> r.px[i], run |-> 1]
    ELSE [acc EXCEPT !.run = @ + 1]
ResidualRuns(r, free) ==
    CloseRun(FoldLeft(LAMBDA acc, i : ResidualStep(r, free, acc, i),
                      [out |-> << >>, cur |-> r.px[Min(free)], run |-> 0], [i \in DOMAIN r.px |-> i]))
EncodeResidual(r, free) == IF free = {} THEN << >> ELSE ResidualRuns(r, free)

Covered(r, a) == {Position(r, x, y) : x \in a.x0..a.x1, y \in a.y0..a.y1}

\* encode_strip(), with the layer given; the residual layer is written last.
BandOf(r, s, bg, b) == [x0 |-> b[1], x1 |-> b[2], y0 |-> s[1], y1 |-> s[2], bg |-> bg,
                        cols |-> [i \in 1..(b[2] - b[1] + 1) |-> LoadColumn(r, b[1] + i - 1, s, bg)]]
AddBands(acc, r, s, bg, split) ==
    [acc EXCEPT !.bands = @ \o [i \in DOMAIN split |-> BandOf(r, s, bg, split[i])],
                !.covered = @ \union {Position(r, x, y) : x \in UNION {b[1]..b[2] : b \in Range(split)}, y \in s[1]..s[2]}]
AddSubcodec(acc, r, area, id) ==
    [acc EXCEPT !.subs = Append(@, [area |-> area, id |-> id,
                                    data |-> IF id = "rlex" THEN EncodeRlex(AreaPixels(r, area)) ELSE AreaPixels(r, area)]),
                !.covered = @ \union Covered(r, area)]
StripLayer(acc, r, s, layer, bg) ==
    IF layer = "residual" THEN acc
    ELSE IF layer = "bands" THEN AddBands(acc, r, s, bg, SplitBands(InkColumns(r, s, bg)))
    ELSE AddSubcodec(acc, r, Trimmed(InkColumns(r, s, bg), s), layer)
EncodeStrip(acc, r, s, layer) == StripLayer(acc, r, s, layer, DominantColor(r, s))

\* encode_composite(), up to the V-bar headers.
AllStrips(r, layer) ==
    FoldLeft(LAMBDA a, s : EncodeStrip(a, r, s, layer), [bands |-> << >>, subs |-> << >>, covered |-> {}], ClearStrips(r))
WithResidual(r, done) ==
    [residual |-> EncodeResidual(r, DOMAIN r.px \ done.covered), bands |-> done.bands, subs |-> done.subs]
EncodeComposite(r, layer) == WithResidual(r, AllStrips(r, layer))

-----------------------------------------------------------------------------
(* The layers a decoder reads without its storages: what each paints, by position *)

\* decode_residual(): the runs cover the rectangle exactly; else nothing is decoded.
Spread(runs) == FoldLeft(LAMBDA s, seg : s \o [i \in 1..ReadRunLength(seg.run) |-> seg.c], << >>, runs)
DecodeResidual(r, runs) == IF Len(Spread(runs)) = Len(r.px) THEN Spread(runs) ELSE << >>

\* decode_rlex()
DecodeRlex(data) ==
    FoldLeft(LAMBDA px, s : px \o [i \in 1..ReadRunLength(s.run) |-> data.palette[s.stop - s.depth + 1]]
                               \o [i \in 1..(s.depth + 1) |-> data.palette[s.stop - s.depth + i]],
             << >>, data.segments)

PaintArea(r, a, w, px) ==
    [i \in Covered(r, a) |-> px[(((i - 1) \div r.w) + 1 - a.y0) * w + ((i - 1) % r.w) + 2 - a.x0]]
DecodeSubcodec(r, sub) ==
    PaintArea(r, sub.area, sub.area.x1 - sub.area.x0 + 1, IF sub.id = "rlex" THEN DecodeRlex(sub.data) ELSE sub.data)
DecodeSubcodecs(r, subs) == FoldLeft(LAMBDA f, sub : DecodeSubcodec(r, sub) @@ f, << >>, subs)

\* The columns of all bands in turn, each with the background and the height of its band.
BandColumns(bands) ==
    FlattenSeq([b \in DOMAIN bands |->
        [i \in DOMAIN bands[b].cols |->
            [col |-> bands[b].cols[i], bg |-> bands[b].bg, height |-> bands[b].y1 - bands[b].y0 + 1]]])

\* The layers over one another, the V-bars as they were before.
Over(r, under, banded, over) ==
    [i \in DOMAIN r.px |-> IF i \in DOMAIN over THEN over[i] ELSE IF i \in banded THEN r.px[i]
                           ELSE IF under = << >> THEN 7 ELSE under[i]]
Layered(r, c) ==
    Over(r, DecodeResidual(r, c.residual), UNION {Covered(r, b) : b \in Range(c.bands)}, DecodeSubcodecs(r, c.subs))

\* What each region and layer come to, before any storage is involved.
CodedAs(r, c) == [cols |-> BandColumns(c.bands), px |-> Layered(r, c)]
Coded == [k \in Regions \X Layers |-> CodedAs(k[1], EncodeComposite(k[1], k[2]))] @@ << >>

-----------------------------------------------------------------------------
(* V-bars *)

\* Mutant: a short V-bar hit does not store the V-bar.
WriteShortOnly(e, c) ==
    LET hit == FindColumn(e.vbars, c.px)
        short == IF ShortVbar(c) = << >> THEN -1 ELSE FindColumn(e.shorts, ShortVbar(c))
    IN IF hit >= 0 THEN [e |-> e, bar |-> [kind |-> "hit", slot |-> hit]]
       ELSE IF short >= 0 THEN [e |-> e, bar |-> [kind |-> "short", slot |-> short, on |-> c.on]]
       ELSE [e |-> [e EXCEPT !.shorts = InsertColumn(@, ShortVbar(c)), !.vbars = InsertColumn(@, c.px)],
             bar |-> [kind |-> "miss", on |-> c.on, off |-> c.off, px |-> ShortVbar(c)]]

\* write_band(), one column: a V-bar hit, a short V-bar hit, or the pixels; the last two also
\* store the V-bar, and the last the short one.
WriteColumn(e, c) ==
    LET hit == FindColumn(e.vbars, c.px)
        short == IF ShortVbar(c) = << >> THEN -1 ELSE FindColumn(e.shorts, ShortVbar(c))
        stored == [e EXCEPT !.vbars = InsertColumn(@, c.px)]
    IN IF hit >= 0 THEN [e |-> e, bar |-> [kind |-> "hit", slot |-> hit]]
       ELSE IF short >= 0 THEN [e |-> stored, bar |-> [kind |-> "short", slot |-> short, on |-> c.on]]
       ELSE [e |-> [stored EXCEPT !.shorts = InsertColumn(@, ShortVbar(c))],
             bar |-> [kind |-> "miss", on |-> c.on, off |-> c.off, px |-> ShortVbar(c)]]

\* The V-bar of one header of decode_band(), << >> with an error.
BarPixels(d, bar, height, bg) ==
    LET short == IF bar.kind = "short" THEN d.shorts.slots[bar.slot] ELSE bar.px
    IN IF bar.kind = "hit"
       THEN IF Len(d.vbars.slots[bar.slot]) = height /\ d.vbars.slots[bar.slot] # Unused
            THEN d.vbars.slots[bar.slot] ELSE << >>
       ELSE IF short = Unused \/ bar.on + Len(short) > height THEN << >>
       ELSE [i \in 1..height |-> IF i - bar.on \in DOMAIN short THEN short[i - bar.on] ELSE bg]

\* decode_band(), one header: the client fills its storages at its own cursors.
ReadColumn(d, bar, px) ==
    CASE bar.kind = "hit" -> d
      [] bar.kind = "short" -> [d EXCEPT !.vbars = InsertColumn(@, px)]
      [] bar.kind = "miss" -> [d EXCEPT !.vbars = InsertColumn(@, px), !.shorts = InsertColumn(@, bar.px)]

\* The columns of all bands in turn, written and read: c is a column with the band it is in.
RECURSIVE Columns(_, _)
Columns(both, cols) ==
    IF cols = << >> THEN both
    ELSE LET c == Head(cols)
             w == WriteColumn(both.e, c.col)
             px == BarPixels(both.d, w.bar, c.height, c.bg)
         IN Columns([e |-> w.e, d |-> ReadColumn(both.d, w.bar, px), ok |-> both.ok /\ px = c.col.px], Tail(cols))

-----------------------------------------------------------------------------
(* encode(), and decode() by the client that receives the stream *)

\* decode(): the sequence number, and the cursors back to the start.
DecodeHeader == [cdec EXCEPT !.seq = (@ + 1) % SeqNumbers,
                             !.vbars.cur = IF cenc.reset THEN 0 ELSE @, !.shorts.cur = IF cenc.reset THEN 0 ELSE @]

EncodeHeader == [cenc EXCEPT !.seq = (@ + 1) % SeqNumbers, !.reset = FALSE]

\* A glyph hit is the whole stream: the client replays its pixels.
GlyphHit(r) ==
    /\ FindGlyph(cenc, r) # {}
    /\ LET g == Min(FindGlyph(cenc, r))
       IN /\ cenc' = UseGlyph(EncodeHeader, g)
          /\ cdec' = DecodeHeader
          /\ cseen' = (cenc.seq = cdec.seq /\ cdec.glyphs[g] = r.px)

\* Otherwise the layers, and perhaps a glyph stored: the rectangle after all layers.
EncodeRegion(r, layer, cached) ==
    /\ cached => FindGlyph(cenc, r) = {}
    /\ LET stored == IF cached THEN InsertGlyph(EncodeHeader, r) ELSE [g |-> 0, e |-> EncodeHeader]
           done == Columns([e |-> stored.e, d |-> DecodeHeader, ok |-> TRUE], Coded[<<r, layer>>].cols)
           px == Coded[<<r, layer>>].px
       IN /\ cenc' = done.e
          /\ cdec' = IF cached THEN [done.d EXCEPT !.glyphs[stored.g] = px] ELSE done.d
          /\ cseen' = (cenc.seq = cdec.seq /\ done.ok /\ px = r.px)

\* reset() for a new graphics channel.  External: the client starts its sequence anew, and may
\* keep its storages.
ResetClear(kept) ==
    /\ cenc' = NewEncoder
    /\ cdec' = IF kept THEN [cdec EXCEPT !.seq = 0] ELSE NewDecoder
    /\ UNCHANGED cseen

ClearNext ==
    \/ \E r \in Regions : GlyphHit(r)
    \/ \E r \in Regions, l \in Layers, g \in BOOLEAN : EncodeRegion(r, l, g)
    \/ \E kept \in BOOLEAN : ResetClear(kept)

ClearSpec == ClearInit /\ [][ClearNext]_clearVars

-----------------------------------------------------------------------------
(* Properties *)

\* "It is lossless": the client paints every pixel of the region as it was, whatever the
\* storages of both sides went through before.
ClearIsLossless == cseen

\* Every slot of the encoder's mirrors holds what the client's storage holds.
MirrorsAgree ==
    /\ \A i \in DOMAIN cenc.vbars.slots : cenc.vbars.slots[i] \in {Unused, cdec.vbars.slots[i]}
    /\ \A i \in DOMAIN cenc.shorts.slots : cenc.shorts.slots[i] \in {Unused, cdec.shorts.slots[i]}
    /\ \A g \in DOMAIN cenc.glyphs : cenc.glyphs[g].px = cdec.glyphs[g]
    /\ cenc.reset \/ (cenc.vbars.cur = cdec.vbars.cur /\ cenc.shorts.cur = cdec.shorts.cur)

\* ClearCodec reads back what it wrote, and both ends' caches agree.
ClearCodecCorrect ==
    /\ ClearIsLossless
    /\ MirrorsAgree
=============================================================================
