------------------------------ MODULE WireLayout ------------------------------
(***************************************************************************)
(* The vocabulary the message formats are written in, and what the byte    *)
(* readers and writers of base/ do with it.  A layout is a sequence of     *)
(* items; Enc(layout, message) is the octets a writer puts out for a       *)
(* message and Dec(layout, state) what a reader takes from the octets      *)
(* still in front of it.  Writers and readers of the program are separate  *)
(* functions, and so each message has a writer's layout and a reader's.    *)
(* The layouts of the connection sequence and of the share PDUs (proto/)   *)
(* come last.                                                              *)
(*                                                                         *)
(* A message is a function from the names of its fields to their values; a *)
(* field that is absent is not in its domain.  Octets are 0..255.          *)
(* Numbers stay below 2^31, TLC's own bound; a longer field has zeros      *)
(* above.                                                                  *)
(***************************************************************************)
EXTENDS Integers, Sequences, SequencesExt, FiniteSets, TLC

------------------------------------------------------------------------------
(* Items.                                                                  *)

Num(w, f) == [op |-> "num", w |-> w, be |-> FALSE, f |-> f]
NumBE(w, f) == [op |-> "num", w |-> w, be |-> TRUE, f |-> f]
Nums(w, fs) == [i \in 1..Len(fs) |-> Num(w, fs[i])]
Signed(w, f) == [op |-> "int", w |-> w, f |-> f]
\* A number the reader checks: one of vals, or between lo and hi.
OneOf(w, f, vals) == [op |-> "val", w |-> w, f |-> f, vals |-> vals, ok |-> Range(vals)]
Among(w, f, lo, hi) == [op |-> "val", w |-> w, f |-> f, vals |-> <<lo, hi>>, ok |-> lo..hi]
\* What a reader checks of fields it has read.
Less(f, g) == [op |-> "less", f |-> f, g |-> g]
Holds(f, ok) == [op |-> "in", f |-> f, ok |-> ok]
Lens(f, lo, hi) == [op |-> "lens", f |-> f, ok |-> lo..hi]
Unlike(f, g) == [op |-> "unlike", f |-> f, g |-> g]
AtMost(f, g) == [op |-> "atmost", f |-> f, g |-> g]
Fits(f, g) == [op |-> "fits", f |-> f, g |-> g]
\* Octets that are fixed, and octets that are zero and not looked at.
Lit(bytes) == [op |-> "lit", bytes |-> bytes]
Pad(n) == [op |-> "pad", n |-> n]
\* n octets when the list f has an odd length.
PadOdd(n, f) == [op |-> "padodd", n |-> n, f |-> f]
Blob(n, f) == [op |-> "blob", n |-> n, f |-> f]
Rest(f) == [op |-> "rest", f |-> f, least |-> 0]
Filled(f) == [op |-> "rest", f |-> f, least |-> 1]
\* A length, adj more than the octets it counts, and those octets: one field,
\* or a layout of its own that fills them, or one that may leave some unread.
Frame(w, be, adj, body) == [op |-> "frame", w |-> w, be |-> be, adj |-> adj, body |-> body, exact |-> TRUE]
Sized(w, adj, f) == Frame(w, FALSE, adj, <<Rest(f)>>)
\* The length first, under a name, and what it counts further on.
Ahead(w, name, body) == [op |-> "ahead", w |-> w, name |-> name, body |-> body]
Sub(name, body) == [op |-> "sub", name |-> name, adj |-> 0, body |-> body]
SubLess(name, adj, body) == [op |-> "sub", name |-> name, adj |-> adj, body |-> body]
\* A field for what a reader had only noted.
Noted(f) == [op |-> "noted", f |-> f]
\* The same as Frame, where the reader also wants nothing to follow.
Whole(w, be, adj, body) == [op |-> "whole", w |-> w, be |-> be, adj |-> adj, body |-> body]
\* A length that may leave out four octets at the end.
TrailFrame(w, body) == [op |-> "trail", w |-> w, body |-> body]
\* n octets, zeros where the layout does not reach.
PadTo(n, body) == [op |-> "padto", n |-> n, body |-> body]
\* f zero octets and before them their number and adj more, or nothing.
Zeros(w, adj, f) == [op |-> "zeros", w |-> w, adj |-> adj, f |-> f]
\* A list: its length, at most max, and later its elements; or elements until
\* the octets end.
Count(w, f, max) == [op |-> "count", w |-> w, f |-> f, max |-> max]
Items(f, body) == [op |-> "items", f |-> f, body |-> body]
Fill(f, max, body) == [op |-> "fill", f |-> f, max |-> max, body |-> body]
\* Blocks of a type and a length that counts the block's header: the writer
\* puts one out where its field is present, the reader takes them in any order
\* and, of two of a type, refuses both or keeps the first or the last (dup).
Block(tag, f, body) == [op |-> "block", tag |-> tag, f |-> f, body |-> body, must |-> FALSE]
Always(tag, f, body) == [op |-> "block", tag |-> tag, f |-> f, body |-> body, must |-> TRUE]
BlockCount(w, fs, max) == [op |-> "blockcount", w |-> w, fs |-> fs, max |-> max]
Blocks(table, need, dup) == [op |-> "blocks", table |-> table, need |-> need, dup |-> dup]
\* The list g is as long as f, whose length has been read; elements until the
\* octets stop.
Alike(f, g) == [op |-> "alike", f |-> f, g |-> g]
Until(f, stop, max, body) == [op |-> "until", f |-> f, stop |-> stop, max |-> max, body |-> body]
\* A part that is a record of its own.
Rec(f, body) == [op |-> "rec", f |-> f, body |-> body]
\* Octets a reader ignores up to the end.
Slack == [op |-> "slack"]
\* Where a message may end: the writer stops if f is absent, the reader if
\* nothing is left.
Stop(f) == [op |-> "stop", f |-> f]
Opt(f, body) == [op |-> "opt", f |-> f, body |-> body]
\* Present as an earlier bit said; present as an earlier field's value says.
If(f, body) == [op |-> "if", f |-> f, body |-> body]
Unless(f, body) == [op |-> "unless", f |-> f, body |-> body]
\* Present if the tag is next.
Tagged(tag, f, body) == [op |-> "tagged", tag |-> tag, f |-> f, body |-> body]
Case(f, ok, body) == [op |-> "case", f |-> f, ok |-> ok, body |-> body]
\* A number made of parts, each mul times a value below mod.
Bits(w, be, parts) == [op |-> "bits", w |-> w, be |-> be, parts |-> parts]
OfKind(mul, mod, codes) == [src |-> "kind", mul |-> mul, mod |-> mod, f |-> "kind", codes |-> codes]
Present(mul, f) == [src |-> "present", mul |-> mul, mod |-> 2, f |-> f, codes |-> << >>]
Field(mul, mod, f) == [src |-> "field", mul |-> mul, mod |-> mod, f |-> f, codes |-> << >>]
Must(mul) == [src |-> "must", mul |-> mul, mod |-> 2, f |-> "", codes |-> << >>]
CountOf(mul, f) == [src |-> "count", mul |-> mul, mod |-> 16, f |-> f, codes |-> << >>]
\* Low bits whose meaning the kind, read before them, decides.
PartsBy(mod, table) == [src |-> "by", mul |-> 1, mod |-> mod, f |-> "kind", codes |-> table]
SizeOf(mul, f) == [src |-> "size", mul |-> mul, mod |-> 4, f |-> f, codes |-> << >>]
Kind(w, codes) == Bits(w, FALSE, <<OfKind(1, 0, codes)>>)
Flags(w, fs) == Bits(w, FALSE, [i \in 1..Len(fs) |-> Present(2 ^ (i - 1), fs[i])])
By(bodies) == [op |-> "by", bodies |-> bodies]
\* A list's length where CountOf had no room for it; a length noted before.
CountRest(f) == [op |-> "countrest", f |-> f]
Expect(name, ok) == [op |-> "expect", name |-> name, ok |-> ok]
\* A fast-path PDU's length, which counts its header octet and itself.
FastLength(body) == [op |-> "fast", body |-> body]
\* A number as wide as the code SizeOf left says.
Var(f) == [op |-> "var", f |-> f]
\* Text: UTF-16 in n octets, up to a NUL, or filling the octets (with a NUL
\* written last); ASCII in n octets or up to a NUL.
Text16(n, f) == [op |-> "text16", n |-> n, f |-> f]
TextZ16(max, f) == [op |-> "textz16", max |-> max, f |-> f]
Utf16(f) == [op |-> "utf16", z |-> 0, f |-> f]
Utf16Z(f) == [op |-> "utf16", z |-> 2, f |-> f]
Text8(n, f) == [op |-> "text8", n |-> n, f |-> f]
TextZ8(f) == [op |-> "textz8", f |-> f]
\* ASN.1: BER values and the aligned PER this protocol uses.
Tlv(tag, body) == [op |-> "tlv", tag |-> tag, body |-> body]
BerInt(f) == [op |-> "berint", f |-> f]
BerSigned(f) == [op |-> "bersigned", f |-> f]
Oid(f) == [op |-> "oid", f |-> f]
BerBool(f) == [op |-> "berbool", f |-> f]
Truth(f) == BerBool(f)
Ber(tag, f) == Tlv(<<tag>>, <<BerInt(f)>>)
Octets(f) == Tlv(<<4>>, <<Rest(f)>>)
PerInt(f) == [op |-> "perint", f |-> f]
Per16(min, f) == [op |-> "per16", min |-> min, f |-> f]
PerFrame(body) == [op |-> "per", body |-> body, loose |-> FALSE]
PerLoose(body) == [op |-> "per", body |-> body, loose |-> TRUE]
PerSized(f) == PerFrame(<<Rest(f)>>)
\* The line in front of a negotiation request: a cookie, or a routing token.
Cookie(prefix) == [op |-> "cookie", prefix |-> prefix]
\* The variable-length integers of the touch channel: c bits say how many
\* octets follow the first.
VarInt(c, signed, f) == [op |-> "varint", c |-> c, signed |-> signed, f |-> f]
VarCount(f, max) == [op |-> "varcount", f |-> f, max |-> max]
VarFlags(fs) == [op |-> "varbits", parts |-> [i \in 1..Len(fs) |-> Present(2 ^ (i - 1), fs[i])], all |-> 2 ^ Len(fs) - 1]
\* A header with the length and the place of each of the fields fs, whose
\* octets (layouts in bodies) follow it in that order; a part of the header, n
\* octets long, that is there if the octets of the fields leave room for it.
Buffers(fs, head, bodies) == [op |-> "buffers", fs |-> fs, head |-> head, bodies |-> bodies]
Buffer(f) == [op |-> "buffer", f |-> f]
Room(f, fs, n, body) == [op |-> "room", f |-> f, fs |-> fs, n |-> n, body |-> body]
\* A mask of a pointer shape: its size follows from the shape's and its depth
\* (0: the depth is a field), and its length was noted before.
Mask(f, depth) == [op |-> "mask", f |-> f, depth |-> depth]
\* The rest, whose length, if not 0, was noted before.
SubOrRest(name, body) == [op |-> "suborrest", name |-> name, body |-> body]

------------------------------------------------------------------------------
(* Numbers and text.                                                       *)

Powers == <<1, 256, 65536, 16777216>>
Octet(v, i) == IF i > 3 THEN 0 ELSE (v \div Powers[i + 1]) % 256
LE(w, v) == [i \in 1..w |-> Octet(v, i - 1)]
BE(w, v) == [i \in 1..w |-> Octet(v, w - i)]
Order(w, be, v) == IF be THEN BE(w, v) ELSE LE(w, v)
OfBE(bytes) == FoldLeft(LAMBDA v, b : 256 * v + b, 0, bytes)
OfOrder(be, bytes) == OfBE(IF be THEN bytes ELSE Reverse(bytes))
\* A number whose top octet is a sign.
OfSigned(bytes) ==
    LET top == bytes[Len(bytes)] IN
    OfBE(<<IF top > 127 THEN top - 256 ELSE top>> \o Tail(Reverse(bytes)))

RECURSIVE Joined(_, _, _)
\* The sequences ss[i] to ss[j], one after the other.
Joined(ss, i, j) ==
    IF i > j THEN << >> ELSE IF i = j THEN ss[i]
    ELSE Joined(ss, i, (i + j) \div 2) \o Joined(ss, (i + j) \div 2 + 1, j)
Flat(ss) == Joined(ss, 1, Len(ss))

High(u) == u \in 55296..56319
Low(u) == u \in 56320..57343
Units(cp) == IF cp >= 65536 THEN <<55296 + ((cp - 65536) \div 1024), 56320 + ((cp - 65536) % 1024)>> ELSE <<cp>>
utf8_to_utf16le(text) == Flat([i \in 1..Len(text) |-> Flat([j \in 1..Len(Units(text[i])) |-> LE(2, Units(text[i])[j])])])
UnitsOf(bytes) == [i \in 1..Len(bytes) \div 2 |-> bytes[2 * i - 1] + 256 * bytes[2 * i]]
RECURSIVE Scalars(_)
Scalars(us) ==
    IF us = << >> THEN << >>
    ELSE IF us[1] = 0 THEN << >>
    ELSE IF High(us[1]) /\ Len(us) > 1 /\ Low(us[2])
         THEN <<65536 + (us[1] - 55296) * 1024 + (us[2] - 56320)>> \o Scalars(SubSeq(us, 3, Len(us)))
    ELSE <<IF High(us[1]) \/ Low(us[1]) THEN 65533 ELSE us[1]>> \o Scalars(Tail(us))
utf16le_to_utf8(bytes) == Scalars(UnitsOf(bytes)) \o IF Len(bytes) % 2 = 1 THEN <<65533>> ELSE << >>
Start(bytes, k) == SubSeq(bytes, 1, IF k < Len(bytes) THEN k ELSE Len(bytes))
Ended(n, bytes) == bytes \o [i \in 1..(n - Len(bytes)) |-> 0]
UpToNul(s) == IF \E i \in 1..Len(s) : s[i] = 0 THEN SubSeq(s, 1, SelectInSeq(s, LAMBDA b : b = 0) - 1) ELSE s

Wide(v) == IF v < 256 THEN 1 ELSE IF v < 65536 THEN 2 ELSE 4
size_code(v) == IF v < 256 THEN 0 ELSE IF v < 65536 THEN 1 ELSE 2
BerLength(n) == IF n < 128 THEN <<n>> ELSE <<128 + (IF n < 256 THEN 1 ELSE 2)>> \o BE(IF n < 256 THEN 1 ELSE 2, n)
PerLength(n) == IF n < 128 THEN <<n>> ELSE BE(2, 32768 + n)
BerDigits(v) ==
    LET w == IF v < 128 THEN 1 ELSE IF v < 32768 THEN 2 ELSE IF v < 8388608 THEN 3 ELSE 4 IN BE(w, v)
SignedDigits(v) ==
    BE(IF v \in -128..127 THEN 1 ELSE IF v \in -32768..32767 THEN 2 ELSE IF v \in -8388608..8388607 THEN 3 ELSE 4, v)
\* A subidentifier does not start with 128, and the last one ends.
check_oid(bytes) ==
    /\ bytes /= << >> /\ Len(bytes) <= 32 /\ bytes[Len(bytes)] < 128
    /\ \A i \in 1..Len(bytes) : bytes[i] = 128 => i > 1 /\ bytes[i - 1] >= 128
xor_stride(width, depth) == LET n == (width * depth + 7) \div 8 IN n + (n % 2)
MaskSize(it, m) == xor_stride(m.width, IF it.depth = 0 THEN m.xor_bpp ELSE it.depth) * m.height
\* First octet: c bits of count, the sign, the value's top bits.
VarBits(c, signed) == (IF signed THEN 7 ELSE 8) - c
VarMore(c, signed, a) == CHOOSE k \in 0..3 : a < 2 ^ (VarBits(c, signed) + 8 * k) /\ (k = 0 \/ a >= 2 ^ (VarBits(c, signed) + 8 * (k - 1)))
VarBytes(c, signed, v) ==
    LET a == IF v < 0 THEN -v ELSE v
        k == VarMore(c, signed, a) IN
    <<k * 2 ^ (8 - c) + (IF v < 0 THEN 2 ^ VarBits(c, signed) ELSE 0) + (a \div 256 ^ k)>> \o BE(k, a)

------------------------------------------------------------------------------
(* Writing.                                                                *)

RECURSIVE PartValue(_, _)
PartValue(p, m) ==
    CASE p.src = "kind" -> p.codes[m.kind]
      [] p.src = "present" -> IF p.f \in DOMAIN m THEN 1 ELSE 0
      [] p.src = "must" -> 1
      [] p.src = "field" -> m[p.f]
      [] p.src = "size" -> size_code(m[p.f])
      [] p.src = "count" -> IF Len(m[p.f]) < 16 THEN Len(m[p.f]) ELSE 0
      [] p.src = "by" -> FoldLeft(LAMBDA v, q : v + q.mul * PartValue(q, m), 0, p.codes[m.kind])

RECURSIVE Enc(_, _)
\* The header with every field's place after it, and the fields.
append_payload(it, m, parts) ==
    LET sizes == [f \in DOMAIN parts |-> Len(parts[f])]
        Header(places) == Enc(it.head, ("sizes" :> sizes) @@ ("places" :> places) @@ m)
        start == Len(Header([f \in DOMAIN parts |-> 0]))
        before == [i \in 1..Len(it.fs) |-> FoldLeft(LAMBDA n, f : n + sizes[f], start, SubSeq(it.fs, 1, i - 1))] IN
    Header([f \in DOMAIN parts |-> before[CHOOSE i \in 1..Len(it.fs) : it.fs[i] = f]])
        \o Flat([i \in 1..Len(it.fs) |-> parts[it.fs[i]]])
EncItem(it, m) ==
    CASE it.op = "num" -> Order(it.w, it.be, m[it.f])
      [] it.op \in {"int", "val"} -> LE(it.w, m[it.f])
      [] it.op \in {"less", "in", "lens", "unlike", "fits", "atmost", "alike", "stop", "slack"} -> << >>
      [] it.op = "lit" -> it.bytes
      [] it.op = "pad" -> [i \in 1..it.n |-> 0]
      [] it.op = "padodd" -> IF Len(m[it.f]) % 2 = 1 THEN [i \in 1..it.n |-> 0] ELSE << >>
      [] it.op \in {"blob", "rest", "mask", "oid"} -> m[it.f]
      [] it.op = "ahead" -> LE(it.w, Len(Enc(it.body, m)))
      [] it.op = "padto" -> Ended(it.n, Enc(it.body, m))
      [] it.op = "zeros" -> LE(it.w, IF m[it.f] = 0 THEN 0 ELSE it.adj + m[it.f]) \o [i \in 1..m[it.f] |-> 0]
      [] it.op \in {"sub", "suborrest"} -> Enc(it.body, m)
      [] it.op = "rec" -> Enc(it.body, m[it.f])
      [] it.op = "blockcount" -> LE(it.w, Cardinality(it.fs \intersect DOMAIN m))
      [] it.op \in {"frame", "whole"} ->
           LET body == Enc(it.body, m) IN Order(it.w, it.be, Len(body) + it.adj) \o body
      [] it.op = "count" -> LE(it.w, Len(m[it.f]))
      [] it.op \in {"items", "fill"} -> Flat([i \in 1..Len(m[it.f]) |-> Enc(it.body, m[it.f][i])])
      [] it.op = "block" ->
           IF it.f \notin DOMAIN m THEN << >>
           ELSE LET body == Enc(it.body, m[it.f]) IN LE(2, it.tag) \o LE(2, Len(body) + 4) \o body
      [] it.op = "until" -> Flat([i \in 1..Len(m[it.f]) |-> Enc(it.body, m[it.f][i])]) \o it.stop
      [] it.op \in {"opt", "if", "tagged", "room"} -> IF it.f \in DOMAIN m THEN Enc(it.body, m) ELSE << >>
      [] it.op = "unless" -> IF it.f \in DOMAIN m THEN << >> ELSE Enc(it.body, m)
      [] it.op = "buffer" -> LE(2, m.sizes[it.f]) \o LE(2, m.sizes[it.f]) \o LE(4, m.places[it.f])
      [] it.op = "buffers" -> append_payload(it, m, [f \in DOMAIN it.bodies |-> Enc(it.bodies[f], m)])
      [] it.op = "case" -> IF m[it.f] \in it.ok THEN Enc(it.body, m) ELSE << >>
      [] it.op = "bits" -> Order(it.w, it.be, FoldLeft(LAMBDA v, p : v + p.mul * PartValue(p, m), 0, it.parts))
      [] it.op = "by" -> Enc(it.bodies[m.kind], m)
      [] it.op = "countrest" -> IF Len(m[it.f]) \in 1..15 THEN << >> ELSE <<Len(m[it.f])>>
      [] it.op = "fast" -> LET body == Enc(it.body, m) IN BE(2, 32768 + Len(body) + 3) \o body
      [] it.op = "var" -> LE(Wide(m[it.f]), m[it.f])
      [] it.op = "text16" -> Ended(it.n, Start(utf8_to_utf16le(m[it.f]), it.n - 2))
      [] it.op = "textz16" -> utf8_to_utf16le(m[it.f]) \o <<0, 0>>
      [] it.op = "utf16" -> utf8_to_utf16le(m[it.f]) \o [i \in 1..it.z |-> 0]
      [] it.op = "text8" -> Ended(it.n, m[it.f])
      [] it.op = "textz8" -> m[it.f] \o <<0>>
      [] it.op = "tlv" -> LET body == Enc(it.body, m) IN it.tag \o BerLength(Len(body)) \o body
      [] it.op = "berint" -> BerDigits(m[it.f])
      [] it.op = "bersigned" -> SignedDigits(m[it.f])
      [] it.op = "berbool" -> <<IF m[it.f] = 1 THEN 255 ELSE 0>>
      [] it.op = "perint" -> <<Wide(m[it.f])>> \o BE(Wide(m[it.f]), m[it.f])
      [] it.op = "per16" -> BE(2, m[it.f] - it.min)
      [] it.op = "cookie" ->
           IF "cookie" \in DOMAIN m THEN it.prefix \o m.cookie \o <<13, 10>>
           ELSE IF "routing_token" \in DOMAIN m THEN m.routing_token \o <<13, 10>> ELSE << >>
      [] it.op = "per" -> LET body == Enc(it.body, m) IN PerLength(Len(body)) \o body
      [] it.op = "varint" -> VarBytes(it.c, it.signed, m[it.f])
      [] it.op = "varcount" -> VarBytes(1, FALSE, Len(m[it.f]))
      [] it.op = "varbits" -> VarBytes(1, FALSE, FoldLeft(LAMBDA v, p : v + p.mul * PartValue(p, m), 0, it.parts))
Enc(lay, m) ==
    LET upto == {i \in 1..Len(lay) : \A j \in 1..i : lay[j].op = "stop" => lay[j].f \in DOMAIN m} IN
    Joined([i \in upto |-> EncItem(lay[i], m)], 1, Cardinality(upto))

------------------------------------------------------------------------------
(* Reading.  A reader's state: whether it has failed, the octets in front  *)
(* of it, the message so far, and the numbers it keeps to itself (counts,  *)
(* presence bits, sizes).                                                  *)

Fresh(bytes) == [ok |-> TRUE, in |-> bytes, m |-> << >>, n |-> << >>]
Failed(s) == [s EXCEPT !.ok = FALSE]
Take(s, k) == SubSeq(s.in, 1, k)
Past(s, k) == [s EXCEPT !.in = SubSeq(@, k + 1, Len(@))]
Set(s, f, v) == [s EXCEPT !.m = (f :> v) @@ @]
Note(s, f, v) == [s EXCEPT !.n = (f :> v) @@ @]
\* Reads k octets and hands them, with the reader past them, to Then.
Read(s, k, Then(_, _)) == IF Len(s.in) < k THEN Failed(s) ELSE Then(Past(s, k), Take(s, k))
Value(s, k, f, Of(_)) == Read(s, k, LAMBDA t, b : Set(t, f, Of(b)))

RECURSIVE ReadBits(_, _, _)
ReadBits(s, p, v) ==
    LET x == IF p.mod = 0 THEN v ELSE (v \div p.mul) % p.mod IN
    CASE p.src = "kind" ->
           IF \E k \in DOMAIN p.codes : p.codes[k] = x
           THEN Set(s, "kind", CHOOSE k \in DOMAIN p.codes : p.codes[k] = x) ELSE Failed(s)
      [] p.src = "field" -> Set(s, p.f, x)
      [] p.src = "must" -> IF x = 1 THEN s ELSE Failed(s)
      [] p.src = "by" -> IF s.ok THEN FoldLeft(LAMBDA t, q : ReadBits(t, q, x), s, p.codes[s.m.kind]) ELSE s
      [] OTHER -> Note(s, p.f, x)

RECURSIVE Dec(_, _)
\* Reads body from the next k octets alone; with exact it must use them up.
Within(s, k, exact, body) ==
    IF k < 0 \/ Len(s.in) < k THEN Failed(s)
    ELSE LET sub == Dec(body, [s EXCEPT !.in = Take(s, k)]) IN
         IF ~sub.ok \/ (exact /\ sub.in /= << >>) THEN Failed(s) ELSE [sub EXCEPT !.in = Past(s, k).in]
RECURSIVE Elements(_, _, _, _)
\* Reads k more elements into f, or (k < 0) elements until nothing is left.
Elements(s, f, body, k) ==
    IF k = 0 \/ (k < 0 /\ s.in = << >>) THEN s
    ELSE LET e == Dec(body, Fresh(s.in)) IN
         IF ~e.ok THEN Failed(s)
         ELSE Elements([s EXCEPT !.in = e.in, !.m[f] = Append(@, e.m)], f, body, k - 1)
RECURSIVE ReadUntil(_, _)
ReadUntil(s, it) ==
    IF Start(s.in, Len(it.stop)) = it.stop THEN Past(s, Len(it.stop))
    ELSE LET e == Dec(it.body, Fresh(s.in)) IN
         IF ~e.ok \/ Len(s.m[it.f]) = it.max THEN Failed(s) ELSE ReadUntil([s EXCEPT !.in = e.in, !.m[it.f] = Append(@, e.m)], it)

\* Where the first octets of a field are: the end of the header.
payload_begin(s, fs) ==
    LET starts == {s.n[f].at : f \in {g \in Range(fs) : s.n[g].len /= 0}} IN
    IF starts = {} THEN s.n["size"] ELSE CHOOSE x \in starts : \A y \in starts : x <= y
\* No field overlaps the header or another, or lies outside the message.
check_fields(s, fs, header_end) ==
    LET used == {s.n[f] : f \in {g \in Range(fs) : s.n[g].len /= 0}} IN
    /\ \A x \in used : x.at >= header_end /\ x.at + x.len <= s.n["size"]
    /\ \A x, y \in used : x.at < y.at => x.at + x.len <= y.at
    /\ Cardinality({x.at : x \in used}) = Cardinality({g \in Range(fs) : s.n[g].len /= 0})
ReadBuffers(s, it) ==
    LET t == Dec(it.head, Note(s, "size", Len(s.in)))
        Payload(u, f) == IF u.n[f].len = 0 THEN << >> ELSE SubSeq(s.in, u.n[f].at + 1, u.n[f].at + u.n[f].len)
        Body(u, f) == IF ~u.ok THEN u ELSE
            LET e == Dec(it.bodies[f], [u EXCEPT !.in = Payload(u, f)]) IN IF e.in = << >> THEN e ELSE Failed(u) IN
    IF ~t.ok \/ ~check_fields(t, it.fs, Len(s.in) - Len(t.in)) THEN Failed(s)
    ELSE [FoldLeft(Body, t, it.fs) EXCEPT !.in = << >>]
RECURSIVE ReadBlocks(_, _, _)
\* Blocks until nothing is left, or k of them.  A known type is read from its
\* own octets.
ReadBlocks(s, it, k) ==
    IF s.in = << >> \/ k = 0 THEN IF it.need \subseteq DOMAIN s.m THEN s ELSE Failed(s)
    ELSE IF Len(s.in) < 4 THEN Failed(s)
    ELSE LET tag == s.in[1] + 256 * s.in[2]
             len == s.in[3] + 256 * s.in[4] - 4
             known == {i \in 1..Len(it.table) : it.table[i].tag = tag}
             t == Past(s, 4) IN
         IF len < 0 \/ Len(t.in) < len THEN Failed(s)
         ELSE IF known = {} THEN ReadBlocks(Past(t, len), it, k - 1)
         ELSE LET b == it.table[CHOOSE i \in known : TRUE]
                  e == Dec(b.body, Fresh(Take(t, len))) IN
              IF ~e.ok \/ (it.dup = "refuse" /\ b.f \in DOMAIN s.m) THEN Failed(s)
              ELSE ReadBlocks(IF it.dup = "first" /\ b.f \in DOMAIN s.m THEN Past(t, len) ELSE Set(Past(t, len), b.f, e.m), it, k - 1)

EvenNul(bytes) == {i \in 1..Len(bytes) \div 2 : bytes[2 * i - 1] = 0 /\ bytes[2 * i] = 0}
Crlf(bytes) == {i \in 1..(Len(bytes) - 1) : bytes[i] = 13 /\ bytes[i + 1] = 10}
\* Anything but the start of a negotiation request is a line up to its CRLF.
ReadCookie(s, prefix) ==
    IF s.in = << >> THEN s ELSE IF s.in[1] = 1 THEN s
    ELSE LET ends == Crlf(s.in)
             end == CHOOSE i \in ends : \A j \in ends : i <= j
             token == SubSeq(s.in, 1, end - 1)
             k == Len(prefix) IN
         IF ends = {} THEN Failed(s)
         ELSE IF Start(token, k) = prefix THEN Set(Past(s, end + 1), "cookie", SubSeq(token, k + 1, end - 1))
         ELSE Set(Past(s, end + 1), "routing_token", token)
\* The octets a length takes, 0 if there is none to read, and its value.
BerLengthSize(in) ==
    IF in = << >> THEN 0 ELSE IF in[1] < 128 THEN 1
    ELSE IF in[1] \in 129..130 /\ Len(in) >= in[1] - 127 THEN in[1] - 127 ELSE 0
BerLengthOf(in) == IF in[1] < 128 THEN in[1] ELSE OfBE(SubSeq(in, 2, in[1] - 127))
PerLengthThen(s, Then(_, _)) ==
    Read(s, 1, LAMBDA t, b :
        IF b[1] < 128 THEN Then(t, b[1])
        ELSE IF b[1] >= 192 THEN Failed(s)
        ELSE Read(t, 1, LAMBDA u, c : Then(u, (b[1] - 128) * 256 + c[1])))

VarThen(s, c, signed, Then(_, _)) ==
    Read(s, 1, LAMBDA t, b :
        LET sign == signed /\ (b[1] \div 2 ^ VarBits(c, TRUE)) % 2 = 1
            top == b[1] % 2 ^ VarBits(c, signed) IN
        Read(t, b[1] \div 2 ^ (8 - c), LAMBDA u, d : Then(u, (IF sign THEN -1 ELSE 1) * OfBE(<<top>> \o d))))

DecItem(it, s) ==
    CASE it.op = "num" -> Value(s, it.w, it.f, LAMBDA b : OfOrder(it.be, b))
      [] it.op = "int" -> Value(s, it.w, it.f, OfSigned)
      [] it.op = "val" ->
           Read(s, it.w, LAMBDA t, b : IF OfOrder(FALSE, b) \in it.ok THEN Set(t, it.f, OfOrder(FALSE, b)) ELSE Failed(s))
      [] it.op = "less" -> IF s.m[it.f] < s.m[it.g] THEN s ELSE Failed(s)
      [] it.op = "in" -> IF s.m[it.f] \in it.ok THEN s ELSE Failed(s)
      [] it.op = "lens" -> IF Len(s.m[it.f]) \in it.ok THEN s ELSE Failed(s)
      [] it.op = "unlike" ->
           IF \A i, k \in 1..Len(s.m[it.f]) : i /= k => s.m[it.f][i][it.g] /= s.m[it.f][k][it.g] THEN s ELSE Failed(s)
      [] it.op = "atmost" -> IF s.m[it.f] <= s.m[it.g] THEN s ELSE Failed(s)
      [] it.op = "alike" -> Note(s, it.g, s.n[it.f])
      [] it.op = "fits" -> IF Len(s.m[it.f]) <= s.m[it.g] THEN s ELSE Failed(s)
      [] it.op = "noted" -> Set(s, it.f, s.n[it.f])
      [] it.op = "padto" -> IF Len(s.in) /= it.n THEN Failed(s) ELSE Within(s, it.n, FALSE, it.body)
      [] it.op = "zeros" ->
           Read(s, it.w, LAMBDA t, b :
               IF OfOrder(FALSE, b) = (IF t.in = << >> THEN 0 ELSE it.adj + Len(t.in)) THEN Set(Past(t, Len(t.in)), it.f, Len(t.in)) ELSE Failed(s))
      [] it.op = "trail" ->
           Read(s, it.w, LAMBDA t, b :
               IF OfOrder(FALSE, b) \notin {Len(t.in), Len(t.in) - 4} THEN Failed(s)
               ELSE Within([t EXCEPT !.in = Take(t, OfOrder(FALSE, b))], OfOrder(FALSE, b), TRUE, it.body))
      [] it.op = "lit" -> Read(s, Len(it.bytes), LAMBDA t, b : IF b = it.bytes THEN t ELSE Failed(s))
      [] it.op = "pad" -> Read(s, it.n, LAMBDA t, b : t)
      [] it.op = "blob" -> Value(s, it.n, it.f, LAMBDA b : b)
      [] it.op = "mask" ->
           IF s.n[it.f] = MaskSize(it, s.m) THEN Value(s, s.n[it.f], it.f, LAMBDA b : b) ELSE Failed(s)
      [] it.op = "buffer" ->
           Read(s, 8, LAMBDA t, b : Note(t, it.f, [len |-> OfOrder(FALSE, SubSeq(b, 1, 2)), at |-> OfOrder(FALSE, SubSeq(b, 5, 8))]))
      [] it.op = "room" ->
           IF (it.f \in DOMAIN s.n => s.n[it.f] = 1) /\ payload_begin(s, it.fs) >= s.n["size"] - Len(s.in) + it.n THEN Dec(it.body, s) ELSE s
      [] it.op = "buffers" -> ReadBuffers(s, it)
      [] it.op = "until" -> ReadUntil(Set(s, it.f, << >>), it)
      [] it.op = "suborrest" -> IF s.n[it.name] \in {0, Len(s.in)} THEN Dec(it.body, s) ELSE Failed(s)
      [] it.op = "rest" -> IF Len(s.in) < it.least THEN Failed(s) ELSE Value(s, Len(s.in), it.f, LAMBDA b : b)
      [] it.op = "ahead" -> Read(s, it.w, LAMBDA t, b : Note(t, it.name, OfOrder(FALSE, b)))
      [] it.op = "sub" -> Within(s, s.n[it.name] - it.adj, TRUE, it.body)
      [] it.op = "rec" ->
           LET e == Dec(it.body, Fresh(s.in)) IN IF e.ok THEN Set([s EXCEPT !.in = e.in], it.f, e.m) ELSE Failed(s)
      [] it.op = "blockcount" -> Read(s, it.w, LAMBDA t, b : IF OfOrder(FALSE, b) > it.max THEN Failed(s) ELSE Note(t, "blocks", OfOrder(FALSE, b)))
      [] it.op = "slack" -> [s EXCEPT !.in = << >>]
      [] it.op = "frame" ->
           Read(s, it.w, LAMBDA t, b : Within(t, OfOrder(it.be, b) - it.adj, it.exact, it.body))
      [] it.op = "whole" ->
           Read(s, it.w, LAMBDA t, b :
               IF OfOrder(it.be, b) - it.adj /= Len(t.in) THEN Failed(s) ELSE Within(t, Len(t.in), TRUE, it.body))
      [] it.op = "count" ->
           Read(s, it.w, LAMBDA t, b : IF OfOrder(FALSE, b) > it.max THEN Failed(s) ELSE Note(t, it.f, OfOrder(FALSE, b)))
      [] it.op = "items" -> Elements(Set(s, it.f, << >>), it.f, it.body, s.n[it.f])
      [] it.op = "fill" ->
           LET t == Elements(Set(s, it.f, << >>), it.f, it.body, -1) IN
           IF t.ok /\ Len(t.m[it.f]) > it.max THEN Failed(s) ELSE t
      [] it.op = "blocks" -> ReadBlocks(s, it, IF "blocks" \in DOMAIN s.n THEN s.n["blocks"] ELSE -1)
      [] it.op = "opt" -> IF s.in = << >> THEN s ELSE Dec(it.body, s)
      [] it.op = "if" -> IF s.n[it.f] = 0 THEN s ELSE Dec(it.body, s)
      [] it.op = "unless" -> IF s.n[it.f] = 0 THEN Dec(it.body, s) ELSE s
      [] it.op = "tagged" -> IF Start(s.in, 1) = <<it.tag>> THEN Dec(it.body, s) ELSE s
      [] it.op = "case" -> IF s.m[it.f] \in it.ok THEN Dec(it.body, s) ELSE s
      [] it.op = "bits" ->
           Read(s, it.w, LAMBDA t, b : FoldLeft(LAMBDA u, p : ReadBits(u, p, OfOrder(it.be, b)), t, it.parts))
      [] it.op = "by" -> Dec(it.bodies[s.m.kind], s)
      [] it.op = "countrest" ->
           IF s.n[it.f] /= 0 THEN s ELSE Read(s, 1, LAMBDA t, b : Note(t, it.f, b[1]))
      [] it.op = "expect" -> IF s.n[it.name] \in it.ok THEN s ELSE Failed(s)
      [] it.op = "fast" ->
           Read(s, 1, LAMBDA t, b :
               IF b[1] < 128 THEN IF b[1] = Len(t.in) + 2 THEN Dec(it.body, t) ELSE Failed(s)
               ELSE Read(t, 1, LAMBDA u, c : IF (b[1] - 128) * 256 + c[1] = Len(u.in) + 3 THEN Dec(it.body, u) ELSE Failed(s)))
      [] it.op = "var" -> IF s.n[it.f] = 3 THEN Failed(s) ELSE Value(s, 2 ^ s.n[it.f], it.f, LAMBDA b : OfOrder(FALSE, b))
      [] it.op = "text16" -> Value(s, it.n, it.f, utf16le_to_utf8)
      [] it.op = "textz16" ->
           LET ends == EvenNul(s.in)
               end == CHOOSE i \in ends : \A j \in ends : i <= j IN
           IF ends = {} THEN Failed(s) ELSE IF 2 * (end - 1) > it.max THEN Failed(s) ELSE Value(s, 2 * end, it.f, utf16le_to_utf8)
      [] it.op = "utf16" -> Value(s, Len(s.in), it.f, utf16le_to_utf8)
      [] it.op = "text8" -> Value(s, it.n, it.f, UpToNul)
      [] it.op = "textz8" ->
           IF UpToNul(s.in) = s.in THEN Failed(s) ELSE Value(s, Len(UpToNul(s.in)) + 1, it.f, UpToNul)
      [] it.op = "tlv" ->
           LET rest == Past(s, Len(it.tag)).in IN
           IF Start(s.in, Len(it.tag)) /= it.tag \/ BerLengthSize(rest) = 0 THEN Failed(s)
           ELSE Within(Past(s, Len(it.tag) + BerLengthSize(rest)), BerLengthOf(rest), TRUE, it.body)
      [] it.op = "berint" -> IF s.in = << >> THEN Failed(s) ELSE Value(s, Len(s.in), it.f, OfBE)
      [] it.op = "bersigned" -> IF s.in = << >> THEN Failed(s) ELSE Value(s, Len(s.in), it.f, LAMBDA b : OfSigned(Reverse(b)))
      [] it.op = "oid" -> IF check_oid(s.in) THEN Value(s, Len(s.in), it.f, LAMBDA b : b) ELSE Failed(s)
      [] it.op = "berbool" -> Value(s, 1, it.f, LAMBDA b : IF b = <<0>> THEN 0 ELSE 1)
      [] it.op = "perint" ->
           PerLengthThen(s, LAMBDA t, len : IF len \in {1, 2, 4} THEN Value(t, len, it.f, OfBE) ELSE Failed(s))
      [] it.op = "per16" ->
           Read(s, 2, LAMBDA t, b : IF OfBE(b) > 65535 - it.min THEN Failed(s) ELSE Set(t, it.f, OfBE(b) + it.min))
      [] it.op = "per" ->
           PerLengthThen(s, LAMBDA t, len : IF it.loose THEN Dec(it.body, t) ELSE Within(t, len, TRUE, it.body))
      [] it.op = "cookie" -> ReadCookie(s, it.prefix)
      [] it.op = "varint" -> VarThen(s, it.c, it.signed, LAMBDA t, v : Set(t, it.f, v))
      [] it.op = "varcount" -> VarThen(s, 1, FALSE, LAMBDA t, v : IF v > it.max THEN Failed(s) ELSE Note(t, it.f, v))
      [] it.op = "varbits" ->
           VarThen(s, 1, FALSE, LAMBDA t, v : IF v > it.all THEN Failed(s) ELSE FoldLeft(LAMBDA u, p : ReadBits(u, p, v), t, it.parts))
RECURSIVE DecRange(_, _, _, _)
DecRange(lay, i, j, s) ==
    IF ~s.ok \/ i > j THEN s ELSE IF i = j THEN DecItem(lay[i], s)
    ELSE DecRange(lay, (i + j) \div 2 + 1, j, DecRange(lay, i, (i + j) \div 2, s))
RECURSIVE DecFrom(_, _, _)
\* From item i up to the next place to stop, and beyond if octets are left.
DecFrom(lay, i, s) ==
    LET stops == {k \in i..Len(lay) : lay[k].op = "stop"} IN
    IF stops = {} THEN DecRange(lay, i, Len(lay), s)
    ELSE LET k == CHOOSE k \in stops : \A j \in stops : k <= j
             t == DecRange(lay, i, k - 1, s) IN
         IF ~t.ok \/ t.in = << >> THEN t ELSE DecFrom(lay, k + 1, t)
Dec(lay, s) == DecFrom(lay, 1, s)

\* A reader run over a whole message: read, and nothing left over.
Decode(lay, bytes) == LET s == Dec(lay, Fresh(bytes)) IN
    IF s.ok /\ s.in = << >> THEN [ok |-> TRUE, m |-> s.m] ELSE [ok |-> FALSE, m |-> << >>]

------------------------------------------------------------------------------
(* Sample messages of a writer's layout: variant v fills the fields with   *)
(* small numbers, with numbers that use every octet, or with negative ones *)
(* where the field has a sign; the optional parts are all there, all but   *)
(* the last ones, or missing.                                              *)

Number(w, v, j) ==
    CASE v = 1 -> j + 1
      [] v = 2 -> IF w = 1 THEN 128 + j ELSE IF w = 2 THEN 256 * (j + 1) + j ELSE 16777216 * (j + 1) + 256 + j
      [] OTHER -> IF w = 1 THEN j ELSE IF w = 2 THEN 32768 + j ELSE 65536 * (j + 1) + j
\* Lengths on both sides of the one-octet lengths of BER and PER.
Lengths == <<3, 130, 0>>
Fillings(n, v) == [i \in 1..n |-> (37 * i + v) % 256]
Texts == << <<65, 66, 67>>, <<90, 128512, 233>>, << >> >>
Oids == << <<43, 6, 1, 5, 5, 2>>, <<42, 134, 72, 134, 247, 18, 1, 2, 2>>, <<43, 6, 1, 4, 1, 130, 55, 2, 2, 10>> >>
Letters == << <<97, 98>>, <<99>>, <<100, 101, 102>> >>

RECURSIVE Gen(_, _, _)
\* One element of a list: its place picks its kind, and is no field of it.
Element(body, v, i) == LET m == Gen(body, v, "nth" :> i) IN [f \in DOMAIN m \ {"nth"} |-> m[f]]
RECURSIVE GenPart(_, _, _)
GenPart(p, v, m) ==
    CASE p.src = "field" -> (p.f :> (Number(1, v, Cardinality(DOMAIN m)) % p.mod)) @@ m
      [] p.src = "kind" /\ "kind" \notin DOMAIN m ->
           ("kind" :> SetToSeq(DOMAIN p.codes)[1 + ((m.nth + v) % Cardinality(DOMAIN p.codes))]) @@ m
      [] p.src = "by" -> FoldLeft(LAMBDA x, q : GenPart(q, v, x), m, p.codes[m.kind])
      [] OTHER -> m
GenItem(it, v, m) ==
    LET j == Cardinality(DOMAIN m)
        With(f, x) == (f :> x) @@ m IN
    CASE it.op = "num" -> With(it.f, Number(it.w, v, j))
      [] it.op = "int" -> With(it.f, IF v = 3 THEN j - 40 ELSE Number(it.w - 1, v, j))
      [] it.op = "val" -> With(it.f, it.vals[1 + ((v - 1) % Len(it.vals))])
      [] it.op = "blob" -> With(it.f, Fillings(it.n, v))
      [] it.op = "rest" -> With(it.f, Fillings(it.least + Lengths[v], v))
      [] it.op = "mask" -> With(it.f, Fillings(MaskSize(it, m), v))
      [] it.op = "oid" -> With(it.f, Oids[v])
      [] it.op = "bersigned" -> With(it.f, <<j, -1073741715 + j, -129>>[v])
      [] it.op = "buffers" -> FoldLeft(LAMBDA x, f : Gen(it.bodies[f], v, x), Gen(it.head, v, m), it.fs)
      [] it.op \in {"frame", "whole", "trail", "padto", "sub", "suborrest", "tlv", "per", "fast"} -> Gen(it.body, v, m)
      [] it.op \in {"items", "fill", "until"} -> With(it.f, [i \in 1..((v % 3) + 1) |-> Element(it.body, 1 + ((v + i) % 3), i)])
      [] it.op = "block" -> IF v = 3 /\ j % 2 = 1 /\ ~it.must THEN m ELSE With(it.f, Gen(it.body, v, << >>))
      [] it.op = "rec" -> With(it.f, Gen(it.body, v, << >>))
      [] it.op = "cookie" -> IF v = 3 THEN m ELSE With(IF v = 1 THEN "cookie" ELSE "routing_token", Letters[v])
      [] it.op \in {"opt", "if", "tagged", "room"} ->
           IF it.f = "kind" THEN IF "kind" \in DOMAIN m THEN Gen(it.body, v, m) ELSE m
           ELSE IF v = 3 \/ (v = 2 /\ j % 3 = 2) THEN m ELSE Gen(it.body, v, m)
      [] it.op = "case" -> IF m[it.f] \in it.ok THEN Gen(it.body, v, m) ELSE m
      [] it.op = "bits" ->
           FoldLeft(LAMBDA x, p : GenPart(p, v, x), m, it.parts)
      [] it.op = "by" -> Gen(it.bodies[m.kind], v, m)
      [] it.op \in {"var", "perint", "berint"} -> With(it.f, <<j + 5, 65536 + j, 300>>[v])
      [] it.op = "zeros" -> With(it.f, Lengths[v])
      [] it.op = "stop" -> IF v = 3 \/ (v = 2 /\ j > 14) THEN With("", 0) ELSE m
      [] it.op = "berbool" -> With(it.f, v % 2)
      [] it.op = "per16" -> With(it.f, it.min + Number(2, v, j))
      [] it.op \in {"text16", "textz16", "utf16"} -> With(it.f, Texts[v])
      [] it.op \in {"text8", "textz8"} -> With(it.f, Letters[v])
      [] it.op = "varint" -> With(it.f, IF it.signed /\ v = 3 THEN -(300 + j) ELSE <<j, 2 ^ (VarBits(it.c, it.signed) + 6) + j, 200 + j>>[v])
      [] OTHER -> m
RECURSIVE GenRange(_, _, _, _, _)
\* The field "" marks a message that has ended at a Stop.
GenRange(lay, i, j, v, m) ==
    IF "" \in DOMAIN m \/ i > j THEN m ELSE IF i = j THEN GenItem(lay[i], v, m)
    ELSE GenRange(lay, (i + j) \div 2 + 1, j, v, GenRange(lay, i, (i + j) \div 2, v, m))
Gen(lay, v, m) == LET all == GenRange(lay, 1, Len(lay), v, m) IN [f \in DOMAIN all \ {""} |-> all[f]]

------------------------------------------------------------------------------
(* X.224 inside TPKT.                                                      *)

OnTpkt(body) == <<Lit(<<3, 0>>), Frame(2, TRUE, 4, body)>>
FromTpkt(body) == <<Lit(<<3>>), Pad(1), Frame(2, TRUE, 4, body)>>
\* Length indicator, code, DST-REF, SRC-REF, class 0.
WriteCrCc(code, src, body) == OnTpkt(<<Frame(1, FALSE, 0, <<Lit(<<code, 0, 0>> \o src \o <<0>>)>> \o body)>>)
ReadCrCc(code, body) == FromTpkt(<<Whole(1, FALSE, 0, <<Lit(<<code>>), Pad(4), Lit(<<0>>)>> \o body)>>)

CookiePrefix == <<67, 111, 111, 107, 105, 101, 58, 32, 109, 115, 116, 115, 104, 97, 115, 104, 61>>
NegFlags == Bits(1, FALSE, <<Field(1, 8, "flags"), Present(8, "correlation_id")>>)
WConnectionRequest == WriteCrCc(224, <<0, 0>>, <<
    Cookie(CookiePrefix),
    Opt("requested_protocols", <<Lit(<<1>>), NegFlags, Lit(<<8, 0>>), Num(4, "requested_protocols"),
        If("correlation_id", <<Lit(<<6, 0, 36, 0>>), Blob(16, "correlation_id"), Pad(16)>>)>>)>>)
RConnectionRequest == ReadCrCc(224, <<
    Cookie(CookiePrefix),
    Opt("requested_protocols", <<Lit(<<1>>), NegFlags, Lit(<<8, 0>>), Num(4, "requested_protocols"),
        If("correlation_id", <<Lit(<<6>>), Pad(1), Lit(<<36, 0>>), Blob(16, "correlation_id"), Pad(16)>>)>>)>>)

Negotiated == [response |-> 2, failure |-> 3]
WConnectionConfirm == WriteCrCc(208, <<18, 52>>, <<Opt("kind", <<Kind(1, Negotiated),
    By([response |-> <<Num(1, "flags"), Lit(<<8, 0>>), Num(4, "selected_protocol")>>,
        failure |-> <<Lit(<<0, 8, 0>>), Num(4, "failure")>>])>>)>>)
RConnectionConfirm == ReadCrCc(208, <<Opt("kind", <<Kind(1, Negotiated),
    By([response |-> <<Num(1, "flags"), Lit(<<8, 0>>), Num(4, "selected_protocol")>>,
        failure |-> <<Pad(1), Lit(<<8, 0>>), Num(4, "failure")>>])>>)>>)

WDataTpdu == OnTpkt(<<Lit(<<2, 240, 128>>), Rest("data")>>)
RDataTpdu == FromTpkt(<<Lit(<<2, 240, 128>>), Rest("data")>>)

------------------------------------------------------------------------------
(* MCS.  decode_raw_unsigned and write_unsigned are BerInt.                *)

ParameterNames == <<"max_channel_ids", "max_user_ids", "max_token_ids", "num_priorities",
                    "min_throughput", "max_height", "max_mcs_pdu_size", "protocol_version">>
WriteParameters(f) == Rec(f, <<Tlv(<<48>>, [i \in 1..8 |-> Ber(2, ParameterNames[i])])>>)
ReadParameters(f) == Rec(f, <<Tlv(<<48>>, <<
    Ber(2, "max_channel_ids"), Ber(2, "max_user_ids"), Ber(2, "max_token_ids"), Ber(2, "num_priorities"),
    Ber(2, "min_throughput"), Ber(2, "max_height"), Ber(2, "max_mcs_pdu_size"), Ber(2, "protocol_version")>>)>>)

WConnectInitial == <<Tlv(<<127, 101>>, <<
    Octets("calling_domain_selector"), Octets("called_domain_selector"), Tlv(<<1>>, <<BerBool("upward_flag")>>),
    WriteParameters("target"), WriteParameters("minimum"), WriteParameters("maximum"), Octets("user_data")>>)>>
RConnectInitial == <<Tlv(<<127, 101>>, <<
    Octets("calling_domain_selector"), Octets("called_domain_selector"), Tlv(<<1>>, <<BerBool("upward_flag")>>),
    ReadParameters("target"), ReadParameters("minimum"), ReadParameters("maximum"), Octets("user_data")>>)>>
WConnectResponse == <<Tlv(<<127, 102>>, <<
    Tlv(<<10>>, <<OneOf(1, "result", <<0, 15>>)>>), Ber(2, "called_connect_id"), WriteParameters("parameters"), Octets("user_data")>>)>>
RConnectResponse == <<Tlv(<<127, 102>>, <<
    Tlv(<<10>>, <<Among(1, "result", 0, 15)>>), Ber(2, "called_connect_id"), ReadParameters("parameters"), Octets("user_data")>>)>>

UserIdBase == 1001
DomainChoices == [erect_domain_request |-> 1, attach_user_request |-> 10, attach_user_confirm |-> 11, channel_join_request |-> 14,
            channel_join_confirm |-> 15, send_data_request |-> 25, send_data_indication |-> 26]
\* The octet in front: the choice above two bits, the higher of which says an
\* optional field is there.
McsHeader(opt) == Bits(1, FALSE, <<OfKind(4, 64, DomainChoices), Present(2, opt)>>)
\* The disconnect reason straddles two octets, and has a header of its own.
DisconnectHeader == Bits(2, TRUE, <<OfKind(1024, 64, [disconnect_provider_ultimatum |-> 8]), Field(128, 8, "reason")>>)
WDisconnect == <<DisconnectHeader>>
RDisconnect == <<DisconnectHeader>>
SendData == <<Per16(UserIdBase, "initiator"), Per16(0, "channel_id"), Lit(<<112>>), PerSized("data")>>
WDomainPdu == <<McsHeader("granted"), By([
    erect_domain_request |-> <<PerInt("sub_height"), PerInt("sub_interval")>>,
    attach_user_request |-> << >>,
    attach_user_confirm |-> <<OneOf(1, "result", <<0, 15>>), If("granted", <<Per16(UserIdBase, "granted")>>)>>,
    channel_join_request |-> <<Per16(UserIdBase, "initiator"), Per16(0, "channel_id")>>,
    channel_join_confirm |-> <<OneOf(1, "result", <<0, 15>>), Per16(UserIdBase, "initiator"), Per16(0, "requested"),
                               If("granted", <<Per16(0, "granted")>>)>>,
    send_data_request |-> SendData, send_data_indication |-> SendData])>>
ReceivedData == <<Per16(UserIdBase, "initiator"), Per16(0, "channel_id"), Pad(1), PerSized("data")>>
RDomainPdu == <<McsHeader("granted"), By([
    erect_domain_request |-> <<PerInt("sub_height"), PerInt("sub_interval")>>,
    attach_user_request |-> << >>,
    attach_user_confirm |-> <<Among(1, "result", 0, 15), If("granted", <<Per16(UserIdBase, "granted")>>)>>,
    channel_join_request |-> <<Per16(UserIdBase, "initiator"), Per16(0, "channel_id")>>,
    channel_join_confirm |-> <<Among(1, "result", 0, 15), Per16(UserIdBase, "initiator"), Per16(0, "requested"),
                               If("granted", <<Per16(0, "granted")>>)>>,
    send_data_request |-> ReceivedData, send_data_indication |-> ReceivedData])>>

------------------------------------------------------------------------------
(* GCC: the conference messages and the data blocks they carry.            *)

OidT124 == <<5, 0, 20, 124, 0, 1>>
H221Key(key) == <<0>> \o key
WConferenceRequest == <<Lit(<<0>> \o OidT124), PerLoose(<<
    Lit(<<0, 8>>), Lit(<<0, 16>>), Pad(1), Lit(<<1, 192>> \o H221Key(<<68, 117, 99, 97>>)), PerSized("client_data")>>)>>
RConferenceRequest == <<Lit(<<0>> \o OidT124), PerLoose(<<
    Lit(<<0, 8>>), PerFrame(<< >>), Pad(1), Pad(1), Lit(<<1, 192>> \o H221Key(<<68, 117, 99, 97>>)), PerSized("client_data"), Slack>>)>>
WConferenceResponse == <<Lit(<<0>> \o OidT124), PerLoose(<<
    Lit(<<20>>), Lit(<<118, 10>>), Lit(<<1, 1, 0>>), Lit(<<1, 192>> \o H221Key(<<77, 99, 68, 110>>)), PerSized("server_data")>>)>>
RConferenceResponse == <<Lit(<<0>> \o OidT124), PerLoose(<<
    Lit(<<20>>), Pad(2), PerFrame(<<Pad(1)>>), Lit(<<0>>), Lit(<<1, 192>> \o H221Key(<<77, 99, 68, 110>>)), PerSized("server_data"), Slack>>)>>

WCore == <<Num(4, "version"), Num(2, "desktop_width"), Num(2, "desktop_height"), Num(2, "color_depth"), Num(2, "sas_sequence"),
    Num(4, "keyboard_layout"), Num(4, "client_build"), Text16(32, "client_name"),
    Num(4, "keyboard_type"), Num(4, "keyboard_subtype"), Num(4, "keyboard_function_keys"), Text16(64, "ime_file_name"),
    Stop("post_beta2_color_depth"), Num(2, "post_beta2_color_depth"), Stop("client_product_id"), Num(2, "client_product_id"),
    Stop("serial_number"), Num(4, "serial_number"), Stop("high_color_depth"), Num(2, "high_color_depth"),
    Stop("supported_color_depths"), Num(2, "supported_color_depths"), Stop("early_capability_flags"), Num(2, "early_capability_flags"),
    Stop("client_dig_product_id"), Text16(64, "client_dig_product_id"), Stop("connection_type"), Num(1, "connection_type"), Pad(1),
    Stop("server_selected_protocol"), Num(4, "server_selected_protocol"),
    Stop("desktop_physical_width"), Num(4, "desktop_physical_width"), Stop("desktop_physical_height"), Num(4, "desktop_physical_height"),
    Stop("desktop_orientation"), Num(2, "desktop_orientation"), Stop("desktop_scale_factor"), Num(4, "desktop_scale_factor"),
    Stop("device_scale_factor"), Num(4, "device_scale_factor")>>
RCore == <<Num(4, "version")>> \o Nums(2, <<"desktop_width", "desktop_height", "color_depth", "sas_sequence">>) \o
    Nums(4, <<"keyboard_layout", "client_build">>) \o <<Text16(32, "client_name")>> \o
    Nums(4, <<"keyboard_type", "keyboard_subtype", "keyboard_function_keys">>) \o <<Text16(64, "ime_file_name"),
    Stop(""), Num(2, "post_beta2_color_depth"), Stop(""), Num(2, "client_product_id"), Stop(""), Num(4, "serial_number"),
    Stop(""), Num(2, "high_color_depth"), Stop(""), Num(2, "supported_color_depths"), Stop(""), Num(2, "early_capability_flags"),
    Stop(""), Text16(64, "client_dig_product_id"), Stop(""), Num(1, "connection_type"), Stop(""), Pad(1),
    Stop(""), Num(4, "server_selected_protocol"), Stop(""), Num(4, "desktop_physical_width"), Stop(""), Num(4, "desktop_physical_height"),
    Stop(""), Num(2, "desktop_orientation"), Stop(""), Num(4, "desktop_scale_factor"), Stop(""), Num(4, "device_scale_factor"), Slack>>

WMonitor == <<Signed(4, "left"), Signed(4, "top"), Signed(4, "right"), Signed(4, "bottom"), Num(4, "flags")>>
RMonitor == <<Signed(4, "left"), Signed(4, "top"), Signed(4, "right"), Signed(4, "bottom"), Num(4, "flags")>>
WMonitorAttributes == Nums(4, <<"physical_width", "physical_height", "orientation", "desktop_scale_factor", "device_scale_factor">>)
RMonitorAttributes == <<Num(4, "physical_width"), Num(4, "physical_height"), Num(4, "orientation"),
    Num(4, "desktop_scale_factor"), Num(4, "device_scale_factor")>>
WChannelDef == <<Text8(8, "name"), Num(4, "options")>>
WClientData == <<
    Always(49153, "core", WCore),
    Block(49156, "cluster", Nums(4, <<"flags", "redirected_session_id">>)),
    Block(49154, "security", Nums(4, <<"encryption_methods", "ext_encryption_methods">>)),
    Block(49155, "network", <<Count(4, "channels", 31), Items("channels", WChannelDef)>>),
    Block(49157, "monitor", <<Num(4, "flags"), Count(4, "monitors", 16), Items("monitors", WMonitor)>>),
    Block(49158, "message_channel", <<Num(4, "flags")>>),
    Block(49160, "monitor_ex", <<Num(4, "flags"), Lit(<<20, 0, 0, 0>>), Count(4, "monitors", 16), Items("monitors", WMonitorAttributes)>>),
    Block(49162, "multitransport", <<Num(4, "flags")>>)>>
RNetwork == <<Count(4, "channels", 31), Items("channels", <<Text8(8, "name"), Num(4, "options")>>), Slack>>
RMonitors == <<Num(4, "flags"), Count(4, "monitors", 16), Items("monitors", RMonitor), Slack>>
RMonitorsEx == <<Num(4, "flags"), Lit(<<20, 0, 0, 0>>), Count(4, "monitors", 16), Items("monitors", RMonitorAttributes), Slack>>
RClientData == <<Blocks(<<
    Block(49153, "core", RCore),
    Block(49154, "security", <<Num(4, "encryption_methods"), Num(4, "ext_encryption_methods"), Slack>>),
    Block(49155, "network", RNetwork),
    Block(49156, "cluster", <<Num(4, "flags"), Num(4, "redirected_session_id"), Slack>>),
    Block(49157, "monitor", RMonitors),
    Block(49158, "message_channel", <<Num(4, "flags"), Slack>>),
    Block(49160, "monitor_ex", RMonitorsEx),
    Block(49162, "multitransport", <<Num(4, "flags"), Slack>>)>>, {"core"}, "refuse")>>

WServerData == <<
    Always(3073, "core", <<Num(4, "version"), Opt("client_requested_protocols", <<Num(4, "client_requested_protocols"),
        Opt("early_capability_flags", <<Num(4, "early_capability_flags")>>)>>)>>),
    Always(3074, "security", Nums(4, <<"encryption_method", "encryption_level">>)),
    Always(3075, "network", <<Num(2, "io_channel_id"), Count(2, "channel_ids", 31), Items("channel_ids", <<Num(2, "id")>>), PadOdd(2, "channel_ids")>>),
    Block(3076, "message_channel", <<Num(2, "id")>>),
    Block(3080, "multitransport", <<Num(4, "flags")>>)>>
RServerData == <<Blocks(<<
    Block(3073, "core", <<Num(4, "version"), Stop(""), Num(4, "client_requested_protocols"), Stop(""), Num(4, "early_capability_flags"), Slack>>),
    Block(3074, "security", <<Num(4, "encryption_method"), Num(4, "encryption_level"), Slack>>),
    Block(3075, "network", <<Num(2, "io_channel_id"), Count(2, "channel_ids", 31), Items("channel_ids", <<Num(2, "id")>>), Slack>>),
    Block(3076, "message_channel", <<Num(2, "id"), Slack>>),
    Block(3080, "multitransport", <<Num(4, "flags"), Slack>>)>>, {"core", "security", "network"}, "last")>>

------------------------------------------------------------------------------
(* Security header, licensing.                                             *)

\* SEC_LICENSE_PKT, then the preamble and STATUS_VALID_CLIENT.
WSecurityHeader(flags) == <<Lit(<<flags, 0>>), Pad(2)>>
RSecurityHeader(flags) == <<Lit(<<flags, 0>>), Pad(2)>>
WLicense == WSecurityHeader(128) \o <<Lit(<<255, 3, 16, 0, 7, 0, 0, 0, 2, 0, 0, 0, 4, 0, 0, 0>>)>>
RLicense == RSecurityHeader(128) \o <<Lit(<<255, 3>>), Ahead(2, "size", << >>), Expect("size", 16..65535), Lit(<<7, 0, 0, 0, 2, 0, 0, 0>>), Slack>>

------------------------------------------------------------------------------
(* Client Info: five lengths, five strings with a terminator the lengths   *)
(* leave out, then an optional tail that may end after any of its parts.   *)

InfoStrings == <<"domain", "user_name", "password", "alternate_shell", "working_dir">>
WInfoStrings == [i \in 1..5 |-> Ahead(2, InfoStrings[i], <<Utf16(InfoStrings[i])>>)] \o
    FlattenSeq([i \in 1..5 |-> <<Sub(InfoStrings[i], <<Utf16(InfoStrings[i])>>), Pad(2)>>])
RInfoString(f) == <<Sub(f, <<Utf16(f)>>), Pad(2)>>
RInfoStrings == <<Ahead(2, "domain", << >>), Ahead(2, "user_name", << >>), Ahead(2, "password", << >>),
    Ahead(2, "alternate_shell", << >>), Ahead(2, "working_dir", << >>)>> \o
    RInfoString("domain") \o RInfoString("user_name") \o RInfoString("password") \o
    RInfoString("alternate_shell") \o RInfoString("working_dir")
WTimeZone == <<Signed(4, "bias"), Text16(64, "standard_name"), Blob(16, "standard_date"), Signed(4, "standard_bias"),
    Text16(64, "daylight_name"), Blob(16, "daylight_date"), Signed(4, "daylight_bias")>>
RTimeZone == <<Signed(4, "bias"), Text16(64, "standard_name"), Blob(16, "standard_date"), Signed(4, "standard_bias"),
    Text16(64, "daylight_name"), Blob(16, "daylight_date"), Signed(4, "daylight_bias")>>
WArc == <<Lit(<<28, 0, 0, 0>>), Num(4, "version"), Num(4, "logon_id"), Blob(16, "security_verifier")>>
RArc == <<Lit(<<28, 0, 0, 0>>), Num(4, "version"), Num(4, "logon_id"), Blob(16, "security_verifier")>>
WExtended == <<Num(2, "client_address_family"), Frame(2, FALSE, 0, <<Utf16Z("client_address")>>), Frame(2, FALSE, 0, <<Utf16Z("client_dir")>>),
    Stop("time_zone"), Rec("time_zone", WTimeZone), Stop("session_id"), Num(4, "session_id"),
    Stop("performance_flags"), Num(4, "performance_flags"), Frame(2, FALSE, 0, <<Opt("auto_reconnect_cookie", <<Rec("auto_reconnect_cookie", WArc)>>)>>),
    Stop("dst_key_name"), Pad(4), Frame(2, FALSE, 0, <<Utf16("dst_key_name")>>),
    Stop("dst_disabled"), OneOf(2, "dst_disabled", <<1, 0>>)>>
RExtended == <<Num(2, "client_address_family"), Frame(2, FALSE, 0, <<Utf16("client_address")>>), Frame(2, FALSE, 0, <<Utf16("client_dir")>>),
    Stop(""), Rec("time_zone", RTimeZone), Stop(""), Num(4, "session_id"),
    Stop(""), Num(4, "performance_flags"), Stop(""), Frame(2, FALSE, 0, <<Opt("auto_reconnect_cookie", <<Rec("auto_reconnect_cookie", RArc)>>)>>),
    Stop(""), Pad(4), Stop(""), Frame(2, FALSE, 0, <<Utf16("dst_key_name")>>),
    Stop(""), OneOf(2, "dst_disabled", <<0, 1>>), Slack>>
\* The writer sets INFO_UNICODE whatever the flags say.
WClientInfo == <<Num(4, "code_page"), OneOf(4, "flags", <<16, 19, 1048592>>)>> \o WInfoStrings \o <<Opt("extended", <<Rec("extended", WExtended)>>)>>
RClientInfo == <<Num(4, "code_page"), Num(4, "flags")>> \o RInfoStrings \o <<Opt("extended", <<Rec("extended", RExtended)>>)>>

------------------------------------------------------------------------------
(* Capability sets.                                                        *)

WGeneral == Nums(2, <<"os_major_type", "os_minor_type", "protocol_version">>) \o <<Pad(2)>> \o
    Nums(2, <<"general_compression_types", "extra_flags", "update_capability_flag", "remote_unshare_flag", "general_compression_level">>) \o
    Nums(1, <<"refresh_rect_support", "suppress_output_support">>)
RGeneral == <<Num(2, "os_major_type"), Num(2, "os_minor_type"), Num(2, "protocol_version"), Pad(2), Num(2, "general_compression_types"),
    Num(2, "extra_flags"), Num(2, "update_capability_flag"), Num(2, "remote_unshare_flag"), Num(2, "general_compression_level"),
    Stop(""), Num(1, "refresh_rect_support"), Stop(""), Num(1, "suppress_output_support"), Slack>>
WBitmap == Nums(2, <<"preferred_bits_per_pixel", "receive_1_bit_per_pixel", "receive_4_bits_per_pixel", "receive_8_bits_per_pixel",
    "desktop_width", "desktop_height">>) \o <<Pad(2), Num(2, "desktop_resize_flag"), Num(2, "bitmap_compression_flag"),
    Num(1, "high_color_flags"), Num(1, "drawing_flags"), Num(2, "multiple_rectangle_support"), Pad(2)>>
RBitmap == <<Num(2, "preferred_bits_per_pixel"), Num(2, "receive_1_bit_per_pixel"), Num(2, "receive_4_bits_per_pixel"),
    Num(2, "receive_8_bits_per_pixel"), Num(2, "desktop_width"), Num(2, "desktop_height"), Pad(2), Num(2, "desktop_resize_flag"),
    Num(2, "bitmap_compression_flag"), Num(1, "high_color_flags"), Num(1, "drawing_flags"), Num(2, "multiple_rectangle_support"), Slack>>
WOrder == <<Blob(16, "terminal_descriptor"), Pad(4), Num(2, "desktop_save_x_granularity"), Num(2, "desktop_save_y_granularity"), Pad(2),
    Num(2, "maximum_order_level"), Num(2, "number_fonts"), Num(2, "order_flags"), Blob(32, "order_support"), Num(2, "text_flags"),
    Num(2, "order_support_ex_flags"), Pad(4), Num(4, "desktop_save_size"), Pad(4), Num(2, "text_ansi_code_page"), Pad(2)>>
ROrder == <<Blob(16, "terminal_descriptor"), Pad(4), Num(2, "desktop_save_x_granularity"), Num(2, "desktop_save_y_granularity"), Pad(2),
    Num(2, "maximum_order_level"), Num(2, "number_fonts"), Num(2, "order_flags"), Blob(32, "order_support"), Num(2, "text_flags"),
    Num(2, "order_support_ex_flags"), Pad(4), Num(4, "desktop_save_size"), Pad(4), Num(2, "text_ansi_code_page"), Slack>>
WInputSet == <<Num(2, "input_flags"), Pad(2)>> \o Nums(4, <<"keyboard_layout", "keyboard_type", "keyboard_subtype", "keyboard_function_keys">>) \o
    <<Text16(64, "ime_file_name")>>
RInputSet == <<Num(2, "input_flags"), Pad(2), Num(4, "keyboard_layout"), Num(4, "keyboard_type"), Num(4, "keyboard_subtype"),
    Num(4, "keyboard_function_keys"), Text16(64, "ime_file_name"), Slack>>
WPointerSet == <<Num(2, "color_pointer_flag"), Num(2, "color_pointer_cache_size"), Opt("pointer_cache_size", <<Num(2, "pointer_cache_size")>>)>>
RPointerSet == <<Num(2, "color_pointer_flag"), Num(2, "color_pointer_cache_size"), Stop(""), Num(2, "pointer_cache_size"), Slack>>
SetNames == {"general", "bitmap", "order", "pointer", "input", "virtual_channel", "share", "font", "color_cache",
             "multifragment_update", "large_pointer", "surface_commands", "frame_acknowledge"}
WCapabilitySets == <<
    Block(1, "general", WGeneral), Block(2, "bitmap", WBitmap), Block(3, "order", WOrder), Block(8, "pointer", WPointerSet),
    Block(13, "input", WInputSet),
    Block(20, "virtual_channel", <<Num(4, "flags"), Opt("chunk_size", <<Num(4, "chunk_size")>>)>>),
    Block(9, "share", <<Num(2, "node_id"), Pad(2)>>), Block(14, "font", <<Num(2, "support_flags"), Pad(2)>>),
    Block(10, "color_cache", <<Num(2, "cache_size"), Pad(2)>>), Block(26, "multifragment_update", <<Num(4, "max_request_size")>>),
    Block(27, "large_pointer", <<Num(2, "support_flags")>>), Block(28, "surface_commands", <<Num(4, "cmd_flags"), Pad(4)>>),
    Block(30, "frame_acknowledge", <<Num(4, "max_unacknowledged_frame_count")>>)>>
RCapabilitySets == <<Blocks(<<
    Block(1, "general", RGeneral), Block(2, "bitmap", RBitmap), Block(3, "order", ROrder), Block(8, "pointer", RPointerSet),
    Block(13, "input", RInputSet), Block(20, "virtual_channel", <<Num(4, "flags"), Stop(""), Num(4, "chunk_size"), Slack>>),
    Block(9, "share", <<Num(2, "node_id"), Slack>>), Block(14, "font", <<Stop(""), Num(2, "support_flags"), Slack>>),
    Block(10, "color_cache", <<Num(2, "cache_size"), Slack>>), Block(26, "multifragment_update", <<Num(4, "max_request_size"), Slack>>),
    Block(27, "large_pointer", <<Num(2, "support_flags"), Slack>>), Block(28, "surface_commands", <<Num(4, "cmd_flags"), Slack>>),
    Block(30, "frame_acknowledge", <<Num(4, "max_unacknowledged_frame_count"), Slack>>)>>, {}, "first")>>
\* Descriptor length, combined length, descriptor, then the counted sets.
WCombined == <<BlockCount(2, SetNames, 65535), Pad(2)>> \o WCapabilitySets
WCapabilities == <<Ahead(2, "descriptor", <<TextZ8("source_descriptor")>>), Ahead(2, "combined", WCombined),
    Sub("descriptor", <<TextZ8("source_descriptor")>>), Sub("combined", WCombined)>>
RCapabilities == <<Ahead(2, "descriptor", << >>), Ahead(2, "combined", << >>), Sub("descriptor", <<TextZ8("source_descriptor")>>),
    Sub("combined", <<BlockCount(2, {}, 65535), Pad(2)>> \o RCapabilitySets)>>

------------------------------------------------------------------------------
(* Input, in the slow and the fast path.                                   *)

\* KBD_FLAGS in a slow-path event; three of them in a fast-path header.
SlowKeyFlags == Bits(2, FALSE, <<Field(256, 2, "extended"), Field(512, 2, "extended1"), Field(16384, 2, "down"), Field(32768, 2, "release")>>)
FastKeyFlags == <<Field(1, 2, "release"), Field(2, 2, "extended"), Field(4, 2, "extended1")>>
SlowEvents == [sync |-> 0, scancode |-> 4, unicode |-> 5, mouse |-> 32769, mousex |-> 32770, mouserel |-> 32772]
WMouse == <<Num(2, "flags"), Num(2, "x"), Num(2, "y")>>
RMouse == <<Num(2, "flags"), Num(2, "x"), Num(2, "y")>>
WRelative == <<Num(2, "flags"), Signed(2, "dx"), Signed(2, "dy")>>
RRelative == <<Num(2, "flags"), Signed(2, "dx"), Signed(2, "dy")>>
WSlowInput == <<Count(2, "events", 512), Pad(2), Items("events", <<Pad(4), Kind(2, SlowEvents), By([
    sync |-> <<Pad(2), Num(4, "toggle_flags")>>,
    scancode |-> <<SlowKeyFlags, Num(2, "code"), Pad(2)>>, unicode |-> <<SlowKeyFlags, Num(2, "code"), Pad(2)>>,
    mouse |-> WMouse, mousex |-> WMouse, mouserel |-> WRelative])>>)>>
RSlowInput == <<Count(2, "events", 512), Pad(2), Items("events", <<Pad(4), Kind(2, SlowEvents), By([
    sync |-> <<Pad(2), Num(4, "toggle_flags")>>,
    scancode |-> <<SlowKeyFlags, Num(2, "code"), Pad(2)>>, unicode |-> <<SlowKeyFlags, Num(2, "code"), Pad(2)>>,
    mouse |-> RMouse, mousex |-> RMouse, mouserel |-> RRelative])>>)>>
FastEvents == [scancode |-> 0, mouse |-> 1, mousex |-> 2, sync |-> 3, unicode |-> 4, relmouse |-> 5, qoe_timestamp |-> 6]
FastHeader == Bits(1, FALSE, <<OfKind(32, 8, FastEvents), PartsBy(32, [scancode |-> FastKeyFlags, mouse |-> << >>, mousex |-> << >>,
    sync |-> <<Field(1, 32, "toggle_flags")>>, unicode |-> <<Field(1, 2, "release")>>, relmouse |-> << >>, qoe_timestamp |-> << >>])>>)
WFastInput == <<Bits(1, FALSE, <<CountOf(4, "events")>>), FastLength(<<CountRest("events"), Items("events", <<FastHeader, By([
    scancode |-> <<Num(1, "code")>>, mouse |-> WMouse, mousex |-> WMouse, sync |-> << >>, unicode |-> <<Num(2, "code")>>,
    relmouse |-> WRelative, qoe_timestamp |-> <<Num(4, "timestamp")>>])>>)>>)>>
RFastInput == <<Bits(1, FALSE, <<CountOf(4, "events")>>), FastLength(<<CountRest("events"), Items("events", <<FastHeader, By([
    scancode |-> <<Num(1, "code")>>, mouse |-> RMouse, mousex |-> RMouse, sync |-> << >>, unicode |-> <<Num(2, "code")>>,
    relmouse |-> RRelative, qoe_timestamp |-> <<Num(4, "timestamp")>>])>>)>>)>>

------------------------------------------------------------------------------
(* Share control and share data PDUs.                                      *)

\* totalLength counts the whole PDU; the type carries the protocol version.
WShareControl(codes, body) == <<Frame(2, FALSE, 2, <<Kind(2, codes), Num(2, "source")>> \o body)>>
RShareControl(codes, body) == <<Whole(2, FALSE, 2, <<Bits(2, FALSE, <<OfKind(1, 16, codes)>>), Num(2, "source")>> \o body)>>
WActive == WShareControl([demand_active |-> 17, confirm_active |-> 19, deactivate_all |-> 22], <<Num(4, "share_id"), By([
    demand_active |-> WCapabilities \o <<Num(4, "session_id")>>,
    confirm_active |-> <<Num(2, "originator_id")>> \o WCapabilities,
    deactivate_all |-> <<Lit(<<1, 0, 0>>)>>])>>)
RActive == RShareControl([demand_active |-> 1, confirm_active |-> 3, deactivate_all |-> 6], <<Num(4, "share_id"), By([
    demand_active |-> RCapabilities \o <<Stop(""), Num(4, "session_id")>>,
    confirm_active |-> <<Num(2, "originator_id")>> \o RCapabilities \o <<Slack>>,
    deactivate_all |-> <<Stop(""), Frame(2, FALSE, 0, <<Slack>>), Slack>>])>>)

WRectangle == Nums(2, <<"left", "top", "right", "bottom">>)
RRectangle == <<Num(2, "left"), Num(2, "top"), Num(2, "right"), Num(2, "bottom")>>
type2_of == [control |-> 20, input |-> 28, synchronize |-> 31, refresh_rect |-> 33, suppress_output |-> 35, shutdown_request |-> 36,
             shutdown_denied |-> 37, font_list |-> 39, font_map |-> 40, set_error_info |-> 47, frame_acknowledge |-> 56]
WDataBody == By([
    synchronize |-> <<Lit(<<1, 0>>), Num(2, "target_user")>>,
    control |-> <<Num(2, "action"), Num(2, "grant_id"), Num(4, "control_id")>>,
    font_list |-> Nums(2, <<"number_fonts", "total_number_fonts", "list_flags", "entry_size">>),
    font_map |-> Nums(2, <<"number_entries", "total_number_entries", "map_flags", "entry_size">>),
    set_error_info |-> <<Num(4, "error_info")>>,
    refresh_rect |-> <<Count(1, "areas", 255), Pad(3), Items("areas", WRectangle)>>,
    suppress_output |-> <<OneOf(1, "allow", <<1, 0>>), Pad(3), Case("allow", {1}, WRectangle)>>,
    shutdown_request |-> << >>, shutdown_denied |-> << >>,
    frame_acknowledge |-> <<Num(4, "frame_id")>>, input |-> WSlowInput])
RDataBody == By([
    synchronize |-> <<Lit(<<1, 0>>), Num(2, "target_user"), Slack>>,
    control |-> <<Num(2, "action"), Num(2, "grant_id"), Num(4, "control_id"), Slack>>,
    font_list |-> <<Num(2, "number_fonts"), Num(2, "total_number_fonts"), Num(2, "list_flags"), Num(2, "entry_size"), Slack>>,
    font_map |-> <<Num(2, "number_entries"), Num(2, "total_number_entries"), Num(2, "map_flags"), Num(2, "entry_size"), Slack>>,
    set_error_info |-> <<Num(4, "error_info"), Slack>>,
    refresh_rect |-> <<Count(1, "areas", 255), Pad(3), Items("areas", RRectangle), Slack>>,
    suppress_output |-> <<OneOf(1, "allow", <<0, 1>>), Pad(3), Case("allow", {1}, RRectangle), Slack>>,
    shutdown_request |-> <<Slack>>, shutdown_denied |-> <<Slack>>,
    frame_acknowledge |-> <<Num(4, "frame_id"), Slack>>, input |-> RSlowInput \o <<Slack>>])
\* TS_SHAREDATAHEADER: uncompressedLength counts from pduType2 on.
WDataPdu == <<Frame(2, FALSE, 2, <<Lit(<<23, 0>>), Num(2, "source"), Num(4, "share_id"), Lit(<<0, 1>>),
    Ahead(2, "uncompressed", <<Pad(4), WDataBody>>), Kind(1, type2_of), Lit(<<0, 0, 0>>), WDataBody>>)>>
RDataPdu == <<Whole(2, FALSE, 2, <<Lit(<<23, 0>>), Num(2, "source"), Num(4, "share_id"), Pad(1), Pad(1), Pad(2),
    Kind(1, type2_of), Lit(<<0>>), Pad(2), RDataBody>>)>>

------------------------------------------------------------------------------
(* Saved session information, bitmap updates, auto-detection.              *)

WSaveSession == <<Lit(<<3, 0, 0, 0>>), Frame(2, FALSE, 2, <<Flags(4, <<"cookie", "errors">>),
    If("cookie", <<Rec("cookie", <<Lit(<<28, 0, 0, 0, 28, 0, 0, 0>>), Num(4, "version"), Num(4, "logon_id"), Blob(16, "random_bits")>>)>>),
    If("errors", <<Rec("errors", <<Lit(<<8, 0, 0, 0>>), Num(4, "notification_type"), Num(4, "notification_data")>>)>>), Pad(570)>>)>>
RSaveSession == <<Lit(<<3, 0, 0, 0>>), Frame(2, FALSE, 2, <<Flags(4, <<"cookie", "errors">>),
    If("cookie", <<Rec("cookie", <<Lit(<<28, 0, 0, 0, 28, 0, 0, 0>>), Num(4, "version"), Num(4, "logon_id"), Blob(16, "random_bits")>>)>>),
    If("errors", <<Rec("errors", <<Lit(<<8, 0, 0, 0>>), Num(4, "notification_type"), Num(4, "notification_data")>>)>>), Pad(570)>>)>>

\* Compressed data has a header of its own, unless the flags say it has not;
\* its scan width and full size are for clients, and not looked at here.
BitmapHeader == {1}
WBitmapRect == Nums(2, <<"dest_left", "dest_top", "dest_right", "dest_bottom", "width", "height", "bits_per_pixel">>) \o
    <<OneOf(2, "flags", <<1, 1025, 0>>), Case("flags", BitmapHeader, <<Frame(2, FALSE, 0, <<Pad(2), Ahead(2, "body", <<Rest("data")>>), Pad(4), Rest("data")>>)>>),
      Case("flags", {0, 1025}, <<Sized(2, 0, "data")>>)>>
RBitmapRect == <<Num(2, "dest_left"), Num(2, "dest_top"), Num(2, "dest_right"), Num(2, "dest_bottom"), Num(2, "width"), Num(2, "height"),
    Num(2, "bits_per_pixel"), Num(2, "flags"),
    Case("flags", BitmapHeader, <<Frame(2, FALSE, 0, <<Pad(2), Ahead(2, "body", << >>), Pad(4), Sub("body", <<Rest("data")>>)>>)>>),
    Case("flags", {0, 1025}, <<Sized(2, 0, "data")>>)>>
WBitmapUpdate == <<Lit(<<1, 0>>), Count(2, "rects", 65535), Items("rects", WBitmapRect)>>
RBitmapUpdate == <<Lit(<<1, 0>>), Count(2, "rects", 65535), Items("rects", RBitmapRect)>>

RequestTypes == [rtt_continuous |-> 1, rtt_connect_time |-> 4097, bw_start_continuous |-> 20, bw_start_connect_time |-> 4116,
    bw_payload |-> 2, bw_stop_connect_time |-> 43, bw_stop_continuous |-> 1065, netchar_base_rtt |-> 2112, netchar_bandwidth |-> 2176, netchar_all |-> 2240]
HeaderLengths == [rtt_continuous |-> 6, rtt_connect_time |-> 6, bw_start_continuous |-> 6, bw_start_connect_time |-> 6,
    bw_payload |-> 8, bw_stop_connect_time |-> 8, bw_stop_continuous |-> 6, netchar_base_rtt |-> 14, netchar_bandwidth |-> 14, netchar_all |-> 18]
RequestBodies == [k \in DOMAIN RequestTypes |->
    CASE k \in {"bw_payload", "bw_stop_connect_time"} -> <<Sized(2, 0, "payload")>>
      [] k = "netchar_base_rtt" -> Nums(4, <<"base_rtt_ms", "average_rtt_ms">>)
      [] k = "netchar_bandwidth" -> Nums(4, <<"bandwidth_kbps", "average_rtt_ms">>)
      [] k = "netchar_all" -> Nums(4, <<"base_rtt_ms", "bandwidth_kbps", "average_rtt_ms">>)
      [] OTHER -> << >>]
WAutoDetectRequest == <<By([k \in DOMAIN RequestTypes |-> <<Lit(<<HeaderLengths[k], 0>>)>>]), Num(2, "sequence"), Kind(2, RequestTypes), By(RequestBodies)>>
RAutoDetectRequest == <<Ahead(1, "length", << >>), Lit(<<0>>), Num(2, "sequence"), Kind(2, RequestTypes),
    By([k \in DOMAIN RequestTypes |-> <<Expect("length", {HeaderLengths[k]})>> \o RequestBodies[k] \o <<Slack>>])>>
ResponseTypes == [rtt |-> 0, bw_results_connect_time |-> 3, bw_results_continuous |-> 11, netchar_sync |-> 24]
ResponseBodies == [rtt |-> << >>, bw_results_connect_time |-> Nums(4, <<"time_delta_ms", "byte_count">>),
    bw_results_continuous |-> Nums(4, <<"time_delta_ms", "byte_count">>), netchar_sync |-> Nums(4, <<"bandwidth_kbps", "rtt_ms">>)]
ResponseLength(k) == IF k = "rtt" THEN 6 ELSE 14
WAutoDetectResponse == <<By([k \in DOMAIN ResponseTypes |-> <<Lit(<<ResponseLength(k), 1>>)>>]), Num(2, "sequence"), Kind(2, ResponseTypes), By(ResponseBodies)>>
RAutoDetectResponse == <<Ahead(1, "length", << >>), Lit(<<1>>), Num(2, "sequence"), Kind(2, ResponseTypes),
    By([k \in DOMAIN ResponseTypes |-> <<Expect("length", {ResponseLength(k)})>> \o ResponseBodies[k] \o <<Slack>>])>>
WHeartbeat == <<Pad(1), Num(1, "period_seconds"), Num(1, "warning_count"), Num(1, "reconnect_count")>>
RHeartbeat == <<Pad(1), Num(1, "period_seconds"), Num(1, "warning_count"), Num(1, "reconnect_count"), Slack>>
==============================================================================
