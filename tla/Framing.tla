---- MODULE Framing ----
(***************************************************************************)
(* How a message travels in pieces.  Downwards, an update is split into    *)
(* fast-path fragments (proto/fastpath.cpp).  Upwards, a stream of RDPGFX   *)
(* PDUs is cut into dynamic channel messages, those into drdynvc data       *)
(* PDUs (channels/drdynvc.cpp), those into static channel chunks            *)
(* (channels/svc.cpp), and each of those is a TPKT.  Either way TCP         *)
(* delivers the octets in whatever pieces it likes and the receiver frames  *)
(* them again (proto/framing.cpp, Connection::receive, GfxServer::receive). *)
(* Frame headers are the octets of the code; the headers inside a chunk     *)
(* keep their fields, one octet each.                                       *)
(***************************************************************************)
EXTENDS Integers, Sequences, SequencesExt

CONSTANTS
    MaxFragment,  \* encode_update's max_fragment
    MaxUpdate,    \* fastpath::Reassembler's max_update_size
    SvcChunk,     \* the chunk length in effect, encode_chunks's max_chunk
    SvcMost,      \* svc::Reassembler's max_message_size
    DvcPdu,       \* drdynvc::max_pdu_size
    DvcSingle,    \* drdynvc::max_single_data_size
    DvcMost,      \* drdynvc::MessageReassembler's max_size
    GfxMost,      \* rdpgfx::max_client_pdu_size
    BufferMost    \* Connection's max_buffered_input

VARIABLES
    errand,   \* which way, the messages to send and how they are grouped
    posted,   \* how many of the messages are on their way
    transit,  \* octets between the two ends
    receiver, \* what the receiving end holds, and what it has handed on
    slip      \* "none", or the fault the sender committed

framingVars == <<errand, posted, transit, receiver, slip>>

Idle == -1
NoReceiver == [in |-> << >>, code |-> Idle, update |-> << >>, total |-> Idle, chunk |-> << >>,
               length |-> Idle, block |-> << >>, gfx |-> << >>, pdus |-> << >>, out |-> << >>, failed |-> FALSE]
NoErrand == [way |-> "none", messages |-> << >>]

\* Pieces(s, n): s in pieces of n, the last one shorter.
PieceAt(s, n, i) == SubSeq(s, (i - 1) * n + 1, IF i * n < Len(s) THEN i * n ELSE Len(s))
PiecesOf(s, n) == [i \in 1..((Len(s) + n - 1) \div n) |-> PieceAt(s, n, i)]
Past1(s, n) == SubSeq(s, n + 1, Len(s))

\* ---- sending -----------------------------------------------------------

\* fastpath.cpp: write_pdu and encode_update.  Fragmentation: single 0,
\* last 1, first 2, next 3.
WritePdu(code, frag, data) ==
    LET n == 6 + Len(data)
    IN  <<0, 128 + (n \div 256), n % 256, code + (16 * frag), Len(data) % 256, Len(data) \div 256>> \o data
FragmentationOf(i, n) == IF n = 1 THEN 0 ELSE IF i = 1 THEN 2 ELSE IF i = n THEN 1 ELSE 3
encode_update(m) ==
    IF Len(m.data) <= MaxFragment THEN <<WritePdu(m.code, 0, m.data)>>
    ELSE LET ps == PiecesOf(m.data, MaxFragment)
         IN  [i \in DOMAIN ps |-> WritePdu(m.code, FragmentationOf(i, Len(ps)), ps[i])]

\* drdynvc.cpp: encode_data.  A Data PDU is <<3, block>>, a Data First PDU
\* <<2, length, block>>.
encode_data(m) ==
    IF Len(m) <= DvcSingle THEN <<<<3>> \o m>>
    ELSE LET k == IF DvcPdu - 2 < Len(m) THEN DvcPdu - 2 ELSE Len(m)
             ps == PiecesOf(Past1(m, k), DvcPdu - 1)
         IN  <<<<2, Len(m)>> \o SubSeq(m, 1, k)>> \o [i \in DOMAIN ps |-> <<3>> \o ps[i]]

\* svc.cpp: encode_chunks.  Flags: first 1, last 2.
encode_chunks(m) ==
    LET ps == IF m = << >> THEN <<m>> ELSE PiecesOf(m, SvcChunk)
    IN  [i \in DOMAIN ps |->
            <<Len(m), (IF i = 1 THEN 1 ELSE 0) + (IF i = Len(ps) THEN 2 ELSE 0)>> \o ps[i]]

\* A chunk is the user data of one TPKT.
AsTpkt(data) == LET n == 7 + Len(data) IN <<3, 0, n \div 256, n % 256, 2, 240, 128>> \o data

FramesOf(way, m) ==
    IF way = "down" THEN encode_update(m)
    ELSE LET chunks == FlattenSeq([i \in DOMAIN encode_data(m) |-> encode_chunks(encode_data(m)[i])])
         IN  [i \in DOMAIN chunks |-> AsTpkt(chunks[i])]

\* ---- receiving ---------------------------------------------------------

More == [verdict |-> "more", kind |-> "none", length |-> 0]
Bad == [verdict |-> "bad", kind |-> "none", length |-> 0]
FrameInfo(k, n, least) == IF n < least THEN Bad ELSE [verdict |-> "frame", kind |-> k, length |-> n]

\* framing.cpp
peek_frame(b) ==
    CASE b = << >> -> More
      [] b /= << >> /\ b[1] = 3 -> IF Len(b) < 4 THEN More ELSE FrameInfo("tpkt", (256 * b[3]) + b[4], 7)
      [] b /= << >> /\ b[1] % 4 = 0 ->
            IF Len(b) < 2 THEN More
            ELSE IF b[2] < 128 THEN FrameInfo("fastpath", b[2], 2)
            ELSE IF Len(b) < 3 THEN More ELSE FrameInfo("fastpath", (256 * (b[2] - 128)) + b[3], 3)
      [] OTHER -> Bad

FailRx(rx) == [rx EXCEPT !.failed = TRUE]

\* fastpath.cpp: Reassembler::add
AddFragment(rx, code, frag, data) ==
    IF frag \in {0, 2}
    THEN IF rx.code /= Idle \/ Len(data) > MaxUpdate THEN FailRx(rx)
         ELSE IF frag = 0 THEN [rx EXCEPT !.out = Append(@, [code |-> code, data |-> data])]
         ELSE [rx EXCEPT !.code = code, !.update = data]
    ELSE IF rx.code /= code \/ Len(rx.update) + Len(data) > MaxUpdate THEN FailRx(rx)
         ELSE IF frag = 3 THEN [rx EXCEPT !.update = @ \o data]
         ELSE [rx EXCEPT !.out = Append(@, [code |-> code, data |-> rx.update \o data]),
                         !.code = Idle, !.update = << >>]
\* fastpath.cpp: decode_output_pdu, for the one update encode_update puts in a PDU.
TakeFastpath(rx, pdu) ==
    LET size == pdu[5] + (256 * pdu[6])
    IN  IF (256 * (pdu[2] - 128)) + pdu[3] /= Len(pdu) \/ Len(pdu) /= 6 + size THEN FailRx(rx)
        ELSE AddFragment(rx, pdu[4] % 16, pdu[4] \div 16, Past1(pdu, 6))

\* rdpgfx.cpp: frame_pdu
frame_pdu(b) ==
    IF Len(b) < 2 THEN More
    ELSE IF b[2] > GfxMost THEN Bad
    ELSE IF b[2] > Len(b) THEN More ELSE FrameInfo("gfx", b[2], 2)
\* rdpgfx_server.cpp: the loop of GfxServer::receive
RECURSIVE TakeGfx(_)
TakeGfx(rx) ==
    LET f == frame_pdu(rx.gfx)
    IN  CASE f.verdict = "bad" -> FailRx([rx EXCEPT !.gfx = << >>])
          [] f.verdict = "more" -> rx
          [] f.verdict = "frame" ->
                TakeGfx([rx EXCEPT !.out = Append(@, SubSeq(rx.gfx, 1, f.length)), !.gfx = Past1(@, f.length)])
DeliverDvc(rx, m) == TakeGfx([rx EXCEPT !.gfx = @ \o m])

\* drdynvc.cpp: MessageReassembler::first and ::next
DvcFirst(rx, length, data) ==
    IF rx.length /= Idle THEN FailRx([rx EXCEPT !.length = Idle, !.block = << >>])
    ELSE IF length > DvcMost \/ Len(data) > length THEN FailRx(rx)
    ELSE IF Len(data) = length THEN DeliverDvc(rx, data)
    ELSE [rx EXCEPT !.length = length, !.block = data]
DvcReaderNext(rx, data) ==
    IF rx.length = Idle THEN IF Len(data) > DvcMost THEN FailRx(rx) ELSE DeliverDvc(rx, data)
    ELSE IF Len(data) > rx.length - Len(rx.block) THEN FailRx([rx EXCEPT !.length = Idle, !.block = << >>])
    ELSE IF Len(rx.block) + Len(data) < rx.length THEN [rx EXCEPT !.block = @ \o data]
    ELSE DeliverDvc([rx EXCEPT !.length = Idle, !.block = << >>], rx.block \o data)
\* pdus records what the static channel handed on; only NothingMadeUp reads it.
TakeDvc(rx, pdu) ==
    LET at == [rx EXCEPT !.pdus = Append(@, pdu)]
    IN  IF pdu[1] = 2 THEN DvcFirst(at, pdu[2], Past1(pdu, 2)) ELSE DvcReaderNext(at, Past1(pdu, 1))

\* svc.cpp: Reassembler::process for a chunk inside a message, and one that
\* starts one; a failure drops the partial message (Reassembler::add).
DropPartial(rx) == FailRx([rx EXCEPT !.total = Idle, !.chunk = << >>])
FirstChunk(rx, length, last, data) ==
    IF rx.total /= Idle THEN DropPartial(rx)
    ELSE IF last THEN IF Len(data) /= length THEN DropPartial(rx) ELSE TakeDvc(rx, data)
    ELSE IF Len(data) >= length THEN DropPartial(rx)
    ELSE [rx EXCEPT !.total = length, !.chunk = data]
\* A message that stops early is taken for whole.
NextChunkTrusting(rx, length, last, data) ==
    IF rx.total = Idle \/ length /= rx.total \/ Len(data) > rx.total - Len(rx.chunk) THEN DropPartial(rx)
    ELSE IF ~last THEN [rx EXCEPT !.chunk = @ \o data]
    ELSE TakeDvc([rx EXCEPT !.total = Idle, !.chunk = << >>], rx.chunk \o data)
NextChunk(rx, length, last, data) ==
    IF rx.total = Idle \/ length /= rx.total \/ Len(data) > rx.total - Len(rx.chunk) THEN DropPartial(rx)
    ELSE IF ~last THEN [rx EXCEPT !.chunk = @ \o data]
    ELSE IF Len(rx.chunk) + Len(data) /= rx.total THEN DropPartial(rx)
    ELSE TakeDvc([rx EXCEPT !.total = Idle, !.chunk = << >>], rx.chunk \o data)
TakeChunk(rx, pdu) ==
    IF Len(pdu) - 2 > SvcChunk \/ pdu[1] > SvcMost THEN DropPartial(rx)
    ELSE IF pdu[2] % 2 = 1 THEN FirstChunk(rx, pdu[1], pdu[2] >= 2, Past1(pdu, 2))
    ELSE NextChunk(rx, pdu[1], pdu[2] >= 2, Past1(pdu, 2))

\* connection.cpp: the loop of Connection::receive.
RECURSIVE TakeFrames(_)
TakeFrames(rx) ==
    LET f == peek_frame(rx.in)
        pdu == SubSeq(rx.in, 1, f.length)
        rest == [rx EXCEPT !.in = Past1(@, f.length)]
    IN  IF rx.failed THEN rx
        ELSE IF f.verdict = "bad" THEN FailRx(rx)
        ELSE IF f.verdict = "more" \/ Len(rx.in) < f.length THEN rx
        ELSE TakeFrames(IF f.kind = "tpkt" THEN TakeChunk(rest, Past1(pdu, 7)) ELSE TakeFastpath(rest, pdu))
ReceiveBytes(rx, octets) ==
    IF rx.failed THEN rx
    ELSE LET after == TakeFrames([rx EXCEPT !.in = @ \o octets])
         IN  IF Len(after.in) > BufferMost THEN FailRx(after) ELSE after

\* ---- the run -----------------------------------------------------------

FramingInit ==
    /\ errand = NoErrand
    /\ posted = 0
    /\ transit = << >>
    /\ receiver = NoReceiver
    /\ slip = "none"

Data(n) == [i \in 1..n |-> i]
GfxPdu(n) == <<9, n>> \o [i \in 1..(n - 2) |-> 10 * n + i]
\* Sizes around every limit; the PDUs of a stream need not end where the
\* channel messages do.
DownErrands ==
    {[way |-> "down", messages |-> <<[code |-> 1, data |-> Data(a)], [code |-> 1, data |-> Data(b)]>>] :
        a \in 0..MaxUpdate, b \in {1, MaxFragment, MaxFragment + 1}}
UpErrands ==
    {[way |-> "up", messages |-> <<SubSeq(s, 1, k), SubSeq(s, k + 1, Len(s))>>] :
        s \in {GfxPdu(n) \o GfxPdu(2) \o GfxPdu(4) : n \in {2, 4, GfxMost}}, k \in {0, 1, 3, 5, 7}}
StartErrand ==
    /\ errand.way = "none"
    /\ errand' \in DownErrands \/ errand' \in UpErrands
    /\ UNCHANGED <<posted, transit, receiver, slip>>

Committed(frames, fault, i) ==
    CASE fault = "none" -> frames
      [] fault = "drop" -> RemoveAt(frames, i)
      [] fault = "repeat" -> InsertAt(frames, i, frames[i])
\* DynamicChannels::flush, Connection::send_channel_data: all frames of a
\* message go out together.  The sender may lose or repeat one frame, once.
Post ==
    /\ posted < Len(errand.messages)
    /\ posted' = posted + 1
    /\ \E fault \in {"none"} \cup (IF slip = "none" THEN {"drop", "repeat"} ELSE {}) :
         LET frames == FramesOf(errand.way, errand.messages[posted + 1])
         IN  \E i \in (IF fault = "none" THEN {1} ELSE DOMAIN frames) :
                /\ transit' = transit \o FlattenSeq(Committed(frames, fault, i))
                /\ slip' = IF fault = "none" THEN slip ELSE fault
    /\ UNCHANGED <<errand, receiver>>

\* One read of the socket: any number of the octets in transit.
Arrive ==
    /\ \E k \in {j \in 1..Len(transit) : j \in {1, 4, Len(transit)}} :
         /\ receiver' = ReceiveBytes(receiver, SubSeq(transit, 1, k))
         /\ transit' = IF receiver'.failed THEN << >> ELSE Past1(transit, k)
    /\ UNCHANGED <<errand, posted, slip>>

FramingNext == StartErrand \/ Post \/ Arrive

FramingSpec == FramingInit /\ [][FramingNext]_framingVars

\* ---- properties --------------------------------------------------------

\* What was to come out at the other end: the updates, or the PDUs of the
\* stream whatever messages they were cut into.
Meant ==
    IF errand.way = "down" THEN errand.messages
    ELSE TakeGfx([NoReceiver EXCEPT !.gfx = FlattenSeq(errand.messages)]).out

\* A sender that loses and repeats nothing is understood however TCP cuts
\* the stream: what is handed on is a prefix of what was meant, the
\* connection does not fail, and once nothing is under way all of it has
\* been handed on and no layer still holds a part of a message.
PiecesDoNotMatter ==
    slip = "none" =>
        /\ ~receiver.failed
        /\ IsPrefix(receiver.out, Meant)
        /\ (errand.way /= "none" /\ posted = Len(errand.messages) /\ transit = << >>)
              => receiver = [NoReceiver EXCEPT !.out = Meant, !.pdus = receiver.pdus]

\* A chunk lost or repeated inside a static channel message is noticed: the
\* channel hands on no message that was not sent, in whole, as svc.hpp
\* promises of "data that overruns or falls short of the announced length".
NothingMadeUp ==
    errand.way = "up" =>
        ToSet(receiver.pdus) \subseteq UNION {ToSet(encode_data(errand.messages[i])) : i \in DOMAIN errand.messages}

\* Framing neither depends on how the octets were cut up nor makes up a
\* message.
FramingCorrect ==
    /\ PiecesDoNotMatter
    /\ NothingMadeUp
====
