--------------------------- MODULE PipeWireCapture ---------------------------
(***************************************************************************)
(* The capture of a screen cast through PipeWire                           *)
(* (src/farland/platform/portal/pipewire_capture.cpp): buffers move        *)
(* between the compositor, PipeWire's loop thread and the desktop thread   *)
(* of the session.  A frame is either read into CPU memory at once, or     *)
(* held as a dmabuf, dequeued, until the session has taken the next one.   *)
(*                                                                         *)
(* A picture is a version number per tile of the screen.  The crop of a    *)
(* frame, the cursor and the pixel conversion are left out.                *)
(***************************************************************************)
EXTENDS Naturals, Sequences, FiniteSets, SequencesExt

CONSTANTS CaptureTiles,  \* the parts of the screen that change one by one
          StreamBuffers, \* the buffers of the stream, numbered
          CaptureLayouts,\* the pixel layouts both ends know
          MinToHold,     \* min_buffers_to_hold
          Draws,         \* bound: changes of the desktop
          Renegotiations,\* bound: renegotiations the compositor starts
          AccessChanges, \* bound: set_access calls
          Unreadable     \* external: layouts in which the CPU cannot read a tiled buffer

VARIABLES pwprod,  \* external: the compositor's desktop and its end of the stream
          pwneg,   \* the format in use and the formats offered
          pwcap,   \* frames on their way, shared under `mutex`
          pwsess   \* the desktop thread: the frame it holds and what was shown

pipewireVars == <<pwprod, pwneg, pwcap, pwsess>>

NoFrame == [dma |-> FALSE, buf |-> 0, img |-> << >>]
Blank == [t \in CaptureTiles |-> 0]

\* init_offers(): what the driver imports for each layout.
InitOffers == [l \in CaptureLayouts |-> {"linear", "tiled"}]

\* The stream right after create(): the first format is negotiated, no frame yet.
PipeWireInit ==
    /\ pwprod = [desk |-> Blank, last |-> Blank, free |-> StreamBuffers, queue |-> << >>,
                 full |-> TRUE, asked |-> FALSE, own |-> 0]
    /\ pwneg = [layout |-> "bgrx", mod |-> "tiled", offers |-> InitOffers,
                failed |-> {}, signalled |-> FALSE, missed |-> {}]
    /\ pwcap = [access |-> "cpu", switched |-> 0, pending |-> FALSE, frame |-> NoFrame, damage |-> {},
                wake |-> FALSE, waking |-> FALSE, closed |-> FALSE, returned |-> {}]
    /\ pwsess = [front |-> NoFrame, damage |-> {}, dirty |-> FALSE, shown |-> Blank, whole |-> TRUE]

-----------------------------------------------------------------------------
(* External: the compositor *)

DesktopDraws(t) ==
    /\ pwprod.desk[t] < Draws
    /\ pwprod' = [pwprod EXCEPT !.desk[t] = @ + 1]
    /\ UNCHANGED <<pwneg, pwcap, pwsess>>

\* A frame with the damage since the previous one; all of it after a new format.
ProduceFrame ==
    /\ pwprod.free # {}
    /\ ~pwcap.closed
    /\ pwprod.full \/ pwprod.desk # pwprod.last
    /\ pwprod' = [pwprod EXCEPT
          !.free = @ \ {Min(@)}, !.last = pwprod.desk, !.full = FALSE,
          !.queue = Append(@, [buf |-> Min(pwprod.free), img |-> pwprod.desk,
                               damage |-> IF pwprod.full THEN CaptureTiles
                                          ELSE {t \in CaptureTiles : pwprod.desk[t] # pwprod.last[t]}])]
    /\ UNCHANGED <<pwneg, pwcap, pwsess>>

-----------------------------------------------------------------------------
(* The loop thread *)

IsDmabuf == pwneg.mod # "shm"
Readable == pwneg.mod # "tiled" \/ pwneg.layout \notin Unreadable
LoopFree == ~pwcap.waking

\* dmabuf_failed(): each modifier is given up once.
DmabufFailed(neg) ==
    LET missed == [neg EXCEPT !.missed = @ \union {<<neg.layout, neg.mod>>}]
    IN IF neg.mod \in neg.failed THEN missed
       ELSE [missed EXCEPT !.failed = @ \union {neg.mod},
                           !.offers[neg.layout] = @ \ {neg.mod}, !.signalled = TRUE]

\* process(): every buffer but the newest goes straight back, its damage is kept.
Newest == Last(pwprod.queue)
Requeued(bufs) == [pwprod EXCEPT !.queue = << >>, !.free = @ \union (bufs \ {0})]
Queued == {f.buf : f \in Range(pwprod.queue)}
QueuedDamage == UNION {f.damage : f \in Range(pwprod.queue)}

\* set_pending_locked(): the damage adds up; the dmabuf pending until now is superseded.
SetPending(frame) ==
    pwcap' = [pwcap EXCEPT !.pending = TRUE, !.frame = frame, !.damage = @ \union QueuedDamage, !.waking = TRUE]

CanHold == pwcap.access = "dmabuf" /\ IsDmabuf /\ Cardinality(StreamBuffers) >= MinToHold

\* hold_frame(): the buffer stays dequeued as the pending frame.
HoldFrame ==
    /\ CanHold
    /\ SetPending([dma |-> TRUE, buf |-> Newest.buf, img |-> Newest.img])
    /\ pwprod' = Requeued((Queued \ {Newest.buf}) \union {pwcap.frame.buf})
    /\ UNCHANGED pwneg

\* publish_frame(): the pixels are read and the buffer goes back; a frame that cannot be
\* read is dropped with its damage.
PublishFrame ==
    /\ ~CanHold
    /\ \/ /\ Readable
          /\ SetPending([dma |-> FALSE, buf |-> 0, img |-> Newest.img])
          /\ pwprod' = Requeued(Queued \union {pwcap.frame.buf})
          /\ UNCHANGED pwneg
       \/ /\ ~Readable
          /\ pwneg' = DmabufFailed(pwneg)
          /\ pwprod' = Requeued(Queued)
          /\ UNCHANGED pwcap

ProcessBuffers ==
    /\ LoopFree /\ ~pwcap.closed /\ pwprod.queue # << >>
    /\ HoldFrame \/ PublishFrame
    /\ UNCHANGED pwsess

\* After the lock is released the wake descriptor is written.
WakeSession ==
    /\ pwcap.waking
    /\ pwcap' = [pwcap EXCEPT !.waking = FALSE, !.wake = TRUE]
    /\ UNCHANGED <<pwprod, pwneg, pwsess>>

OnRelease ==
    /\ LoopFree /\ pwcap.returned # {}
    /\ pwprod' = [pwprod EXCEPT !.free = @ \union pwcap.returned]
    /\ pwcap' = [pwcap EXCEPT !.returned = {}]
    /\ UNCHANGED <<pwneg, pwsess>>

OnRenegotiate ==
    /\ LoopFree /\ pwneg.signalled
    /\ pwneg' = [pwneg EXCEPT !.signalled = FALSE]
    /\ pwprod' = [pwprod EXCEPT !.asked = TRUE]
    /\ UNCHANGED <<pwcap, pwsess>>

\* on_remove_buffer() for all of the stream's buffers: none of them may be requeued.
RemoveBuffers ==
    /\ pwcap' = [pwcap EXCEPT !.frame.buf = 0, !.returned = {}]
    /\ pwsess' = [pwsess EXCEPT !.front.buf = 0]

\* build_formats(): the modifiers of a layout that still are to be tried, and shared memory.
Offered(l, m) == m = "shm" \/ m \in pwneg.offers[l]

\* The compositor answers with a format from the offers, or renegotiates by itself: the
\* buffers are replaced, then format_changed() runs.
FormatChanged ==
    /\ LoopFree /\ ~pwcap.closed
    /\ pwprod.asked \/ pwprod.own < Renegotiations
    /\ \E l \in CaptureLayouts, m \in {"linear", "tiled", "shm"} :
          /\ Offered(l, m)
          /\ pwneg' = [pwneg EXCEPT !.layout = l, !.mod = m]
    /\ RemoveBuffers
    /\ pwprod' = [pwprod EXCEPT !.asked = FALSE, !.free = StreamBuffers, !.queue = << >>, !.full = TRUE,
                                !.own = IF pwprod.asked THEN @ ELSE @ + 1]

\* close(): the stream fails, or its node or the connection goes; the wake descriptor stays readable.
StreamCloses ==
    /\ LoopFree /\ ~pwcap.closed
    /\ pwcap' = [pwcap EXCEPT !.closed = TRUE, !.wake = TRUE]
    /\ UNCHANGED <<pwprod, pwneg, pwsess>>

-----------------------------------------------------------------------------
(* The desktop thread *)

\* return_front_locked(): the frame held goes back, unless PipeWire took its buffer.
ReturnFront == pwcap.returned \union ({pwsess.front.buf} \ {0})

\* take_frame(), then DesktopSession::on_frame.
TakeFrame ==
    /\ pwcap.wake
    /\ IF pwcap.pending
       THEN /\ pwcap' = [pwcap EXCEPT !.returned = ReturnFront, !.pending = FALSE, !.frame = NoFrame,
                                      !.damage = {}, !.wake = pwcap.closed]
            /\ pwsess' = [pwsess EXCEPT !.front = pwcap.frame, !.damage = @ \union pwcap.damage, !.dirty = TRUE]
       ELSE pwcap' = [pwcap EXCEPT !.wake = pwcap.closed] /\ UNCHANGED pwsess
    /\ UNCHANGED <<pwprod, pwneg>>

\* The encoder reads the dmabuf; the client is sent the damaged tiles.
StreamShown == [t \in CaptureTiles |-> (IF t \in pwsess.damage THEN pwsess.front.img ELSE pwsess.shown)[t]]

UseDmabuf ==
    /\ pwsess.dirty /\ pwsess.front.dma /\ pwcap.access = "dmabuf"
    /\ pwsess' = [pwsess EXCEPT !.dirty = FALSE, !.damage = {}, !.shown = StreamShown, !.whole = StreamShown = pwsess.front.img]
    /\ UNCHANGED <<pwprod, pwneg, pwcap>>

\* screen_image(): pixels are compared with what the client has.  map_frame() reads a dmabuf
\* with the loop locked; a frame it cannot read is lost.
UseImage ==
    /\ pwsess.dirty
    /\ IF ~pwsess.front.dma \/ (LoopFree /\ Readable /\ pwsess.front.buf # 0)
       THEN /\ pwsess' = [pwsess EXCEPT !.dirty = FALSE, !.damage = {}, !.shown = pwsess.front.img, !.whole = TRUE]
            /\ UNCHANGED pwneg
       ELSE /\ LoopFree /\ pwcap.access = "cpu"
            /\ pwsess' = [pwsess EXCEPT !.dirty = FALSE]
            /\ pwneg' = IF pwsess.front.buf # 0 THEN DmabufFailed(pwneg) ELSE pwneg
    /\ UNCHANGED <<pwprod, pwcap>>

SetAccess ==
    /\ pwcap.switched < AccessChanges
    /\ pwcap' = [pwcap EXCEPT !.access = IF @ = "cpu" THEN "dmabuf" ELSE "cpu", !.switched = @ + 1]
    /\ UNCHANGED <<pwprod, pwneg, pwsess>>

PipeWireNext ==
    \/ \E t \in CaptureTiles : DesktopDraws(t)
    \/ ProduceFrame \/ ProcessBuffers \/ WakeSession \/ OnRelease \/ OnRenegotiate \/ FormatChanged \/ StreamCloses
    \/ TakeFrame \/ UseDmabuf \/ UseImage \/ SetAccess

\* The loop thread handles its events; the compositor produces while it has
\* a buffer and answers a renegotiation; the session takes and uses the
\* frames it is woken for.
PipeWireSpec ==
    /\ PipeWireInit /\ [][PipeWireNext]_pipewireVars
    /\ WF_pwprod(ProduceFrame) /\ WF_pwprod(ProcessBuffers) /\ WF_pwcap(WakeSession)
    /\ WF_pwcap(OnRelease) /\ WF_pwneg(OnRenegotiate) /\ WF_pwprod(FormatChanged /\ pwprod.asked)
    /\ WF_pwcap(TakeFrame) /\ WF_pwsess(UseDmabuf \/ UseImage)

-----------------------------------------------------------------------------
(* Properties *)

\* Every buffer of the stream is in one place: with the compositor, queued, held as the
\* pending or the session's frame, or given back; none is lost and none is in two.
OnePlaceEach ==
    LET places == <<pwprod.free, Queued, {pwcap.frame.buf} \ {0}, {pwsess.front.buf} \ {0}, pwcap.returned>>
    IN /\ UNION Range(places) = StreamBuffers
       /\ \A i, j \in DOMAIN places : i # j => places[i] \cap places[j] = {}

\* The damaged tiles of a dmabuf make the client's picture that frame: frames skipped or
\* superseded before it left their damage.  Only one that could not be read takes its own along.
DamageMakesWhole == pwsess.whole \/ pwneg.missed # {}

\* "Stop offering it and renegotiate": a format that could not be read is not offered again.
FailedIsNotOffered == \A f \in pwneg.missed : f[2] \notin pwneg.offers[f[1]]

\* Once the desktop rests the client is shown it, whichever way its frames go, through
\* renegotiations, skipped frames and formats that cannot be read; or the stream has closed,
\* and the session can tell at any time.
CaptureSettles == <>[](pwsess.shown = pwprod.desk \/ (pwcap.closed /\ pwcap.wake))

\* Screen cast capture: every buffer is in one place, damage makes every
\* frame whole, and a format that failed is not offered again.
PipeWireCorrect ==
    /\ OnePlaceEach
    /\ DamageMakesWhole
    /\ FailedIsNotOffered
=============================================================================
