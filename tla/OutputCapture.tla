---------------------------- MODULE OutputCapture ----------------------------
(***************************************************************************)
(* The capture of an output of a wlroots compositor                        *)
(* (src/farland/platform/wlroots/output_capture.cpp), by                   *)
(* ext-image-copy-capture or by wlr-screencopy.                            *)
(* A picture is a version number per tile; with a new size every tile is   *)
(* drawn anew.  A buffer that is captured into keeps, outside of what the  *)
(* compositor copies, the picture it had.                                  *)
(***************************************************************************)
EXTENDS Naturals, FiniteSets, FiniteSetsExt, Functions

CONSTANTS OutputTiles,         \* the parts of the output
          MaxCaptureBuffers,   \* max_buffers
          MaxCaptureFailures,  \* max_failures
          CopyProtocols,       \* "ext", "screencopy"
          ScreenChanges,       \* bound: changes of the screen or its size
          CopyFaults           \* bound: captures the compositor fails

VARIABLES oscreen,  \* external: the output, and what changed since the last copy
          obufs,    \* the shared-memory buffers, by number
          ocopy,    \* the capture in progress and the frames ready
          osess     \* the session: what it was shown

outputVars == <<oscreen, obufs, ocopy, osess>>

NewBuffer(size) == [state |-> "free", size |-> size, fresh |-> TRUE, stale |-> {}, img |-> << >>]
InState(bufs, st) == {b \in DOMAIN bufs : bufs[b].state = st}

OutputInit ==
    /\ oscreen = [tiles |-> [t \in OutputTiles |-> 0], size |-> 1, changed |-> OutputTiles, draws |-> 0, faults |-> 0]
    /\ obufs = << >>
    /\ ocopy = [protocol |-> "none", inflight |-> FALSE, whole |-> FALSE, asked |-> {}, full |-> TRUE, size |-> 0,
                damage |-> {}, failures |-> 0, wake |-> FALSE, closed |-> FALSE]
    /\ osess = [tiles |-> [t \in OutputTiles |-> 0], size |-> 0]

-----------------------------------------------------------------------------
(* Captures.  c.bufs and c.copy are the buffers and the capture on the way through a handler. *)

\* free_buffer(): those of another layout go; a new one while there are fewer than three.
FreeBuffer(bufs, size) ==
    LET kept == Restrict(bufs, {b \in DOMAIN bufs : bufs[b].state # "free" \/ bufs[b].size = size})
        free == InState(kept, "free")
        new == Min((1..MaxCaptureBuffers + 1) \ DOMAIN kept)
    IN IF free # {} THEN [bufs |-> kept, buf |-> Min(free)]
       ELSE IF Cardinality(DOMAIN kept) >= MaxCaptureBuffers THEN [bufs |-> kept, buf |-> 0]
       ELSE [bufs |-> [b \in DOMAIN kept \union {new} |-> IF b = new THEN NewBuffer(size) ELSE kept[b]], buf |-> new]

\* start_capture()
StartCapture(f, copy) ==
    IF f.buf = 0 THEN [bufs |-> f.bufs, copy |-> copy]
    ELSE [bufs |-> [f.bufs EXCEPT ![f.buf].state = "capturing"], copy |-> [copy EXCEPT !.inflight = TRUE]]

\* capture_ext(): the compositor is asked for all that is stale in the buffer.
CaptureExt(bufs, copy) ==
    LET f == FreeBuffer(bufs, oscreen.size)
        b == f.bufs[f.buf]
    IN IF f.buf = 0 THEN StartCapture(f, copy)
       ELSE StartCapture(f, [copy EXCEPT !.full = @ \/ copy.size # oscreen.size,
                                         !.asked = IF b.fresh THEN OutputTiles ELSE b.stale])

\* copy_screencopy(), once the buffer's layout is known.
CopyScreencopy(bufs, copy) ==
    LET full == copy.full \/ copy.size # oscreen.size
    IN StartCapture(FreeBuffer(bufs, oscreen.size), [copy EXCEPT !.full = full, !.whole = full])

CaptureScreencopy(bufs, copy) == CopyScreencopy(bufs, copy)

\* capture_next()
CaptureNext(bufs, copy) ==
    IF copy.closed \/ copy.inflight THEN [bufs |-> bufs, copy |-> copy]
    ELSE IF copy.protocol = "ext" THEN CaptureExt(bufs, copy) ELSE CaptureScreencopy(bufs, copy)

Continue(bufs, copy) ==
    LET next == CaptureNext(bufs, copy)
    IN obufs' = next.bufs /\ ocopy' = next.copy

\* create() and the first constraints.
StartOutput(p) ==
    /\ ocopy.protocol = "none"
    /\ UNCHANGED <<oscreen, osess>>
    /\ Continue(obufs, [ocopy EXCEPT !.protocol = p])

-----------------------------------------------------------------------------
(* External: the compositor *)

Draw(t) ==
    /\ oscreen.draws < ScreenChanges
    /\ oscreen' = [oscreen EXCEPT !.tiles[t] = @ + 1, !.changed = @ \union {t}, !.draws = @ + 1]
    /\ UNCHANGED <<obufs, ocopy, osess>>

\* A new mode; its constraints arrive before the answer to a capture of the old size.
OutputResize ==
    /\ oscreen.draws < ScreenChanges
    /\ oscreen' = [oscreen EXCEPT !.size = @ + 1, !.changed = OutputTiles, !.draws = @ + 1,
                                !.tiles = [t \in OutputTiles |-> @[t] + 1]]
    /\ UNCHANGED <<obufs, ocopy, osess>>

Capturing == CHOOSE b \in DOMAIN obufs : obufs[b].state = "capturing"

\* What it copies: ext the damage and what the client asked for, screencopy the frame.
CopyDone == IF ocopy.protocol = "screencopy" \/ obufs[Capturing].img = << >> THEN oscreen.tiles
          ELSE [t \in OutputTiles |-> IF t \in ocopy.asked \union oscreen.changed
                                      THEN oscreen.tiles[t] ELSE obufs[Capturing].img[t]]

\* The frame's damage events; a whole copy reports none and counts as changed everywhere.
FrameDamage == IF ocopy.protocol = "screencopy" /\ ocopy.whole THEN OutputTiles ELSE oscreen.changed

-----------------------------------------------------------------------------
(* Events of a capture *)

\* Mutant: only buffers that are free are marked.
StaleForgets(filled) ==
    [o \in DOMAIN obufs |->
        IF o = filled THEN [obufs[o] EXCEPT !.fresh = FALSE, !.stale = {}, !.state = "pending", !.img = CopyDone]
        ELSE [obufs[o] EXCEPT !.stale = IF obufs[o].state = "free" THEN @ \union FrameDamage ELSE @,
                              !.state = IF @ = "pending" THEN "free" ELSE @]]

\* ready(): the buffer is up to date, the others miss what it has.  A pending frame gives way.
Stale(filled) ==
    [o \in DOMAIN obufs |->
        IF o = filled THEN [obufs[o] EXCEPT !.fresh = FALSE, !.stale = {}, !.state = "pending", !.img = CopyDone]
        ELSE [obufs[o] EXCEPT !.stale = @ \union FrameDamage,
                              !.state = IF @ = "pending" THEN "free" ELSE @]]

\* The damage of the frame to take, with that of a frame never taken.
PendingDamage ==
    (IF ocopy.full THEN OutputTiles ELSE FrameDamage)
        \union (IF InState(obufs, "pending") # {} THEN ocopy.damage ELSE {})

CopyReady ==
    /\ ocopy.inflight /\ ~ocopy.closed
    /\ obufs[Capturing].size = oscreen.size
    /\ oscreen.changed # {} \/ ocopy.whole
    /\ oscreen' = [oscreen EXCEPT !.changed = {}]
    /\ Continue(Stale(Capturing),
                [ocopy EXCEPT !.inflight = FALSE, !.failures = 0, !.full = FALSE, !.whole = FALSE,
                              !.damage = PendingDamage, !.size = obufs[Capturing].size, !.wake = TRUE])
    /\ UNCHANGED osess

\* abandon_capture()
Abandoned == [obufs EXCEPT ![Capturing].state = "free", ![Capturing].fresh = TRUE]

\* fail(): the wake descriptor stays readable.
Fail(copy) == [copy EXCEPT !.closed = TRUE, !.wake = TRUE]

\* ext_failed() and screencopy's failed: the buffer is outdated, the session was stopped, or
\* the copy failed for its own reasons.
CaptureFailed ==
    /\ ocopy.inflight /\ ~ocopy.closed
    /\ oscreen.faults < CopyFaults \/ obufs[Capturing].size # oscreen.size
    /\ oscreen' = [oscreen EXCEPT !.faults = IF obufs[Capturing].size # oscreen.size THEN @ ELSE @ + 1]
    /\ LET copy == [ocopy EXCEPT !.inflight = FALSE, !.failures = @ + 1]
       IN Continue(Abandoned, IF copy.failures >= MaxCaptureFailures THEN Fail(copy) ELSE copy)
    /\ UNCHANGED osess

CaptureStopped ==
    /\ ocopy.inflight /\ ~ocopy.closed /\ oscreen.faults < CopyFaults
    /\ oscreen' = [oscreen EXCEPT !.faults = @ + 1]
    /\ obufs' = Abandoned /\ ocopy' = Fail([ocopy EXCEPT !.inflight = FALSE])
    /\ UNCHANGED osess

-----------------------------------------------------------------------------
(* The session *)

HeldFreed == [b \in DOMAIN obufs |-> [obufs[b] EXCEPT !.state = IF @ = "held" THEN "free" ELSE @]]
Applied(img) == [t \in OutputTiles |-> IF t \in ocopy.damage THEN img[t] ELSE osess.tiles[t]]

\* take_frame(): the session copies the damaged tiles of the frame.
TakeOutputFrame ==
    /\ ocopy.wake
    /\ LET pending == InState(obufs, "pending")
           b == CHOOSE p \in pending : TRUE
           copy == [ocopy EXCEPT !.wake = ocopy.closed]
       IN IF pending = {} THEN ocopy' = copy /\ UNCHANGED <<obufs, osess, oscreen>>
          ELSE /\ osess' = [tiles |-> Applied(obufs[b].img), size |-> obufs[b].size]
               /\ UNCHANGED oscreen
               /\ Continue([HeldFreed EXCEPT ![b].state = "held"], [copy EXCEPT !.damage = {}])

ReleaseOutputFrame ==
    /\ InState(obufs, "held") # {}
    /\ UNCHANGED <<oscreen, osess>>
    /\ Continue(HeldFreed, ocopy)

OutputNext ==
    \/ \E p \in CopyProtocols : StartOutput(p)
    \/ \E t \in OutputTiles : Draw(t)
    \/ OutputResize \/ CopyReady \/ CaptureFailed \/ CaptureStopped \/ TakeOutputFrame \/ ReleaseOutputFrame

\* The compositor answers captures, and the session's thread runs.
OutputSpec ==
    /\ OutputInit /\ [][OutputNext]_outputVars
    /\ WF_ocopy(\E p \in CopyProtocols : StartOutput(p))
    /\ WF_ocopy(CopyReady \/ (CaptureFailed /\ obufs[Capturing].size # oscreen.size))
    /\ WF_ocopy(TakeOutputFrame)

-----------------------------------------------------------------------------
(* Properties *)

\* A buffer holds what the compositor showed at the copy, also where only part of it was copied:
\* what is stale in it covers every difference to the newest frame.
BuffersAreWhole ==
    \A b \in DOMAIN obufs : ~obufs[b].fresh /\ obufs[b].size = oscreen.size
        => \A t \in OutputTiles \ (obufs[b].stale \union oscreen.changed) : obufs[b].img[t] = oscreen.tiles[t]

\* With three buffers, one for each use, a capture is always on its way: the session's hold on a
\* frame never stops the capture.
AlwaysCapturing == ocopy.protocol # "none" /\ ~ocopy.closed => ocopy.inflight

\* Once the screen rests the session has it, or the capture closed and the session can tell
\* (or it never started).
OutputSettles ==
    <>[](\/ ocopy.protocol = "none" \/ (ocopy.closed /\ ocopy.wake)
         \/ osess.tiles = oscreen.tiles /\ osess.size = oscreen.size)

\* Output capture: a buffer handed on is whole, and a capture is always
\* under way.
OutputCaptureCorrect ==
    /\ BuffersAreWhole
    /\ AlwaysCapturing
=============================================================================
