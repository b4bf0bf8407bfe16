------------------------------- MODULE Picture -------------------------------
(***************************************************************************)
(* The Picture of a DesktopSession (apps/farland-server/desktop_session)   *)
(* with its FrameScheduler: captured frames, the frame clock, the client's *)
(* acknowledgements, and the way between bitmap updates (FrameEncoder) and *)
(* the Graphics Pipeline, whose state Graphics holds.  One screen that the *)
(* client shows at its size.                                               *)
(***************************************************************************)
EXTENDS Graphics

CONSTANTS
    MaxInFlight,      \* max_frames_in_flight
    Dmabufs           \* zero copy is on and the AVC420 encoder takes dmabufs

ASSUME PictureAssumption == MaxInFlight \in Nat \ {0} /\ Dmabufs \in BOOLEAN

VARIABLES
    screen,     \* the session's Screen: a frame came; it has not gone out; as a dmabuf
                \* with which damage
    sched,      \* the scheduler: frames in flight, pending_, suspended_
    supp,       \* suppressed_
    grace,      \* gfx_wait_until_ is set
    bmp         \* the FrameEncoder's previous_ and dirty_, by tile

pictureVars == <<gfxVars, screen, sched, supp, grace, bmp>>

NoSched == [on |-> FALSE, pend |-> FALSE, flight |-> 0, susp |-> FALSE]

(* From activated() on: a fresh FrameEncoder, and a client that advertised *)
(* the Graphics Pipeline gets a moment to open it.                         *)
PictureInit ==
    /\ GraphicsInit
    /\ screen = [has |-> FALSE, dirty |-> FALSE, dmabuf |-> FALSE, damage |-> {}]
    /\ sched = NoSched
    /\ supp = FALSE /\ grace = TRUE
    /\ bmp = [t \in Tiles |-> [pic |-> Black, dirty |-> TRUE]]

(* The state's types; no more than max_frames_in_flight frames are waited  *)
(* for, and only the pipeline has a scheduler.                             *)
PictureTypeOK ==
    /\ GraphicsTypeOK
    /\ screen.damage \subseteq Tiles
    /\ sched.flight \in 0..MaxInFlight
    /\ sched.on = (pipe.state = "ready")

GfxReady == pipe.state = "ready"

(* frame_interval() never ends the session; damage() is one flag.          *)
Damage(q) == IF q.on THEN [q EXCEPT !.pend = TRUE] ELSE q

(* choose_frame_access(): dmabufs only for an AVC420 surface, and none     *)
(* after the encoder refused a few.                                        *)
TakesDmabufs == Dmabufs /\ GfxReady /\ pipe.codec = "avc420"

(* on_frame(): the newest frame replaces the last, its damage adds up (and *)
(* is followed here while something can use it).                           *)
OnFrame(f) ==
    /\ desk' = f
    /\ \E dmabuf \in IF TakesDmabufs THEN BOOLEAN ELSE {FALSE} :
        LET damage == IF ~screen.has THEN Tiles ELSE {t \in Tiles : f[t] # desk[t]}
        IN screen' = [has |-> TRUE, dirty |-> TRUE, dmabuf |-> dmabuf,
                      damage |-> IF TakesDmabufs THEN screen.damage \cup damage ELSE {}]
    /\ sched' = Damage(sched)
    /\ UNCHANGED <<pipe, tile, client, supp, grace, bmp>>

(* redraw_desktop().                                                       *)
Redraw(sc) == [sc EXCEPT !.dirty = sc.has]

(* invalidate_all() of the FrameEncoder: what it remembers of a tile that   *)
(* is marked it does not look at.                                          *)
BmpInvalid(B) == [t \in Tiles |-> [pic |-> Black, dirty |-> TRUE]]

(* While the pipeline paints, which picture a bitmap tile had is all one.   *)
PastFrame == "painted before the pipeline"

(* start_graphics(), once per channel.                                     *)
StartGraphics ==
    /\ pipe.state = "none"
    /\ pipe' = [NoPipe EXCEPT !.state = "waiting"]
    /\ UNCHANGED <<desk, tile, client, screen, sched, supp, grace, bmp>>

(* The client's Caps Advertise, the first or, to start over, another one:  *)
(* lay_out(), a new scheduler, everything again.                           *)
Capabilities ==
    /\ pipe.state \in {"waiting", "ready"}
    /\ LayOut
    /\ sched' = [NoSched EXCEPT !.on = TRUE, !.pend = TRUE]
    /\ screen' = Redraw(screen)
    /\ bmp' = [t \in Tiles |-> IF bmp[t].dirty THEN bmp[t] ELSE [bmp[t] EXCEPT !.pic = PastFrame]]
    /\ UNCHANGED <<desk, supp, grace>>

(* set_layout() after a resize, by update_output().                        *)
Resize ==
    /\ GfxReady /\ LayOut
    /\ screen' = Redraw(screen) /\ sched' = Damage(sched)
    /\ bmp' = BmpInvalid(bmp)
    /\ UNCHANGED <<desk, supp, grace>>

(* The Closed event in poll_pipeline(): the client refused or closed the   *)
(* channel, broke the protocol, or an encoder failed.  Mutant: the bitmap  *)
(* encoder goes on from the picture it painted before the pipeline came.   *)
TrustBitmaps(B) == B

AfterPipeline(B) == BmpInvalid(B)

PipelineClosed ==
    /\ pipe' = NoPipe
    /\ tile' = [t \in Tiles |-> FreshTile]
    /\ sched' = NoSched
    /\ screen' = Redraw(screen)
    /\ bmp' = AfterPipeline(bmp)
    /\ UNCHANGED <<desk, client, supp, grace>>

CloseChannel == pipe.state \in {"waiting", "ready"} /\ PipelineClosed

(* A Frame Acknowledge: in order, and everything older with it; one that   *)
(* the scheduler does not know leaves the count.  A client may suspend     *)
(* acknowledgements, and take them up again with any of them.              *)
FrameAcked(left, suspend) ==
    /\ sched.on
    /\ left <= sched.flight
    /\ sched' = [sched EXCEPT !.susp = suspend, !.flight = IF suspend THEN 0 ELSE left]
    /\ UNCHANGED <<gfxVars, screen, supp, grace, bmp>>

(* What the client painted from bitmap updates it may lose; the surfaces   *)
(* of the pipeline it keeps.                                               *)
Lost(C) == IF GfxReady THEN C ELSE [t \in Tiles |-> Black]

(* refresh(): the client asks for its picture again.                       *)
Refresh ==
    /\ IF GfxReady
       THEN /\ tile' = InvalidateAll(tile) /\ screen' = Redraw(screen) /\ sched' = Damage(sched)
            /\ UNCHANGED bmp
       ELSE bmp' = BmpInvalid(bmp) /\ UNCHANGED <<tile, screen, sched>>
    /\ client' = Lost(client)
    /\ UNCHANGED <<desk, pipe, supp, grace>>

(* suppress_output(): a minimised client.                                  *)
SuppressOutput(on) ==
    /\ supp' = on
    /\ IF ~on /\ GfxReady
       THEN tile' = InvalidateAll(tile) /\ screen' = Redraw(screen) /\ sched' = Damage(sched)
       ELSE UNCHANGED <<tile, screen, sched>>
    /\ bmp' = IF on THEN bmp ELSE BmpInvalid(bmp)
    /\ client' = IF on THEN client ELSE Lost(client)
    /\ UNCHANGED <<desk, pipe, grace>>

(* expire(): the oldest frames were sent too long ago.  Mutant: an         *)
(* acknowledgement that never comes holds its place for ever.              *)
NoExpiry(left) == FALSE

Expire(left) == left < sched.flight

AckTimeout ==
    /\ sched.on
    /\ \E left \in 0..MaxInFlight :
        Expire(left) /\ sched' = [sched EXCEPT !.flight = left]
    /\ UNCHANGED <<gfxVars, screen, supp, grace, bmp>>

Due(q) == q.pend /\ (q.susp \/ q.flight < MaxInFlight)

FrameSent(q) == [q EXCEPT !.pend = FALSE, !.flight = IF q.susp THEN @ ELSE @ + 1]

(* add_screen_dmabuf().  A dmabuf the encoder refuses is read by the CPU,  *)
(* with the damage marked.                                                 *)
Taken == [screen EXCEPT !.dirty = FALSE, !.damage = {}, !.dmabuf = FALSE]

RefusedDmabuf ==
    LET T == Distrust(MarkDirty(tile, screen.damage))
    IN /\ \E area \in Listed(Changed(T, desk)) : area # {} /\ client' = Paint(client, area, desk)
       /\ tile' = RememberTiles(T, Changed(T, desk), desk)
       /\ pipe' = [pipe EXCEPT !.stale = FALSE]

AddScreenDmabuf(sent) ==
    AddDmabufFrame(desk, screen.damage, sent) \/ (sent /\ RefusedDmabuf)

(* add_screen_to_frame()                                                   *)
AddScreen(sent) ==
    \/ /\ ~screen.dirty
       /\ RefineStillScreen(sent) /\ UNCHANGED screen
    \/ /\ screen.dirty /\ screen.dmabuf /\ TakesDmabufs
       /\ AddScreenDmabuf(sent) /\ screen' = Taken
    \/ /\ screen.dirty /\ ~(screen.dmabuf /\ TakesDmabufs)
       /\ AddFrame(desk, sent) /\ screen' = Taken

(* send_gfx_frame_if_due() at a tick of the frame clock.                   *)
GfxTick ==
    /\ GfxReady /\ ~supp
    /\ LET q == [sched EXCEPT !.pend = @ \/ HasPendingRefinement]
       IN \/ /\ ~Due(q) /\ sched' = q /\ UNCHANGED <<gfxVars, screen>>
          \/ /\ Due(q) /\ UNCHANGED desk
             /\ \E sent \in BOOLEAN : AddScreen(sent) /\ sched' = IF sent THEN FrameSent(q) ELSE q
    /\ grace' = FALSE
    /\ UNCHANGED <<supp, bmp>>

(* An encoder that fails in the frame closes the pipeline.                 *)
EncoderFails ==
    /\ GfxReady /\ ~supp /\ screen.dirty
    /\ pipe.codec \in Drops
    /\ PipelineClosed

GraceOver == grace /\ grace' = FALSE /\ UNCHANGED <<gfxVars, screen, sched, supp, bmp>>

(* FrameEncoder::encode(): the tiles that are marked or differ.            *)
BitmapChanged == {t \in Tiles : bmp[t].dirty \/ bmp[t].pic # desk[t]}

BitmapEncode ==
    /\ bmp' = [t \in Tiles |-> IF t \in BitmapChanged THEN [pic |-> desk[t], dirty |-> FALSE] ELSE bmp[t]]
    /\ client' = Paint(client, BitmapChanged, desk)

(* send_frame_if_due() without the pipeline: a picture that changed.       *)
BitmapTick ==
    /\ ~GfxReady /\ ~supp /\ ~grace /\ screen.dirty
    /\ BitmapEncode
    /\ screen' = Taken
    /\ UNCHANGED <<desk, pipe, tile, sched, supp, grace>>

PictureNext ==
    \/ \E f \in [Tiles -> Pictures] : OnFrame(f)
    \/ StartGraphics \/ Capabilities \/ Resize \/ CloseChannel
    \/ \E left \in 0..MaxInFlight, suspend \in BOOLEAN : FrameAcked(left, suspend)
    \/ Refresh \/ \E on \in BOOLEAN : SuppressOutput(on)
    \/ AckTimeout \/ GfxTick \/ EncoderFails \/ GraceOver \/ BitmapTick

(* The frame clock ticks, and takes the frames that are due; frames in     *)
(* flight time out.                                                        *)
PictureSpec ==
    /\ PictureInit /\ [][PictureNext]_pictureVars
    /\ WF_screen(GfxTick) /\ WF_sched(AckTimeout)

(***************************************************************************)
(* Properties.                                                             *)
(***************************************************************************)

(* A tile that nothing marks and that was compared with what went out last *)
(* is at the client as it was sent, whichever codec painted it last and    *)
(* whatever was scrolled, refined or dropped since; so is a bitmap tile    *)
(* while bitmap updates paint.  Everything the pipeline skips, it skips on *)
(* the strength of this.                                                   *)
ClientHoldsPrevious ==
    /\ GfxReady /\ ~pipe.stale =>
          \A t \in Tiles : ~tile[t].dirty => client[t] = tile[t].pic
    /\ ~GfxReady => \A t \in Tiles : ~bmp[t].dirty => client[t] = bmp[t].pic

(* When the session owes the client nothing - no frame waits to go out -   *)
(* a Progressive or planar surface shows the desktop, in every tile.       *)
NothingOwedIsShown ==
    GfxReady /\ screen.has /\ ~screen.dirty /\ pipe.codec \in {"progressive", "planar"}
        => \A t \in Tiles : client[t] = desk[t]

(* The client's tiles follow the desktop as Mirror has it: no upgrade,     *)
(* scroll, chroma view or lossless pass brings an older picture back.      *)
Follows == INSTANCE Mirror WITH
    MirrorTiles <- Tiles, MirrorPictures <- Pictures, Nothing <- Black,
    source <- desk, shown <- client

FollowsDesktop == Follows!MirrorSpec

(* A captured frame goes out, or the client stops looking or loses the     *)
(* pipeline - even if no acknowledgement ever comes: the frame clock ticks *)
(* on and frames in flight time out.                                       *)
FrameGoesOut ==
    (GfxReady /\ ~supp /\ screen.dirty) ~> (~GfxReady \/ supp \/ ~screen.dirty)

\* The picture: its state stays in its type, the client holds what the
\* server skips on the strength of, and what is not owed is shown.
PictureCorrect ==
    /\ PictureTypeOK
    /\ ClientHoldsPrevious
    /\ NothingOwedIsShown
=============================================================================
