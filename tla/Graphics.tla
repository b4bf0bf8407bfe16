------------------------------ MODULE Graphics ------------------------------
(***************************************************************************)
(* The GraphicsPipeline (server/graphics_pipeline.cpp) of one screen: what *)
(* it remembers of every tile, which codec a changed tile gets, and what   *)
(* the client's surface shows for it.  A tile's pixels are a picture of a  *)
(* small set; how far a codec's loss distorts them is not followed.  The   *)
(* tiles are one column, from the top.                                     *)
(***************************************************************************)
EXTENDS Integers, FiniteSets

CONSTANTS
    NTiles,           \* tiles of the screen
    Pictures,         \* what a tile may show
    FewColours,       \* the pictures with few enough colours for ClearCodec
    TileCodecs,       \* what create_encoders() may end up with
    VideoRegions,     \* PipelineOptions::video_regions
    DirectTiles,      \* PipelineOptions::direct_tiles
    MinVideoTiles,    \* PipelineOptions::min_video_tiles
    MinRunningVideoTiles,
    VideoIdleFrames,  \* PipelineOptions::video_idle_frames
    StillFrames,      \* PipelineOptions::still_frames
    MotionMax,        \* motion_max; a change counts 2, a frame without one 1
    MotionHot,        \* motion_hot
    MinScrollTiles,   \* min_scroll_tiles
    GreyPictures,     \* the pictures whose chroma is flat: no chroma view is owed
    Drops             \* what may fail or drop a picture: the encoder of an AVC420 or
                      \* AVC444 surface, or of video regions

Tiles == 1..NTiles
Black == "black"
Mixed == "luma and chroma of two pictures"

ASSUME GraphicsAssumption ==
    /\ NTiles \in Nat \ {0} /\ FewColours \subseteq Pictures
    /\ {Black, Mixed} \cap Pictures = {}
    /\ TileCodecs \subseteq {"progressive", "planar", "avc420", "avc444"}
    /\ Drops \subseteq {"avc420", "avc444", "video"} /\ GreyPictures \subseteq Pictures
    /\ MotionHot \in 1..MotionMax /\ StillFrames \in Nat

VARIABLES
    desk,       \* the picture the desktop shows, by tile
    pipe,       \* the pipeline and the Screen's flags
    tile,       \* what the Screen keeps for every tile
    client      \* the picture the client's surface shows, by tile

gfxVars == <<desk, pipe, tile, client>>

(* A tile as lay_out() makes it.  ladder: the picture of the TileState the *)
(* Progressive encoder holds for it, when the client has less than full    *)
(* quality and an upgrade made from it is owed; Black without a state.     *)
FreshTile ==
    [pic |-> Black, dirty |-> TRUE, exact |-> FALSE, fromVideo |-> FALSE,
     motion |-> 0, still |-> 0, ladder |-> Black, chroma |-> FALSE]

NoPipe == [state |-> "none", codec |-> "none", stale |-> FALSE, video |-> "none", idle |-> 0]

GraphicsInit ==
    /\ desk = [t \in Tiles |-> CHOOSE p \in Pictures : TRUE]
    /\ pipe = NoPipe
    /\ tile = [t \in Tiles |-> FreshTile]
    /\ client = [t \in Tiles |-> Black]

GraphicsTypeOK ==
    /\ desk \in [Tiles -> Pictures]
    /\ pipe.state \in {"none", "waiting", "ready"}
    /\ pipe.codec \in TileCodecs \cup {"none"}
    /\ pipe.video \in {"none", "running", "unavailable"} /\ pipe.idle \in 0..VideoIdleFrames
    /\ \A t \in Tiles : /\ tile[t].motion \in 0..MotionMax /\ tile[t].still \in 0..StillFrames
                        /\ {tile[t].pic, tile[t].ladder, client[t]} \subseteq Pictures \cup {Black}

(***************************************************************************)
(* The Progressive encoder's part of a tile (codec/progressive_encoder).   *)
(***************************************************************************)

(* encode() with Pass::refined leaves a state behind; with Pass::direct,   *)
(* and for a tile whose first pass is complete, none.                      *)
FirstPass(T, area, f) ==
    [t \in Tiles |-> IF t \in area THEN [T[t] EXCEPT !.ladder = f[t]] ELSE T[t]]

(* discard(): other codecs paint the area now.  Mutant: the state stays,   *)
(* and an upgrade paints over what they sent.                              *)
KeepState(T, area) == T

Discard(T, area) == [t \in Tiles |-> IF t \in area THEN [T[t] EXCEPT !.ladder = Black] ELSE T[t]]

Encode(T, area, climbing, f) == FirstPass(Discard(T, area), climbing, f)

PendingTiles(T) == {t \in Tiles : T[t].ladder # Black}

(***************************************************************************)
(* What the frame asks for.                                                *)
(***************************************************************************)

(* changed_tiles in add_frame(): marked, or different from what was sent.  *)
Changed(T, f) == {t \in Tiles : T[t].dirty \/ T[t].pic # f[t]}

MarkDirty(T, area) == [t \in Tiles |-> IF t \in area THEN [T[t] EXCEPT !.dirty = TRUE] ELSE T[t]]

(* A dmabuf picture went out that `previous' never saw.                    *)
Distrust(T) == IF pipe.stale THEN MarkDirty(T, Tiles) ELSE T

Least(a, b) == IF a < b THEN a ELSE b

AgeTiles(T, moved) ==
    [t \in Tiles |->
        IF t \in moved THEN [T[t] EXCEPT !.motion = Least(MotionMax, @ + 2), !.still = 0]
        ELSE [T[t] EXCEPT !.motion = IF @ > 1 THEN @ - 1 ELSE 0,
                          !.still = Least(StillFrames, @ + 1)]]

(* reclaim_video_tiles(): what H.264 painted and moves no more.            *)
ReclaimVideoTiles(T, all) ==
    [t \in Tiles |->
        IF T[t].fromVideo /\ (all \/ T[t].motion < MotionHot)
        THEN [T[t] EXCEPT !.fromVideo = FALSE, !.dirty = TRUE, !.exact = FALSE, !.motion = 0]
        ELSE T[t]]

(* Tiles that owe an exact copy once they stand still.                     *)
ExactOwed(T) == {t \in Tiles : ~T[t].exact /\ ~T[t].dirty /\ T[t].motion < MotionHot /\ T[t].ladder = Black}

HasPendingRefinement ==
    \/ pipe.codec = "avc444" /\ \E t \in Tiles : tile[t].chroma
    \/ pipe.codec = "progressive" /\ (PendingTiles(tile) # {} \/ ExactOwed(tile) # {})

(* The strips of the changed area that show what stood d tiles higher (or  *)
(* lower) before; detect_vertical_scroll() may find one of them.           *)
Strips(T, f) ==
    {s \in [area : SUBSET Tiles, d : {-1, 1}] :
        /\ s.area # {}
        /\ \A t \in s.area : t - s.d \in Tiles /\ f[t] = T[t - s.d].pic
        /\ \E t \in s.area : T[t].pic # f[t]
        /\ \A t, u \in s.area : \A v \in t..u : v \in s.area}

MayScroll(T, f) == Cardinality(Changed(T, f)) >= MinScrollTiles /\ \A t \in Tiles : ~T[t].dirty

(* apply_scroll() on `previous', and the Progressive state given up.       *)
ScrollPrevious(T, s) ==
    Discard([t \in Tiles |-> IF t \in s.area THEN [T[t] EXCEPT !.pic = T[t - s.d].pic] ELSE T[t]], s.area)

(* What a SurfaceToSurface copy does at the client.                        *)
Copied(C, s) == [t \in Tiles |-> IF t \in s.area THEN C[t - s.d] ELSE C[t]]

Paint(C, area, f) == [t \in Tiles |-> IF t \in area THEN f[t] ELSE C[t]]

(* upgrade(): a TILE_UPGRADE adds what the coefficients kept for the tile   *)
(* still lack, whatever the client shows by now.                           *)
Upgrade(C, up, T) == Paint(C, up, [t \in Tiles |-> T[t].ladder])

VideoFloor ==
    IF pipe.video # "running" THEN MinVideoTiles
    ELSE IF MinVideoTiles \div 2 > MinRunningVideoTiles THEN MinVideoTiles \div 2
    ELSE MinRunningVideoTiles

Few(f) == {t \in Tiles : f[t] \in FewColours}

VideoTiles(T, changed, f) ==
    LET moving == {t \in changed \ Few(f) : T[t].motion >= MotionHot}
    IN IF VideoRegions /\ pipe.video # "unavailable" /\ Cardinality(moving) >= VideoFloor
       THEN moving ELSE {}

(* send_video_tiles() without tiles: the encoder idles, and goes.          *)
VideoIdles == pipe.video = "running" /\ pipe.idle + 1 >= VideoIdleFrames

IdlePipe ==
    CASE VideoIdles -> [pipe EXCEPT !.video = "none", !.idle = 0]
      [] pipe.video = "running" /\ ~VideoIdles -> [pipe EXCEPT !.idle = @ + 1]
      [] pipe.video # "running" -> pipe

IdleTiles(T) == IF VideoIdles THEN ReclaimVideoTiles(T, TRUE) ELSE T

(* send_video_tiles() with tiles, and ensure_video_encoder() in it.        *)
VideoOutcomes(moving) ==
    IF moving = {} THEN {"idle"} ELSE {"sent"} \cup (IF "video" \in Drops THEN {"fails", "dropped"} ELSE {})

VideoPipe(outcome) ==
    CASE outcome = "idle" -> IdlePipe
      [] outcome = "fails" -> [pipe EXCEPT !.video = "unavailable", !.idle = 0]
      [] outcome \in {"sent", "dropped"} -> [pipe EXCEPT !.video = "running", !.idle = 0]

SendVideoTiles(T, moving, outcome) ==
    CASE outcome = "idle" -> IdleTiles(T)
      [] outcome = "sent" ->
            Discard([t \in Tiles |-> IF t \in moving THEN [T[t] EXCEPT !.fromVideo = TRUE] ELSE T[t]], moving)
      [] outcome \in {"fails", "dropped"} -> T

RememberTiles(T, area, f) ==
    [t \in Tiles |-> IF t \in area THEN [T[t] EXCEPT !.pic = f[t], !.dirty = FALSE] ELSE T[t]]

MarkExact(T, area, is) == [t \in Tiles |-> IF t \in area THEN [T[t] EXCEPT !.exact = is] ELSE T[t]]

(* send_exact() skips what still climbs the ladder, moves or is marked.    *)
ExactReady(T) == {t \in ExactOwed(T) : T[t].still >= StillFrames}

(* The bytes a frame has left for refinement and for the lossless pass:    *)
(* any part of what is owed, but when nothing else went out, some of it.   *)
WithinBudget(owed, alone) == IF alone THEN SUBSET owed \ ({{}} \ {owed}) ELSE SUBSET owed

(***************************************************************************)
(* add_frame() on a Progressive surface, from the tiles T on which a       *)
(* scroll was applied, and the client's surface C after it.                *)
(***************************************************************************)
MixedFrame(T, C, f) ==
    LET changed == Changed(T, f)
        moving == VideoTiles(T, changed, f)
        text == Few(f) \cap (changed \ moving)
        rest == changed \ (moving \cup text)
        climbing == IF Cardinality(changed) <= DirectTiles THEN {} ELSE rest
    IN \E outcome \in VideoOutcomes(moving), complete \in SUBSET climbing :
       LET T1 == Discard(SendVideoTiles(T, moving, outcome), text)
           T2 == Encode(T1, rest, climbing \ complete, f)
           C1 == IF outcome = "sent" THEN Paint(C, moving, f) ELSE C
           C2 == Paint(Paint(C1, text, f), rest, f)
       IN \E up \in WithinBudget(PendingTiles(T2) \ changed, changed = {}) :
          LET T3 == MarkExact(MarkExact(Discard(T2, up), changed, FALSE), text, TRUE)
              C3 == Upgrade(C2, up, T2)
          IN \E exactly \in WithinBudget(ExactReady(T3), changed = {} /\ up = {}) :
                /\ tile' = RememberTiles(MarkExact(Discard(T3, exactly), exactly, TRUE), changed, f)
                /\ client' = Paint(C3, exactly, f)
                /\ pipe' = [VideoPipe(outcome) EXCEPT !.stale = FALSE]

(* A frame of the CPU path on the surface; sent: something went into it.   *)
ProgressiveFrame(f, sent) ==
    LET T0 == Distrust(tile)
        T == ReclaimVideoTiles(AgeTiles(T0, Changed(T0, f)), FALSE)
    IN /\ sent = ~(Changed(T, f) = {} /\ PendingTiles(T) = {} /\ ExactOwed(T) = {})
       /\ IF sent
          THEN \/ MixedFrame(T, client, f)
               \/ /\ MayScroll(T, f)
                  /\ \E s \in Strips(T, f) : MixedFrame(ScrollPrevious(T, s), Copied(client, s), f)
          ELSE tile' = T /\ pipe' = [pipe EXCEPT !.stale = FALSE] /\ UNCHANGED client

(* On a planar surface nobody asks how old a tile is.                      *)
PlanarFrame(f, sent) ==
    LET T == Distrust(tile)
        Lossless(U, C) ==
            LET changed == Changed(U, f)
            IN /\ tile' = RememberTiles(MarkExact(U, changed, TRUE), changed, f)
               /\ client' = Paint(C, changed, f)
    IN /\ sent = (Changed(T, f) # {})
       /\ \/ Lossless(T, client)
          \/ /\ MayScroll(T, f)
             /\ \E s \in Strips(T, f) : Lossless(ScrollPrevious(T, s), Copied(client, s))
       /\ pipe' = [pipe EXCEPT !.stale = FALSE]

(* send_avc420(): an IDR picture lists every tile.                         *)
Listed(area) == {area, Tiles}

Avc420Frame(f, sent) ==
    LET T == Distrust(tile)
        changed == Changed(T, f)
    IN /\ pipe' = [pipe EXCEPT !.stale = FALSE]
       /\ \/ /\ sent /\ changed # {}
             /\ \E area \in Listed(changed) : client' = Paint(client, area, f)
             /\ tile' = RememberTiles(T, changed, f)
          \/ /\ ~sent /\ (changed = {} \/ "avc420" \in Drops)
             /\ tile' = T /\ UNCHANGED client

(* Avc444Encoder::encode(): the main view of the damage, which leaves a    *)
(* tile owing its chroma view unless its chroma is flat; then the chroma   *)
(* view of every tile that owes one, held back when bandwidth is short.    *)
Chroma(C, area, f) ==
    [t \in Tiles |-> IF t \notin area THEN C[t]
                     ELSE IF C[t] = f[t] THEN f[t] ELSE Mixed]

SetChroma(T, area, is) == [t \in Tiles |-> IF t \in area THEN [T[t] EXCEPT !.chroma = is] ELSE T[t]]

Owing(T) == {t \in Tiles : T[t].chroma}

Avc444Encode(T, f, damage, sent) ==
    \/ /\ ~sent /\ (damage # {} \/ Owing(T) # {} => "avc444" \in Drops)
       /\ tile' = T /\ UNCHANGED client
    \/ /\ sent /\ damage # {}
       /\ \E luma \in {damage, Tiles}, chroma \in BOOLEAN :
          LET T1 == SetChroma(SetChroma(T, luma, TRUE), {t \in luma : f[t] \in GreyPictures}, FALSE)
              C1 == Paint(client, luma, f)
          IN /\ tile' = RememberTiles(IF chroma THEN SetChroma(T1, Owing(T1), FALSE) ELSE T1, damage, f)
             /\ client' = IF chroma THEN Chroma(C1, Owing(T1), f) ELSE C1
    \/ /\ sent /\ damage = {} /\ Owing(T) # {}
       /\ tile' = SetChroma(T, Owing(T), FALSE)
       /\ client' = Chroma(client, Owing(T), f)

Avc444Frame(f, sent) ==
    LET T == Distrust(tile)
    IN Avc444Encode(T, f, Changed(T, f), sent) /\ pipe' = [pipe EXCEPT !.stale = FALSE]

AddFrame(f, sent) ==
    \/ pipe.codec = "progressive" /\ ProgressiveFrame(f, sent)
    \/ pipe.codec = "planar" /\ PlanarFrame(f, sent)
    \/ pipe.codec = "avc420" /\ Avc420Frame(f, sent)
    \/ pipe.codec = "avc444" /\ Avc444Frame(f, sent)

(* add_dmabuf_frame(): no pixels to compare, so the capture's damage marks *)
(* the tiles, and they stay marked until a frame carries them.  What       *)
(* `previous' holds is not looked at while it is stale: Black here.        *)
AddDmabufFrame(f, damage, sent) ==
    LET T == MarkDirty(tile, damage)
        marked == {t \in Tiles : T[t].dirty}
    IN \/ /\ sent /\ marked # {}
          /\ \E area \in Listed(marked) : client' = Paint(client, area, f)
          /\ tile' = [t \in Tiles |-> [T[t] EXCEPT !.dirty = FALSE, !.pic = Black]]
          /\ pipe' = [pipe EXCEPT !.stale = TRUE]
       \/ /\ ~sent /\ (marked = {} \/ "avc420" \in Drops)
          /\ tile' = T /\ UNCHANGED <<pipe, client>>

(* end_frame() for a screen without a picture in the frame:                *)
(* refine_still_screen().                                                  *)
Previous == [t \in Tiles |-> tile[t].pic]

RefineStillScreen(sent) ==
    \/ /\ pipe.codec = "progressive"
       /\ LET T == ReclaimVideoTiles(IdleTiles(AgeTiles(tile, {})), FALSE)
          IN \E up \in WithinBudget(PendingTiles(T), TRUE) :
             LET T1 == Discard(T, up)
             IN \E exactly \in IF pipe.stale THEN {{}} ELSE WithinBudget(ExactReady(T1), up = {}) :
                   /\ sent = (up \cup exactly # {})
                   /\ tile' = MarkExact(Discard(T1, exactly), exactly, TRUE)
                   /\ client' = Paint(Upgrade(client, up, T), exactly, Previous)
       /\ pipe' = IdlePipe
    \/ /\ pipe.codec = "avc444" /\ ~pipe.stale /\ Owing(tile) # {}
       /\ Avc444Encode(tile, Previous, {}, sent) /\ UNCHANGED pipe
    \/ /\ pipe.codec # "progressive" /\ (pipe.codec = "avc444" => pipe.stale \/ Owing(tile) = {})
       /\ ~sent /\ UNCHANGED <<pipe, tile, client>>

(* lay_out() and create_encoders(): new surfaces, which the client clears. *)
CreateEncoders == \E c \in TileCodecs : pipe' = [NoPipe EXCEPT !.state = "ready", !.codec = c]

LayOut ==
    /\ CreateEncoders
    /\ tile' = [t \in Tiles |-> FreshTile]
    /\ client' = [t \in Tiles |-> Black]

(* invalidate_all(): everything goes out again.                            *)
InvalidateAll(T) ==
    [t \in Tiles |-> [T[t] EXCEPT !.dirty = TRUE, !.exact = FALSE, !.fromVideo = FALSE]]
=============================================================================
