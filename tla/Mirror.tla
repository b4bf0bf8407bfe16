------------------------------- MODULE Mirror -------------------------------
(***************************************************************************)
(* What remote display promises, tile by tile: the client shows nothing,   *)
(* or a picture the desktop showed, and a tile only ever changes to what   *)
(* the desktop shows now.  It may lag behind; it never goes back.          *)
(***************************************************************************)
CONSTANTS MirrorTiles, MirrorPictures, Nothing

VARIABLES
    source,     \* the desktop's picture, by tile
    shown       \* the client's, or Nothing

MirrorInit ==
    /\ source \in [MirrorTiles -> MirrorPictures]
    /\ shown = [t \in MirrorTiles |-> Nothing]

Change == source' \in [MirrorTiles -> MirrorPictures] /\ UNCHANGED shown

Catch(area) ==
    /\ shown' = [t \in MirrorTiles |-> IF t \in area THEN source[t] ELSE shown[t]]
    /\ UNCHANGED source

Blank == shown' = [t \in MirrorTiles |-> Nothing] /\ UNCHANGED source

MirrorNext == Change \/ (\E area \in SUBSET MirrorTiles : Catch(area)) \/ Blank

MirrorSpec == MirrorInit /\ [][MirrorNext]_<<source, shown>>
=============================================================================
