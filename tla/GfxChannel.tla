---- MODULE GfxChannel ----
(***************************************************************************)
(* The server side of the graphics channel (channels/rdpgfx_server.cpp)    *)
(* and a client at the other end, with PDUs in flight both ways:           *)
(* capabilities, which the client may exchange again at any time,          *)
(* surfaces, codec contexts, frames and their acknowledgements, and the    *)
(* bitmap cache.  The caller issues any command whose assertions hold.     *)
(* Pixels, rectangles and codecs are left out.                             *)
(***************************************************************************)
EXTENDS Integers, Sequences, SequencesExt, FiniteSetsExt

CONSTANTS
    GfxSurfaces,   \* bound: surfaces at a time
    PipelineCommands,   \* bound: commands and repeated Caps Advertise, together
    GfxTransit     \* bound: PDUs on the way, each direction

VARIABLES gfx, gfxOut, gfxIn, gfxClient

gfxChannelVars == <<gfx, gfxOut, gfxIn, gfxClient>>

\* ---- capabilities ------------------------------------------------------

\* preferred_versions, the ones that differ here: 8.0, 10.3 and 10.7
Preferred == <<107, 103, 80>>
\* negotiate: the highest both sides know
Negotiate(offered) == SelectSeq(Preferred, LAMBDA v : v \in offered)
\* derive: 10.3 has the small cache.
MaxCacheSlots(v) == IF v = 103 THEN 1 ELSE 2
MaxCacheBytes(v) == IF v = 103 THEN 2 ELSE 3
\* After which a client may advertise again
MayRepeat(v) == v >= 103

FreeCache == [key |-> 0, bytes |-> 0]
NewGfx == [state |-> "wait", version |-> 0, graphics |-> FALSE, surfaces |-> {}, contexts |-> {}, inFrame |-> FALSE,
           unacked |-> << >>, suspended |-> FALSE, cache |-> << >>, hint |-> 0, next |-> 1, commands |-> 0]
NewGfxClient == [state |-> "offering", version |-> 0, graphics |-> FALSE, surfaces |-> {}, contexts |-> {}, inFrame |-> FALSE,
              cache |-> [slot \in 1..2 |-> FreeCache], quiet |-> FALSE, wrong |-> FALSE]
GfxInit == gfx = NewGfx /\ gfxOut = << >> /\ gfxIn = << >> /\ gfxClient = NewGfxClient

Used(cache) == {i \in DOMAIN cache : cache[i].key /= 0}
CacheBytes(cache) == FoldLeft(LAMBDA acc, entry : acc + entry.bytes, 0, cache)

\* ---- what the client sends ---------------------------------------------

\* reset_protocol: frames go on being counted.
ResetProtocol(g) == [NewGfx EXCEPT !.state = g.state, !.version = g.version, !.commands = g.commands, !.next = g.next]
\* on_caps_advertise
OnCapsAdvertise(g, offered) ==
    IF (g.state = "ready" /\ ~MayRepeat(g.version)) \/ Negotiate(offered) = << >> THEN [g EXCEPT !.state = "failed"]
    ELSE [(IF g.state = "ready" THEN ResetProtocol(g) ELSE g) EXCEPT !.state = "ready", !.version = Negotiate(offered)[1]]
\* on_frame_acknowledge: it settles all before it; SUSPEND settles all there are.
OnFrameAck(g, frame, suspend) ==
    IF suspend THEN [g EXCEPT !.suspended = TRUE, !.unacked = << >>]
    ELSE [g EXCEPT !.suspended = FALSE,
                   !.unacked = IF frame \in Range(@) THEN SelectSeq(@, LAMBDA f : f > frame) ELSE @]
\* receive, handle_pdu
GfxReceives ==
    /\ gfxIn /= << >> /\ gfxIn' = Tail(gfxIn) /\ UNCHANGED gfxClient
    /\ LET pdu == gfxIn[1]
           g == CASE pdu.kind = "advertise" -> OnCapsAdvertise(gfx, pdu.offered)
                  [] pdu.kind = "ack" -> IF gfx.state = "ready" THEN OnFrameAck(gfx, pdu.frame, pdu.suspend)
                                         ELSE [gfx EXCEPT !.state = "failed"]
       IN  /\ gfx' = g
           /\ gfxOut' = IF pdu.kind = "advertise" /\ g.state = "ready"
                        THEN Append(gfxOut, [kind |-> "confirm", version |-> g.version]) ELSE gfxOut

\* ---- commands ----------------------------------------------------------

\* usable, send
Commands(g, pdu) ==
    /\ gfx.state = "ready" /\ gfx.commands < PipelineCommands /\ Len(gfxOut) < GfxTransit
    /\ gfx' = [g EXCEPT !.commands = @ + 1] /\ gfxOut' = Append(gfxOut, pdu) /\ UNCHANGED <<gfxIn, gfxClient>>
\* The surfaces' contexts are kept.
ContextsKept(g) == g.contexts
\* reset_graphics: the client resets its codecs.
ContextsAfterReset(g) == {}
ResetGraphics ==
    /\ ~gfx.inFrame /\ ~gfx.graphics
    /\ Commands([gfx EXCEPT !.graphics = TRUE, !.contexts = ContextsAfterReset(gfx)], [kind |-> "reset"])
\* The output changes its size.
ResizeGraphics ==
    /\ ~gfx.inFrame /\ gfx.graphics
    /\ Commands([gfx EXCEPT !.contexts = ContextsAfterReset(gfx)], [kind |-> "reset"])
\* create_surface: the lowest free id
CreateSurface ==
    /\ gfx.graphics /\ Cardinality(gfx.surfaces) < GfxSurfaces
    /\ LET id == CHOOSE i \in 0..GfxSurfaces : i \notin gfx.surfaces /\ \A j \in 0..(i - 1) : j \in gfx.surfaces
       IN  Commands([gfx EXCEPT !.surfaces = @ \cup {id}], [kind |-> "create", surface |-> id])
DeleteSurface(id) ==
    /\ id \in gfx.surfaces
    /\ Commands([gfx EXCEPT !.surfaces = @ \ {id}, !.contexts = @ \ {id}], [kind |-> "delete", surface |-> id])
StartFrame ==
    ~gfx.inFrame /\ Commands([gfx EXCEPT !.inFrame = TRUE, !.next = @ + 1], [kind |-> "start", frame |-> gfx.next])
EndFrame ==
    /\ gfx.inFrame
    /\ Commands([gfx EXCEPT !.inFrame = FALSE, !.unacked = IF gfx.suspended THEN @ ELSE Append(@, gfx.next - 1)],
                [kind |-> "end", frame |-> gfx.next - 1])
\* wire_to_surface_2
WireToSurface2(id) ==
    gfx.inFrame /\ id \in gfx.surfaces /\ Commands([gfx EXCEPT !.contexts = @ \cup {id}], [kind |-> "wire", surface |-> id])
DeleteEncodingContext(id) ==
    id \in gfx.contexts /\ Commands([gfx EXCEPT !.contexts = @ \ {id}], [kind |-> "delContext", surface |-> id])
\* The slots are the ones of the first use.
CacheSlots(g) == IF g.cache = << >> THEN [i \in 1..MaxCacheSlots(g.version) |-> FreeCache] \o << >> ELSE g.cache
RoomInCache(g, bytes) ==
    CacheBytes(g.cache) + bytes <= MaxCacheBytes(g.version) /\ Cardinality(Used(g.cache)) < MaxCacheSlots(g.version)
\* surface_to_cache: the next free slot from the hint on
SurfaceToCache(id, key, bytes) ==
    /\ gfx.inFrame /\ id \in gfx.surfaces /\ key \notin {gfx.cache[i].key : i \in DOMAIN gfx.cache} /\ RoomInCache(gfx, bytes)
    /\ LET slots == CacheSlots(gfx)
           free == {i \in DOMAIN slots : slots[i].key = 0}
           after == {i \in free : i > gfx.hint}
           slot == IF after /= {} THEN Min(after) ELSE Min(free)
       IN  Commands([gfx EXCEPT !.cache = [slots EXCEPT ![slot] = [key |-> key, bytes |-> bytes]], !.hint = slot % Len(slots)],
                    [kind |-> "cache", slot |-> slot, key |-> key, bytes |-> bytes])
CacheToSurface(slot, id) ==
    /\ gfx.inFrame /\ id \in gfx.surfaces /\ slot \in Used(gfx.cache)
    /\ Commands(gfx, [kind |-> "draw", slot |-> slot, surface |-> id, key |-> gfx.cache[slot].key])
EvictCacheEntry(slot) ==
    /\ slot \in Used(gfx.cache)
    /\ Commands([gfx EXCEPT !.cache[slot] = FreeCache, !.hint = IF slot - 1 < @ THEN slot - 1 ELSE @], [kind |-> "evict", slot |-> slot])

\* ---- the client --------------------------------------------------------

\* It offers its capabilities, and throws away what comes before the answer.
ClientAdvertises ==
    /\ gfxClient.state = "offering" \/ (gfxClient.state = "ready" /\ MayRepeat(gfxClient.version))
    /\ gfx.commands < PipelineCommands /\ Len(gfxIn) < GfxTransit
    /\ \E offered \in {{80}, {80, 103}, {80, 103, 107}} :
          gfxIn' = Append(gfxIn, [kind |-> "advertise", offered |-> offered])
    /\ gfxClient' = [NewGfxClient EXCEPT !.state = "waiting"]
    /\ gfx' = [gfx EXCEPT !.commands = @ + 1] /\ UNCHANGED gfxOut
\* What a PDU does at the client, and whether it makes sense there
Makes(c, pdu) ==
    CASE pdu.kind = "reset" -> ~c.inFrame
      [] pdu.kind = "create" -> c.graphics /\ pdu.surface \notin c.surfaces
      [] pdu.kind \in {"delete", "wire"} -> pdu.surface \in c.surfaces
      [] pdu.kind = "delContext" -> pdu.surface \in c.contexts
      [] pdu.kind = "start" -> ~c.inFrame
      [] pdu.kind = "end" -> c.inFrame
      [] pdu.kind = "cache" -> /\ pdu.slot <= MaxCacheSlots(c.version) /\ c.cache[pdu.slot].key = 0
                               /\ CacheBytes(c.cache) + pdu.bytes <= MaxCacheBytes(c.version)
      [] pdu.kind = "draw" -> c.cache[pdu.slot].key = pdu.key /\ pdu.surface \in c.surfaces
      [] pdu.kind = "evict" -> c.cache[pdu.slot].key /= 0
ClientDoes(c, pdu) ==
    CASE pdu.kind = "reset" -> [c EXCEPT !.graphics = TRUE, !.contexts = {}]
      [] pdu.kind = "create" -> [c EXCEPT !.surfaces = @ \cup {pdu.surface}]
      [] pdu.kind = "delete" -> [c EXCEPT !.surfaces = @ \ {pdu.surface}, !.contexts = @ \ {pdu.surface}]
      [] pdu.kind = "wire" -> [c EXCEPT !.contexts = @ \cup {pdu.surface}]
      [] pdu.kind = "delContext" -> [c EXCEPT !.contexts = @ \ {pdu.surface}]
      [] pdu.kind \in {"start", "end"} -> [c EXCEPT !.inFrame = pdu.kind = "start"]
      [] pdu.kind = "cache" -> [c EXCEPT !.cache[pdu.slot] = [key |-> pdu.key, bytes |-> pdu.bytes]]
      [] pdu.kind = "draw" -> c
      [] pdu.kind = "evict" -> [c EXCEPT !.cache[pdu.slot] = FreeCache]
\* A frame's end is acknowledged, or the client says it will acknowledge no more,
\* or is silent since it said so; one acknowledgement may stand for several.
GfxClientTakes(pdu, answer) ==
    /\ gfxClient' = [ClientDoes(gfxClient, pdu) EXCEPT !.wrong = @ \/ ~Makes(gfxClient, pdu),
                        !.quiet = IF answer = "no" THEN @ ELSE answer = "suspend"]
    /\ gfxIn' = IF answer = "no" THEN gfxIn
                ELSE Append(gfxIn, [kind |-> "ack", frame |-> pdu.frame, suspend |-> answer = "suspend"])
GfxClientReads ==
    /\ gfxOut /= << >> /\ gfxOut' = Tail(gfxOut) /\ UNCHANGED gfx
    /\ LET pdu == gfxOut[1]
       IN  CASE pdu.kind = "confirm" ->
                    /\ gfxClient' = [gfxClient EXCEPT !.state = "ready", !.version = pdu.version] /\ UNCHANGED gfxIn
             [] pdu.kind /= "confirm" /\ gfxClient.state /= "ready" -> UNCHANGED <<gfxClient, gfxIn>>
             [] pdu.kind = "end" /\ gfxClient.state = "ready" ->
                    /\ Len(gfxIn) < GfxTransit
                    /\ \E answer \in {"ack", "suspend"} \cup (IF gfxClient.quiet \/ \E i \in 2..Len(gfxOut) : gfxOut[i].kind = "end" THEN {"no"} ELSE {}) :
                          GfxClientTakes(pdu, answer)
             [] pdu.kind \notin {"confirm", "end"} /\ gfxClient.state = "ready" -> GfxClientTakes(pdu, "no")

GfxNext ==
    \/ GfxReceives \/ GfxClientReads \/ ClientAdvertises
    \/ ResetGraphics \/ ResizeGraphics \/ CreateSurface \/ StartFrame \/ EndFrame
    \/ \E id \in 0..(GfxSurfaces - 1) :
          \/ DeleteSurface(id) \/ WireToSurface2(id) \/ DeleteEncodingContext(id)
          \/ \E key \in 1..2, bytes \in 1..2 : SurfaceToCache(id, key, bytes)
          \/ \E slot \in 1..2 : CacheToSurface(slot, id)
    \/ \E slot \in 1..2 : EvictCacheEntry(slot)

GfxSpec == GfxInit /\ [][GfxNext]_gfxChannelVars

\* ---- properties --------------------------------------------------------

\* A client that plays by the rules gets nothing it cannot do, and is never
\* taken to have broken them, however often it advertises its capabilities
\* again and whatever is still on the way then.
NothingClientCannotDo == ~gfxClient.wrong /\ gfx.state /= "failed"

\* When nothing is on the way, the server's surfaces, contexts and cache are
\* the client's.
ServerKnowsClient ==
    gfxOut = << >> /\ gfxIn = << >> /\ gfxClient.state = "ready" =>
        /\ gfx.surfaces = gfxClient.surfaces /\ gfx.contexts = gfxClient.contexts /\ gfx.inFrame = gfxClient.inFrame
        /\ \A slot \in 1..2 : gfxClient.cache[slot] = IF slot \in DOMAIN gfx.cache THEN gfx.cache[slot] ELSE FreeCache

\* When nothing is on the way no frame is taken to be in flight, whichever
\* acknowledgements the client left out or stopped sending: the pacing never
\* waits for an acknowledgement that will not come.
NoFrameStaysInFlight == gfxOut = << >> /\ gfxIn = << >> => gfx.unacked = << >>

\* The graphics channel asks nothing the client cannot do, what the server
\* believes of the client's state is so, and no frame stays in flight.
GfxChannelCorrect ==
    /\ NothingClientCannotDo
    /\ ServerKnowsClient
    /\ NoFrameStaysInFlight
====
