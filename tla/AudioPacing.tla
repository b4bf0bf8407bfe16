---- MODULE AudioPacing ----
(***************************************************************************)
(* The flow control of audio output (server/audio_playback.cpp, and the    *)
(* block numbers of channels/rdpsnd_server.cpp): packets sent and not yet  *)
(* confirmed, the lowest backlog seen lately, the limit that follows from  *)
(* it, confirmations that come late, twice or never, and silence.  Time    *)
(* counts packets; sound is captured in bursts.                            *)
(***************************************************************************)
EXTENDS Integers, Sequences, SequencesExt, FiniteSetsExt

CONSTANTS
    MaxBacklog, MinLimit, HardLimit,   \* of AudioPlaybackOptions, in packets
    ConfirmTimeout, SilenceTimeout,
    FloorWindow, MaxPending,           \* floor_window and max_pending
    BlockModulus,                      \* 256
    PaceTime                           \* bound: packets captured

ASSUME PacingAssumption == 0 < MinLimit /\ MinLimit <= HardLimit /\ HardLimit < BlockModulus

VARIABLES pace, paceDown, paceUp

paceVars == <<pace, paceDown, paceUp>>

\* A floor there is none of
NoFloor == -1
\* `sent' counts the packets that went out and `early' marks a confirmation
\* taken for a later packet: no part of the program.
PaceInit ==
    /\ pace = [inFlight |-> << >>, block |-> BlockModulus - 1, floor |-> NoFloor, floorBefore |-> NoFloor, since |-> 0,
               silent |-> 0, idle |-> FALSE, time |-> 0, sent |-> 0, early |-> FALSE]
    /\ paceDown = << >> /\ paceUp = << >>

\* unconfirmed
Unconfirmed(p) == Len(p.inFlight)
LowestFloor(p) ==
    IF p.floorBefore /= NoFloor /\ (p.floor = NoFloor \/ p.floorBefore < p.floor) THEN p.floorBefore ELSE p.floor
AtLeast(a, b) == IF a < b THEN b ELSE a
NoMoreThan(a, b) == IF a > b THEN b ELSE a
\* should_drop's limit
BacklogLimit(p) ==
    IF LowestFloor(p) = NoFloor THEN MinLimit ELSE NoMoreThan(AtLeast(LowestFloor(p) + MaxBacklog, MinLimit), HardLimit)
\* should_drop's first loop: what was never confirmed is given up.
GiveUpLost(p) ==
    LET late == Cardinality({i \in DOMAIN p.inFlight : \A j \in 1..i : p.time - p.inFlight[j].sent > ConfirmTimeout})
    IN  [p EXCEPT !.inFlight = SubSeq(@, late + 1, Len(@))]
ShouldDrop(p) == Unconfirmed(p) + 1 > AtLeast(BacklogLimit(p), 1)
\* RdpsndServer::send_wave: the block after the last
SendWave(p) ==
    [p EXCEPT !.block = (@ + 1) % BlockModulus, !.sent = @ + 1,
              !.inFlight = Append(@, [block |-> (p.block + 1) % BlockModulus, sent |-> p.time, wave |-> p.sent + 1])]
Wave(p) == [kind |-> "wave", block |-> (p.block + 1) % BlockModulus, wave |-> p.sent + 1]
\* send_packet
SendPacket(acc, silence) ==
    LET p == [acc.p EXCEPT !.silent = IF silence THEN NoMoreThan(@ + 1, SilenceTimeout) ELSE 0, !.idle = silence /\ @]
        kept == GiveUpLost(p)
    IN  IF silence /\ p.silent >= SilenceTimeout
        THEN [p |-> [p EXCEPT !.idle = TRUE], out |-> IF p.idle THEN acc.out ELSE Append(acc.out, [kind |-> "close"])]
        ELSE IF ShouldDrop(kept) THEN [p |-> kept, out |-> acc.out]
        ELSE [p |-> SendWave(kept), out |-> Append(acc.out, Wave(kept))]
\* push: what was captured since, the oldest left out if it is too much
Push(burst, silence) ==
    /\ pace.time + burst <= PaceTime
    /\ LET pushed == FoldLeft(LAMBDA acc, n : SendPacket(acc, silence),
                              [p |-> [pace EXCEPT !.time = @ + burst], out |-> paceDown], [n \in 1..NoMoreThan(burst, MaxPending) |-> n])
       IN  pace' = pushed.p /\ paceDown' = pushed.out
    /\ UNCHANGED paceUp

\* A confirmation settles the packets before it too.
Settled(p, at) == SubSeq(p.inFlight, at + 1, Len(p.inFlight))
IsConfirmed(p, block, i) == p.inFlight[i].block = block
\* on_confirm: and the lowest backlog of the window
OnConfirm(p, m) ==
    LET found == {i \in DOMAIN p.inFlight : IsConfirmed(p, m.block, i)}
        turned == IF p.time - p.since > FloorWindow
                  THEN [p EXCEPT !.floorBefore = p.floor, !.floor = NoFloor, !.since = p.time] ELSE p
        rest == Settled(p, Min(found))
    IN  IF found = {} THEN p
        ELSE [turned EXCEPT !.inFlight = rest,
                            !.floor = IF @ = NoFloor \/ Len(rest) < @ THEN Len(rest) ELSE @,
                            !.early = @ \/ (p.inFlight[Min(found)].wave > m.wave /\ p.sent - m.wave < BlockModulus)]
PaceReceives ==
    /\ paceUp /= << >> /\ paceUp' = Tail(paceUp) /\ pace' = OnConfirm(pace, paceUp[1]) /\ UNCHANGED paceDown

\* The client gets what was sent and confirms it once, twice, or not at all if
\* more is on the way.
PaceClientReads(times) ==
    /\ paceDown /= << >> /\ paceDown' = Tail(paceDown) /\ UNCHANGED pace
    /\ LET m == paceDown[1]
       IN  IF m.kind = "close" THEN times = 0 /\ UNCHANGED paceUp
           ELSE /\ times > 0 \/ \E i \in 2..Len(paceDown) : paceDown[i].kind = "wave"
                /\ paceUp' = paceUp \o [n \in 1..times |-> [block |-> m.block, wave |-> m.wave]]

PaceNext ==
    \/ \E burst \in {1, 3} : Push(burst, FALSE)
    \/ Push(2, TRUE)
    \/ PaceReceives \/ \E times \in 0..2 : PaceClientReads(times)

PaceSpec == PaceInit /\ [][PaceNext]_paceVars

\* ---- properties --------------------------------------------------------

\* However late confirmations are, and whatever the backlog was lately, no
\* more than the hard limit is ever on its way unconfirmed.
BacklogWithinLimit == Len(pace.inFlight) <= HardLimit

\* When nothing is on the way nothing counts as unconfirmed, though the client
\* left out confirmations: the sound that comes next is never dropped for it.
QuietIsSettled == paceDown = << >> /\ paceUp = << >> => pace.inFlight = << >> /\ ~ShouldDrop(pace)

\* A confirmation settles no packet sent after the one it is for, as long as
\* it comes before the block numbers are used again; a second one settles
\* nothing.
NoneSettledEarly == ~pace.early

\* Pacing: the backlog stays within its limit, nothing
\* on its way means nothing unconfirmed, and no block is settled early.
AudioPacingCorrect ==
    /\ BacklogWithinLimit
    /\ QuietIsSettled
    /\ NoneSettledEarly
====
