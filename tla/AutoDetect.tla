---- MODULE AutoDetect ----
(***************************************************************************)
(* Network auto-detection (server/autodetect.cpp) and the two places of    *)
(* server/connection.cpp that drive it: tick(), which ages the probes and  *)
(* sends one when it is due, and take_output(), which wraps a burst of     *)
(* output in a bandwidth measurement.  A tick is rtt_interval; the other   *)
(* times are multiples of it.  The client takes the requests in order,     *)
(* answers, ignores or holds them; each request carries its true age, which *)
(* only the properties read.  The smoothed numbers are left out: what the  *)
(* schedule depends on is that there is a sample at all.                   *)
(***************************************************************************)
EXTENDS Integers, Sequences, SequencesExt

CONSTANTS
    RttTimeout,     \* ticks after which a probe is given up
    ConnectTimeout, \* ticks the connect-time detection waits
    MaxUnanswered,  \* Config::max_unanswered_probes
    SequenceWidth,  \* sequence numbers are counted modulo this
    MaxHeld         \* bound: ticks for which a client may hold a request before it answers or drops it

VARIABLES
    detect,   \* the AutoDetect object and the connection's state around it
    requests, \* requests on their way to the client, oldest first
    habit,    \* how the client treats requests: see Habits
    sampled   \* how far the last RTT sample was from the true round trip

autoDetectVars == <<detect, requests, habit, sampled>>

\* "answers": any request may be answered; "connect_only": none of the
\* continuous ones is; "never": none at all.
Habits == {"answers", "connect_only", "never"}
Unset == -1

NoDetect == [state |-> "joining", probes |-> << >>, sequence |-> 1, lastProbe |-> Unset, lost |-> 0,
             probing |-> TRUE, answered |-> FALSE, unanswered |-> 0, started |-> Unset, rtt |-> FALSE,
             bandwidth |-> FALSE, awaited |-> Unset, awaitedType |-> "none", measured |-> Unset, known |-> FALSE]

AutoDetectInit ==
    /\ detect = NoDetect
    /\ requests = << >>
    /\ habit = "answers"
    /\ sampled = 0

CappedAt(a, limit) == IF a = Unset \/ a >= limit THEN a ELSE a + 1
NextSequence(s) == (s + 1) % SequenceWidth
Asked(kind, s) == [kind |-> kind, sequence |-> s, age |-> 0]

\* What reaches the client: a client that does not answer a request drops it.
Reaching(sent) ==
    requests \o SelectSeq(sent, LAMBDA r : \/ habit = "answers"
                                           \/ habit = "connect_only" /\ r.kind \in {"rtt_connect", "bw_connect"})

\* AutoDetect::start_connect_time, from the last channel join
\* (on_all_channels_joined): the probe first, then the burst.
StartConnectTime(h) ==
    /\ detect.state = "joining"
    /\ habit' = h
    /\ detect' = [detect EXCEPT !.state = "connect_time", !.started = 0,
                     !.probes = <<[sequence |-> detect.sequence, age |-> 0]>>,
                     !.awaited = NextSequence(detect.sequence), !.awaitedType = "bw_connect",
                     !.sequence = NextSequence(NextSequence(detect.sequence))]
    /\ requests' = IF h = "never" THEN << >>
                   ELSE <<Asked("rtt_connect", detect.sequence), Asked("bw_connect", NextSequence(detect.sequence))>>
    /\ UNCHANGED sampled

\* --autodetect continuous: no connect-time detection.
SkipConnectTime(h) ==
    /\ detect.state = "joining"
    /\ habit' = h
    /\ detect' = [detect EXCEPT !.state = "active"]
    /\ UNCHANGED <<requests, sampled>>

\* A mutant: the lateness is taken before the probes that timed out are dropped.
LateBeforeExpiry(d) ==
    [d EXCEPT !.probes = SelectSeq(@, LAMBDA p : p.age < RttTimeout),
              !.unanswered = IF d.probes # << >> /\ d.answered THEN d.probes[1].age ELSE 0]
\* AutoDetect::expire_probes
ExpireProbes(d) ==
    LET kept == SelectSeq(d.probes, LAMBDA p : p.age < RttTimeout)
        lost == d.lost + Len(d.probes) - Len(kept)
        stops == d.probing /\ ~d.answered /\ lost >= MaxUnanswered
        left == IF stops THEN << >> ELSE kept
    IN  [d EXCEPT !.probes = left, !.lost = IF lost > MaxUnanswered THEN MaxUnanswered ELSE lost,
                  !.probing = @ /\ ~stops,
                  !.unanswered = IF left # << >> /\ d.answered THEN left[1].age ELSE 0]

\* AutoDetect::connect_time_complete
ConnectTimeComplete(d) == d.started = Unset \/ (d.rtt /\ d.bandwidth) \/ d.started >= ConnectTimeout

\* Connection::finish_connect_time_autodetect; network_characteristics_result
\* takes a sequence number when there is a measurement to report.  What only
\* the connect-time detection reads is forgotten with it.
FinishConnectTime(d) ==
    [d EXCEPT !.state = "active", !.sequence = IF d.answered \/ d.known THEN NextSequence(@) ELSE @,
              !.started = Unset, !.rtt = FALSE, !.bandwidth = FALSE, !.known = FALSE]

Aged(d) == [d EXCEPT !.probes = [i \in DOMAIN @ |-> [@[i] EXCEPT !.age = @ + 1]] \o << >>,
                     !.lastProbe = CappedAt(@, 1), !.started = CappedAt(@, ConnectTimeout),
                     !.measured = CappedAt(@, RttTimeout)]

\* AutoDetect::poll_rtt_request and next_rtt_request
DueProbe(d) == d.probing /\ d.lastProbe \in {Unset, 1}
SendProbe(d) ==
    [d EXCEPT !.lastProbe = 0, !.sequence = NextSequence(@),
              !.probes = Append(@, [sequence |-> d.sequence, age |-> 0])]

HeldRequests == [i \in DOMAIN requests |-> [requests[i] EXCEPT !.age = @ + 1]] \o << >>

\* Connection::tick, a tick later.
Ticked(d) ==
    CASE d.state = "connect_time" /\ ConnectTimeComplete(d) ->
            /\ detect' = FinishConnectTime(d)
            /\ requests' = HeldRequests
      [] d.state = "active" ->
            LET e == ExpireProbes(d)
            IN  /\ detect' = IF DueProbe(e) THEN SendProbe(e) ELSE e
                /\ requests' = HeldRequests
                               \o (IF DueProbe(e) /\ habit = "answers" THEN <<Asked("rtt", e.sequence)>> ELSE << >>)
      [] OTHER ->
            /\ detect' = d
            /\ requests' = HeldRequests
AutoDetectTick ==
    /\ detect.state # "joining"
    /\ \A i \in DOMAIN requests : requests[i].age < MaxHeld
    /\ Ticked(Aged(detect))
    /\ UNCHANGED <<habit, sampled>>

\* AutoDetect::bandwidth_measurement_due for a burst that is large enough.
MeasurementDue(d) ==
    \/ d.measured = Unset
    \/ d.measured >= 1 /\ (d.awaited = Unset \/ d.measured >= RttTimeout)

\* Connection::take_output with a burst: Start, the output, Stop.
Burst ==
    /\ detect.state = "active"
    /\ MeasurementDue(detect)
    /\ detect' = [detect EXCEPT !.measured = 0, !.awaited = detect.sequence, !.awaitedType = "bw",
                                !.sequence = NextSequence(@)]
    /\ requests' = Reaching(<<Asked("bw", detect.sequence)>>)
    /\ UNCHANGED <<habit, sampled>>

\* AutoDetect::on_response, an RTT response: a sample of the probe it names;
\* older probes are lost.
MatchingProbe(d, r) == SelectInSeq(d.probes, LAMBDA p : p.sequence = r.sequence)
OnRtt(r) ==
    LET found == MatchingProbe(detect, r)
    IN  IF found = 0
        THEN UNCHANGED <<detect, sampled>>
        ELSE /\ sampled' = detect.probes[found].age - r.age
             /\ detect' = LET e == ExpireProbes([detect EXCEPT !.answered = TRUE,
                                                   !.probes = SubSeq(@, found + 1, Len(@)),
                                                   !.rtt = detect.started # Unset])
                          IN  IF e.state = "connect_time" /\ ConnectTimeComplete(e) THEN FinishConnectTime(e) ELSE e

\* AutoDetect::on_response, bandwidth results.
OnBandwidth(r) ==
    /\ detect' = IF detect.awaited # r.sequence \/ detect.awaitedType # r.kind THEN detect
                 ELSE LET e == [detect EXCEPT !.awaited = Unset, !.awaitedType = "none", !.bandwidth = @ \/ r.kind = "bw_connect",
                                              !.known = r.kind = "bw_connect"]
                      IN  IF e.state = "connect_time" /\ ConnectTimeComplete(e) THEN FinishConnectTime(e) ELSE e
    /\ UNCHANGED sampled

\* The client answers the request it got first.
ClientAnswersProbe ==
    /\ requests # << >> /\ Head(requests).kind \in {"rtt_connect", "rtt"}
    /\ OnRtt(Head(requests))
    /\ requests' = Tail(requests)
    /\ UNCHANGED habit
ClientAnswersBurst ==
    /\ requests # << >> /\ Head(requests).kind \in {"bw_connect", "bw"}
    /\ OnBandwidth(Head(requests))
    /\ requests' = Tail(requests)
    /\ UNCHANGED habit
ClientIgnores ==
    /\ requests # << >>
    /\ requests' = Tail(requests)
    /\ UNCHANGED <<detect, habit, sampled>>

\* A reconnecting client's Network Characteristics Sync replaces the running
\* connect-time detection, and its round trip counts as a sample.
OnSync ==
    /\ detect.state = "connect_time" /\ habit # "never"
    /\ detect' = FinishConnectTime([detect EXCEPT !.probes = << >>, !.awaited = Unset, !.awaitedType = "none", !.rtt = TRUE,
                                       !.bandwidth = TRUE, !.answered = TRUE, !.known = TRUE])
    /\ UNCHANGED <<requests, habit, sampled>>

ClientTakesRequest == ClientAnswersProbe \/ ClientAnswersBurst \/ ClientIgnores

AutoDetectNext ==
    \/ \E h \in Habits : StartConnectTime(h) \/ SkipConnectTime(h)
    \/ AutoDetectTick
    \/ Burst
    \/ ClientTakesRequest
    \/ OnSync

\* The session's loop ticks while the connection lasts, and a client that
\* answers gets to what it was sent.
AutoDetectSpec ==
    /\ AutoDetectInit /\ [][AutoDetectNext]_autoDetectVars
    /\ WF_<<detect, requests>>(AutoDetectTick) /\ WF_<<detect, requests>>(ClientTakesRequest)

\* A sample is the round trip of the very request the client answered, however
\* late the answer comes and however many probes were lost before it
\* (on_response looks the probe up by its sequence number).
SampleIsItsProbes == sampled = 0

\* Lateness is only charged to a client that has answered, for a probe still
\* outstanding, and never grows past the time-out: the quality ladder reads it
\* as congestion (NetworkEstimate::unanswered).
LatenessIsOwed ==
    detect.unanswered > 0 =>
        /\ detect.answered
        /\ detect.probes # << >>
        /\ detect.unanswered < RttTimeout
        /\ \A i \in DOMAIN detect.probes : detect.probes[i].age <= detect.unanswered

\* A client that never answers is eventually not probed any more
\* (expire_probes).  A client that answered during the connection sequence and
\* is silent after it is probed for ever: README, section 5.
SilentClientIsLeftAlone == (habit = "never" /\ detect.state = "active") ~> ~detect.probing

\* What the detector reports is measured: a sample is of the probe it
\* answers, and lateness is charged only for what is owed.
AutoDetectCorrect ==
    /\ SampleIsItsProbes
    /\ LatenessIsOwed
====
