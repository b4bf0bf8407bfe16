---- MODULE AudioOutput ----
(***************************************************************************)
(* Audio output between the connection's thread (apps/farland-server/      *)
(* session_audio.cpp) and the thread that captures and paces it            *)
(* (playback_thread.cpp): the choice of a channel, the two mailboxes and   *)
(* their wake pipes, the negotiation of [MS-RDPEA] (channels/              *)
(* rdpsnd_server.cpp), and every way in which audio ends.  The client      *)
(* plays by the rules; a sample is a packet, and how packets are paced is  *)
(* in AudioPacing.                                                         *)
(***************************************************************************)
EXTENDS Integers, Sequences, SequencesExt

CONSTANT SoundTurns   \* bound: packets captured and things that end the sound, together

\* `sound' is the connection's side and the client, `player' the thread's.
VARIABLES sound, player

soundVars == <<sound, player>>

NoPlayer == [pc |-> "none", rdpsnd |-> "idle", stopped |-> FALSE, quit |-> FALSE, capture |-> FALSE, inbox |-> << >>,
             work |-> << >>, outbox |-> << >>, end |-> FALSE, inWake |-> FALSE, outWake |-> FALSE, tells |-> FALSE]
SoundInit ==
    /\ player = NoPlayer
    /\ sound = [pc |-> "begin", static |-> FALSE, transport |-> "none", dvc |-> "none", played |-> FALSE, notes |-> FALSE,
                client |-> "waits", channel |-> "none", up |-> << >>, down |-> << >>, turns |-> 0]

\* ---- the thread --------------------------------------------------------

\* A message in the outbox, and the pipe it is told through afterwards
Posts(p, m) == [p EXCEPT !.outbox = Append(@, m), !.tells = TRUE]
\* PlaybackThread::stop
PlayerStops(p) == [p EXCEPT !.stopped = TRUE, !.capture = FALSE, !.end = TRUE, !.tells = TRUE]
\* poll_playback's Ready: the capture opens, or there is none.
PlayerOpens(p, opens) == IF opens THEN [p EXCEPT !.capture = TRUE] ELSE PlayerStops(p)
\* RdpsndServer::receive and handle, and what AudioPlayback makes of it: one
\* message of the client, and whether the capture then opens
PlayerHandles(p, m, opens) ==
    CASE m = "formats" /\ p.rdpsnd = "formats" -> Posts([p EXCEPT !.rdpsnd = "training"], "training")
      [] m = "deaf" /\ p.rdpsnd = "formats" -> PlayerStops([p EXCEPT !.rdpsnd = "unavailable"])
      [] m = "confirm" /\ p.rdpsnd = "training" ->
            PlayerOpens([p EXCEPT !.rdpsnd = "ready"], opens)
      [] m = "quality" /\ p.rdpsnd \notin {"idle", "formats"} -> p
      [] m = "played" /\ p.rdpsnd = "ready" -> p
      [] OTHER -> PlayerStops([p EXCEPT !.rdpsnd = "error"])

Thread(p) == player' = p /\ UNCHANGED sound
\* run: the offer goes out first.
PlayerStarts == player.pc = "start" /\ Thread([Posts(player, "offer") EXCEPT !.pc = "poll", !.rdpsnd = "formats"])
\* WakePipe::notify, after the lock is let go
PlayerTells == player.tells /\ Thread([player EXCEPT !.tells = FALSE, !.outWake = TRUE])
\* poll, and the pipe emptied before the mailbox
PlayerWakes == /\ player.pc = "poll" /\ ~player.tells /\ (player.inWake \/ (player.capture /\ sound.turns < SoundTurns))
               /\ Thread([player EXCEPT !.pc = "swap", !.inWake = FALSE])
\* The lock; afterwards it is told to quit, or has stopped and waits for that.
PlayerSwaps ==
    /\ player.pc = "swap"
    /\ Thread(IF player.quit THEN [player EXCEPT !.pc = "exit", !.capture = FALSE]
              ELSE [player EXCEPT !.pc = IF player.stopped THEN "poll" ELSE "work",
                                  !.inbox = << >>, !.work = IF player.stopped THEN << >> ELSE player.inbox])
\* The pipe is emptied after the mailbox.
PlayerWorksLate(opens) ==
    /\ player.pc = "work" /\ ~player.tells /\ player.work /= << >>
    /\ LET p == PlayerHandles([player EXCEPT !.work = Tail(@), !.inWake = FALSE], player.work[1], opens)
       IN  Thread([p EXCEPT !.pc = IF p.rdpsnd = "error" THEN "poll" ELSE "work"])
\* One of the messages; the rest of them are for nothing after an error.
PlayerWorks(opens) ==
    /\ player.pc = "work" /\ ~player.tells /\ player.work /= << >>
    /\ LET p == PlayerHandles([player EXCEPT !.work = Tail(@)], player.work[1], opens)
       IN  Thread([p EXCEPT !.pc = IF p.rdpsnd = "error" THEN "poll" ELSE "work"])
\* No sample, or nothing that would have one
PlayerIdles == player.pc = "work" /\ player.work = << >> /\ Thread([player EXCEPT !.pc = "poll"])
\* The capture has samples, or has ended.
PlayerCaptures(ended) ==
    /\ player.pc = "work" /\ player.work = << >> /\ ~player.tells /\ player.capture /\ sound.turns < SoundTurns
    /\ LET p == IF ended THEN PlayerStops(player) ELSE Posts(player, "wave") IN player' = [p EXCEPT !.pc = "poll"]
    /\ sound' = [sound EXCEPT !.turns = @ + 1]

\* ---- the connection ----------------------------------------------------

\* The connection's thread is in its loop, not amid a call or waiting for
\* the other thread to end.
InLoop == sound.pc = "loop" /\ ~sound.notes
NewPlayer == [NoPlayer EXCEPT !.pc = "start"]
\* start_playback
StartPlayback(s, transport) == [s EXCEPT !.transport = transport, !.played = TRUE]
\* start, dynamic_channels_ready: the dynamic channel when there can be one
StartAudio(static, dynamic) ==
    /\ sound.pc = "begin"
    /\ LET s == [sound EXCEPT !.pc = "loop", !.static = static]
       IN  /\ sound' = IF dynamic THEN [s EXCEPT !.dvc = "opening"]
                       ELSE IF static THEN StartPlayback(s, "static") ELSE s
           /\ player' = IF ~dynamic /\ static THEN NewPlayer ELSE player
\* handle's ChannelOpened and ChannelOpenFailed
AudioChannel(opened) ==
    /\ InLoop /\ sound.dvc = "opening"
    /\ LET s == [sound EXCEPT !.dvc = IF opened THEN "open" ELSE "none", !.channel = IF opened THEN "open" ELSE "none"]
       IN  /\ sound' = IF opened THEN StartPlayback(s, "dynamic")
                       ELSE IF sound.static THEN StartPlayback(s, "static") ELSE s
           /\ player' = IF opened \/ sound.static THEN NewPlayer ELSE player
\* receive_static, on_playback_message and PlaybackThread::receive
SoundReceives ==
    /\ InLoop /\ sound.up /= << >> /\ sound.up[1] /= "closed"
    /\ sound' = [sound EXCEPT !.up = Tail(@), !.notes = player.pc /= "none"]
    /\ player' = IF player.pc = "none" THEN player ELSE [player EXCEPT !.inbox = Append(@, sound.up[1])]
\* receive's notify, after the lock
SoundNotes == sound.notes /\ sound' = [sound EXCEPT !.notes = FALSE] /\ player' = [player EXCEPT !.inWake = TRUE]
\* stop_playback up to the join; the channel is closed after it.
StopPlayback(s, p) ==
    /\ sound' = [s EXCEPT !.pc = "join"]
    /\ player' = [p EXCEPT !.quit = TRUE, !.inWake = TRUE]
\* handle's ChannelClosed
SoundChannelCloses ==
    /\ InLoop /\ sound.up /= << >> /\ sound.up[1] = "closed"
    /\ LET s == [sound EXCEPT !.up = Tail(@), !.dvc = "none"]
       IN  IF player.pc = "none" THEN sound' = s /\ UNCHANGED player ELSE StopPlayback(s, player)
\* send_playback, on the channel the sound goes over
SendPlayback(s, messages) ==
    IF s.transport = "static" \/ s.dvc = "open" THEN [s EXCEPT !.down = @ \o messages] ELSE s
\* take_output: the pipe and the mailbox under one lock
TakeOutput(p) == [p EXCEPT !.outbox = << >>, !.outWake = FALSE, !.end = FALSE]
\* service
ServiceAudio ==
    /\ InLoop /\ player.pc \notin {"none", "exit"} /\ player.outWake
    /\ LET s == SendPlayback(sound, player.outbox)
       IN  IF player.end THEN StopPlayback(s, TakeOutput(player))
           ELSE sound' = s /\ player' = TakeOutput(player)
\* The thread has ended: the rest of stop_playback
StopJoins ==
    /\ sound.pc = "join" /\ player.pc = "exit" /\ player' = NoPlayer
    /\ sound' = [sound EXCEPT !.pc = "loop", !.dvc = "none",
                              !.down = IF sound.dvc = "open" THEN Append(@, "close") ELSE @]

\* ---- the client --------------------------------------------------------

SoundClient(s) == sound' = s /\ UNCHANGED player
\* It answers what it gets; `deaf' if it has no format in common.
SoundClientReads(deaf) ==
    /\ sound.down /= << >>
    /\ LET m == sound.down[1]
           s == [sound EXCEPT !.down = Tail(@)]
           on == sound.transport = "static" \/ sound.channel = "open"
       IN  /\ deaf => m = "offer"
           /\ SoundClient(CASE ~on -> s
                       [] on /\ m = "offer" /\ deaf -> [s EXCEPT !.client = "deaf", !.up = Append(@, "deaf")]
                       [] on /\ m = "offer" /\ ~deaf -> [s EXCEPT !.client = "trains", !.up = @ \o <<"formats", "quality">>]
                       [] on /\ m = "training" -> [s EXCEPT !.client = "plays", !.up = Append(@, "confirm")]
                       [] on /\ m = "wave" -> [s EXCEPT !.up = Append(@, "played")]
                       [] on /\ m = "close" -> [s EXCEPT !.channel = "none"])
\* It closes the dynamic channel.
SoundClientCloses ==
    /\ sound.channel = "open" /\ sound.turns < SoundTurns
    /\ SoundClient([sound EXCEPT !.channel = "none", !.up = Append(@, "closed"), !.turns = @ + 1])

SoundNext ==
    \/ \E static \in BOOLEAN, dynamic \in BOOLEAN : StartAudio(static, dynamic)
    \/ \E opened \in BOOLEAN : AudioChannel(opened)
    \/ SoundReceives \/ SoundNotes \/ SoundChannelCloses \/ ServiceAudio \/ StopJoins
    \/ PlayerStarts \/ PlayerTells \/ PlayerWakes \/ PlayerSwaps \/ PlayerIdles
    \/ \E opens \in BOOLEAN : PlayerWorks(opens)
    \/ \E ended \in BOOLEAN : PlayerCaptures(ended)
    \/ \E deaf \in BOOLEAN : SoundClientReads(deaf)
    \/ SoundClientCloses
\* Both threads run; so does the client.
ThreadsRun ==
    \/ SoundReceives \/ SoundNotes \/ SoundChannelCloses \/ ServiceAudio \/ StopJoins
    \/ PlayerStarts \/ PlayerTells \/ PlayerWakes \/ PlayerSwaps \/ PlayerIdles \/ \E opens \in BOOLEAN : PlayerWorks(opens)
    \/ \E deaf \in BOOLEAN : SoundClientReads(deaf)

\* Both threads run, and the client reads what it is sent.
SoundSpec == SoundInit /\ [][SoundNext]_soundVars /\ WF_soundVars(ThreadsRun)

\* ---- properties --------------------------------------------------------

\* Nobody sleeps on a message: when the thread waits and nothing is there or
\* about to be there to wake it, its mailbox is empty and it is not told to
\* quit; and likewise for what it has for the connection.
NobodySleepsOnIt ==
    /\ player.pc = "poll" /\ ~player.inWake /\ ~sound.notes => player.inbox = << >> /\ ~player.quit
    /\ player.pc \notin {"none", "exit"} /\ ~player.outWake /\ ~player.tells => player.outbox = << >> /\ ~player.end

\* When nothing is left to do, the sound plays or it has ended on both sides:
\* the desktop is captured exactly while the client plays it, and a dynamic
\* channel whose sound ended is closed at both ends.
SoundIsOnOrOff ==
    LET quiet == /\ InLoop /\ sound.up = << >> /\ sound.down = << >> /\ sound.dvc /= "opening"
                 /\ player.pc \in {"none", "poll"} /\ ~player.tells /\ ~player.outWake /\ ~player.inWake
    IN  /\ quiet /\ player.pc = "poll" =>
              /\ player.rdpsnd = "ready" /\ player.capture /\ sound.client = "plays"
              /\ sound.transport = "static" \/ (sound.dvc = "open" /\ sound.channel = "open")
        /\ quiet /\ player.pc = "none" => sound.dvc = "none" /\ sound.channel = "none"

\* A client that plays by the rules is never taken to have broken them: its
\* sound ends only because there is nothing to play it or to capture, or
\* because it closed the channel, whatever is on the way meanwhile.
SoundEndsForCause == player.rdpsnd /= "error"

\* The connection's thread never waits for good for the other one to end.
EndIsNotWaitedForLong == sound.pc = "join" ~> sound.pc = "loop"

\* Sound output as the session sees it: nobody sleeps on work that is
\* there, the sound is on or off and never half of each, and it ends only
\* for a cause.
AudioOutputCorrect ==
    /\ NobodySleepsOnIt
    /\ SoundIsOnOrOff
    /\ SoundEndsForCause
====
