---- MODULE GnomeDesktop ----
(***************************************************************************)
(* The GNOME desktop of one session (apps/farland-server/                   *)
(* gnome_headless.cpp): a headless GNOME Shell of its own                   *)
(* (platform/mutter/headless_shell.cpp) or the user's session at the        *)
(* machine, a Mutter remote desktop session with one virtual monitor per    *)
(* client monitor (platform/mutter/mutter_session.cpp), and the seat, which *)
(* gets a login screen while a client holds the session                     *)
(* (platform/logind/seat.cpp).  Mutter, logind and the display manager are  *)
(* the environment.  A D-Bus call is one step that may fail; the desktop    *)
(* object and what it talks to are one record, so that a handler reads as   *)
(* the composition of the calls it makes.                                   *)
(***************************************************************************)
EXTENDS Integers, Sequences, SequencesExt, FiniteSets

CONSTANTS
    MaxScreens,  \* max_screens
    GnomeSizes,  \* the sizes a client asks for
    GnomeActs    \* bound: events of the environment and requests of the client in one behaviour

VARIABLE gnome

SeatScreen == 0
Cleared == << >>
Untouched ==
    [phase |-> "none", attach |-> FALSE, keeps |-> FALSE, held |-> FALSE, screens |-> << >>, pending |-> << >>,
     layout |-> Cleared, saved |-> FALSE, refused |-> FALSE, end |-> "none", input |-> FALSE,
     session |-> "none", monitors |-> << >>, shown |-> <<>>, nextStream |-> 1,
     seat |-> "session", greeters |-> 0, news |-> << >>,
     watch |-> [on |-> FALSE, active |-> FALSE, left |-> FALSE, returned |-> FALSE, took |-> FALSE],
     asked |-> FALSE, processes |-> {}, decided |-> "none", settled |-> FALSE, acts |-> 0]

GnomeInit == gnome = Untouched

Spend(w) == [w EXCEPT !.acts = @ + 1, !.settled = FALSE]
ScreenClosed(w) == w.session \in {"closed", "gone"}
keeps_rendering(w) == w.attach /\ w.session /= "none" /\ w.keeps

\* A call that fails is an event of the environment too.
MayFail(ok, may) == (ok /\ may) \/ gnome.acts < GnomeActs
Failures(ok, may) == IF ok /\ may THEN gnome.acts ELSE gnome.acts + 1

\* ---- Mutter's monitors -------------------------------------------------

\* The screens side by side, the first one primary: a monitor and the width
\* its place was computed with.
Placed(screens) == [i \in DOMAIN screens |-> <<screens[i].stream, screens[i].shown>>]
\* MonitorState::virtual_connectors: the monitors in the order they came.
VirtualConnectors(w) == SelectSeq(w.monitors, LAMBDA x : x /= SeatScreen)
Without(shown, stream) == SelectSeq(shown, LAMBDA e : e[1] /= stream)
\* Mutter lays the session out again when nothing of it is left.
Relaid(w, shown) == IF shown = << >> /\ SeatScreen \in ToSet(w.monitors) THEN <<<<SeatScreen, 1>>>> ELSE shown

\* MutterSession::stop_stream: the virtual monitor goes.
stop_stream(w, stream) ==
    [w EXCEPT !.monitors = SelectSeq(@, LAMBDA x : x /= stream), !.shown = Relaid(w, Without(@, stream))]

\* set_monitors: exactly this layout; what is not in it is off.
set_monitors(w, layout) == [w EXCEPT !.shown = layout]
\* monitors(): what GetCurrentState says is shown.
SeatIsShown(w) == \E i \in DOMAIN w.shown : w.shown[i][1] = SeatScreen
\* ensure_monitor_layout; ok: DisplayConfig answers both calls.
ensure_monitor_layout(w, ok) ==
    LET sizes == [i \in DOMAIN w.screens |-> w.screens[i].shown]
        ours == VirtualConnectors(w)
        wanted == Placed(w.screens)
    IN  IF \/ w.screens = << >> \/ ScreenClosed(w) \/ (w.attach /\ ~w.held)
           \/ sizes = w.layout \/ ~ok \/ Len(ours) /= Len(w.screens) THEN w
        ELSE IF w.shown = wanted THEN [w EXCEPT !.layout = sizes]
        ELSE [set_monitors(w, wanted) EXCEPT !.layout = sizes, !.saved = @ \/ SeatIsShown(w)]

\* attach_back(false), from the destructor: the screen at the machine comes
\* back on; a session something else took the seat of is left alone.
attach_back(w, ok) ==
    IF ~w.saved \/ ScreenClosed(w) \/ ~ok \/ (w.watch.on /\ ~w.watch.active /\ ~keeps_rendering(w)) THEN w
    ELSE set_monitors(w, <<<<SeatScreen, 1>>>>)

\* ---- screens -----------------------------------------------------------

NewScreen(w, size) == [stream |-> w.nextStream, size |-> size, node |-> FALSE, capture |-> FALSE, shown |-> 0,
                       failed |-> FALSE]
Live(s) == ~s.failed
\* service_pending: captures of announced streams, failed ones stopped, and
\* the screens whose first frame came move over, in order.
Captured(s) == IF s.node THEN [s EXCEPT !.capture = TRUE] ELSE s
ReadyCount(screens) ==
    Cardinality({i \in DOMAIN screens : \A j \in 1..i : screens[j].capture /\ screens[j].shown /= 0})
StopAll(w, screens) ==
    [w EXCEPT !.monitors = SelectSeq(@, LAMBDA x : \A i \in DOMAIN screens : screens[i].stream /= x),
              !.shown = Relaid(w, SelectSeq(@, LAMBDA e : \A i \in DOMAIN screens : screens[i].stream /= e[1]))]
service_pending(w, ok) ==
    LET tried == [i \in DOMAIN w.pending |-> Captured(w.pending[i])]
        left == SelectSeq(tried, Live)
        n == ReadyCount(left)
        stopped == StopAll(w, SelectSeq(tried, LAMBDA s : s.failed))
    IN  ensure_monitor_layout([stopped EXCEPT !.pending = SubSeq(left, n + 1, Len(left)),
                                              !.screens = @ \o SubSeq(left, 1, n)], ok)
\* record_virtual: Mutter has one more stream, without a node as yet.
record_virtual(w, size) == [w EXCEPT !.pending = Append(@, NewScreen(w, size)), !.nextStream = @ + 1]
add_screen(w, size, ok) == service_pending(record_virtual(w, size), ok)

\* ---- the seat ----------------------------------------------------------

\* Who is on the seat changes: logind tells whoever watches the session.
SeatShows(w, who) ==
    [w EXCEPT !.seat = who,
              !.news = IF w.watch.on /\ (who = "session") /= (w.seat = "session") THEN Append(@, who = "session") ELSE @,
              !.shown = IF who = "session" /\ w.seat /= "session" /\ ~SeatIsShown(w)
                        THEN Append(@, <<SeatScreen, 1>>) ELSE @]
\* activate_user_session: the session is brought to its seat.
activate_user_session(w) == SeatShows(w, "session")
\* switch_seat_to_greeter: the one there is, if polkit allows it (may);
\* otherwise a new one.
switch_seat_to_greeter(w, may) ==
    IF w.greeters > 0 THEN IF may THEN SeatShows(w, "greeter") ELSE w
    ELSE SeatShows([w EXCEPT !.greeters = @ + 1], "greeter")
SwitchWorks(w, may) == w.greeters = 0 \/ may
\* hand_the_seat_a_greeter: without the right to switch, farlandd is asked.
HandsOver(w) == keeps_rendering(w) /\ w.watch.on
hand_the_seat_a_greeter(w, may) ==
    IF ~HandsOver(w) \/ ~w.watch.active THEN w
    ELSE IF SwitchWorks(w, may) THEN switch_seat_to_greeter(w, may) ELSE [w EXCEPT !.asked = TRUE]

\* SeatWatch::set_active, for each signal that is waiting.
set_active(v, active) ==
    [v EXCEPT !.left = @ \/ (v.active /\ ~active), !.returned = @ \/ (v.left /\ ~v.active /\ active), !.active = active]
RECURSIVE Watched(_, _)
Watched(v, news) == IF news = << >> THEN v ELSE Watched(set_active(v, Head(news)), Tail(news))
ProcessSeat(w) == [w EXCEPT !.watch = Watched(@, w.news), !.news = << >>]

\* The layout that was applied is taken to stand.
KeepSeatWithoutLayout(w, ok, may) ==
    IF ~keeps_rendering(w) \/ ~w.watch.returned \/ ~w.refused THEN w
    ELSE [hand_the_seat_a_greeter([w EXCEPT !.refused = FALSE], may) EXCEPT !.watch.returned = FALSE]
\* keep_the_seat_after_a_refusal
keep_the_seat_after_a_refusal(w, ok, may) ==
    IF ~keeps_rendering(w) \/ ~w.watch.returned \/ ~w.refused THEN w
    ELSE [hand_the_seat_a_greeter(ensure_monitor_layout([w EXCEPT !.refused = FALSE, !.layout = Cleared], ok), may)
             EXCEPT !.watch.returned = FALSE]

\* ---- ends --------------------------------------------------------------

\* closed(): why the desktop ends, "none" while it does not.
WhyClosed(w) ==
    CASE w.session = "gone" -> "logged_out"
      [] w.session = "closed" -> "sharing_stopped"
      [] ~ScreenClosed(w) /\ w.watch.on /\ keeps_rendering(w) /\ w.watch.returned -> "taken_at_the_machine"
      [] ~ScreenClosed(w) /\ w.watch.on /\ ~keeps_rendering(w) /\ w.watch.left -> "taken_at_the_machine"
      [] OTHER -> IF w.screens = << >> \/ \E i \in DOMAIN w.screens : w.screens[i].failed THEN "sharing_stopped"
                  ELSE IF ~w.input THEN "logged_out" ELSE "none"

\* ~GnomeHeadlessDesktop: the input, the screen at the machine, the streams
\* and the session (~MutterSession), then the shell and its bus
\* (~HeadlessShell, end_group).
Destroyed(w, ok, why) ==
    LET back == IF w.session = "none" THEN w ELSE attach_back([w EXCEPT !.input = FALSE], ok)
        gone == StopAll(back, w.screens \o w.pending)
    IN  [gone EXCEPT !.phase = "none", !.end = why, !.session = "none", !.screens = << >>, !.pending = << >>,
                     !.layout = Cleared, !.saved = FALSE, !.held = FALSE, !.refused = FALSE, !.processes = {},
                     !.watch = Untouched.watch, !.news = << >>, !.settled = FALSE, !.decided = "none",
                     !.nextStream = 1, !.asked = FALSE,
                     !.monitors = IF w.attach THEN @ ELSE << >>, !.shown = IF w.attach THEN @ ELSE << >>]
Destroy(w, ok, why) == Destroyed(w, ok, why)

\* ---- starting ----------------------------------------------------------

\* start(): a session of our own needs a bus and a shell on it
\* (HeadlessShell::launch); what was started before a failure is ended.
Launch(attach, started) ==
    /\ gnome.phase = "none" /\ gnome.acts < GnomeActs
    /\ attach \/ gnome.seat = "session"
    /\ LET w == [gnome EXCEPT !.attach = attach, !.processes = started, !.end = "none", !.acts = @ + 1,
                              !.monitors = IF attach THEN <<SeatScreen>> ELSE << >>,
                              !.shown = IF attach THEN <<<<SeatScreen, 1>>>> ELSE << >>]
       IN  gnome' = IF attach \/ started = {"bus", "shell"} THEN [w EXCEPT !.phase = "connecting"]
                    ELSE Destroy(w, TRUE, "failed")
\* wait_for_mutter: both of Mutter's names are on the bus, or the shell
\* exited or the time is over.
wait_for_mutter ==
    /\ gnome.phase = "connecting"
    /\ gnome' \in {[gnome EXCEPT !.phase = "found"], Destroy(gnome, TRUE, "failed")}
\* read_capabilities: a ScreenCast that is too old fails, a recent one draws
\* its virtual monitors off the seat too.
read_capabilities(keeps) ==
    /\ gnome.phase = "found"
    /\ gnome' \in {[gnome EXCEPT !.phase = "creating", !.keeps = keeps], Destroy(gnome, TRUE, "failed")}
\* create_sessions: a remote desktop session and a screen cast session that
\* share one id.
create_sessions ==
    /\ gnome.phase = "creating"
    /\ gnome' = [gnome EXCEPT !.phase = "taking", !.session = "created"]
\* connect(): a failure is tried again while the shell comes up, unless the
\* session is locked, the shell has exited or the time is over.
ConnectAgain ==
    /\ gnome.phase = "creating"
    /\ gnome' \in {[gnome EXCEPT !.phase = "connecting", !.keeps = FALSE], Destroy(gnome, TRUE, "failed")}
\* take_the_session: activate_user_session where the session is drawn on its
\* seat only, then the watch.
take_the_session ==
    /\ gnome.phase = "taking"
    /\ IF ~gnome.attach THEN gnome' = [gnome EXCEPT !.phase = "recording"]
       ELSE \/ /\ gnome.seat /= "session" /\ ~keeps_rendering(gnome)
               /\ gnome' = Destroy(gnome, TRUE, "failed")
            \/ LET w == IF keeps_rendering(gnome) THEN gnome ELSE activate_user_session(gnome)
                   on == w.seat = "session"
               IN  gnome' = [w EXCEPT !.phase = "recording", !.watch.on = TRUE, !.watch.active = on, !.watch.took = on]
\* add_screen and MutterSession::start, either of which may fail.
RecordFirst ==
    /\ gnome.phase = "recording"
    /\ \E size \in GnomeSizes :
         gnome' \in {[add_screen(gnome, size, TRUE) EXCEPT !.phase = "waiting", !.session = "started"],
                     Destroy(gnome, TRUE, "failed")}
\* wait_for_first_screen, one round of its loop; without a frame it gives up
\* at the deadline.
wait_for_first_screen ==
    /\ gnome.phase = "waiting"
    /\ LET w == service_pending(gnome, TRUE)
       IN  \/ /\ w.screens /= << >> /\ ~ScreenClosed(w)
              /\ gnome' = [w EXCEPT !.phase = "framed"]
           \/ /\ w.screens = << >> /\ w.pending /= << >> /\ ~ScreenClosed(w) /\ w /= gnome
              /\ gnome' = w
           \/ /\ ScreenClosed(w) \/ w.screens = << >>
              /\ gnome' = Destroy(w, TRUE, "failed")
\* set_held(true) of a desktop on a seat.
TakeHold(w, ok, may) ==
    IF w.held \/ ~w.attach \/ ScreenClosed(w) THEN [w EXCEPT !.held = TRUE]
    ELSE hand_the_seat_a_greeter(ensure_monitor_layout([w EXCEPT !.held = TRUE, !.layout = Cleared], ok), may)
\* connect_to_eis; without input the start fails.
connect_to_eis ==
    /\ gnome.phase = "framed"
    /\ gnome' \in {[gnome EXCEPT !.phase = "input", !.input = TRUE], Destroy(gnome, TRUE, "failed")}
\* The rest of start(): keymap and clipboard, which may be missing, targets
\* and set_held(true).
FinishStart(ok, may) ==
    /\ gnome.phase = "input" /\ MayFail(ok, may)
    /\ gnome' = [TakeHold(gnome, ok, may) EXCEPT !.phase = "running", !.acts = Failures(ok, may)]

\* ---- running -----------------------------------------------------------

\* dispatch() and the closed() its caller asks next.
Dispatch(ok, may) ==
    /\ gnome.phase = "running" /\ ~gnome.settled /\ MayFail(ok, may)
    /\ LET seen == ProcessSeat(gnome)
           w == [service_pending(keep_the_seat_after_a_refusal(seen, ok, may), ok)
                    EXCEPT !.decided = IF seen.watch.returned THEN "none" ELSE @]
           why == WhyClosed(w)
       IN  gnome' = [(IF why = "none" THEN w ELSE Destroy(w, ok, why))
                        EXCEPT !.settled = ok /\ why = "none", !.acts = Failures(ok, may)]

\* request_screen_sizes
Resized(screens, sizes) ==
    [i \in DOMAIN screens |-> [screens[i] EXCEPT !.size = sizes[i]]] \o << >>
RECURSIVE Fewer(_, _)
Fewer(w, n) ==
    IF Len(w.screens) + Len(w.pending) <= n THEN w
    ELSE IF w.pending /= << >>
         THEN Fewer([stop_stream(w, Last(w.pending).stream) EXCEPT !.pending = Front(@)], n)
         ELSE Fewer([stop_stream(w, Last(w.screens).stream) EXCEPT !.screens = Front(@)], n)
RECURSIVE MoreScreens(_, _, _)
MoreScreens(w, sizes, ok) ==
    LET k == Len(w.screens) + Len(w.pending)
    IN  IF k >= Len(sizes) THEN w ELSE MoreScreens(add_screen(w, sizes[k + 1], ok), sizes, ok)
RequestScreenSizes(sizes) ==
    /\ gnome.phase = "running" /\ gnome.held /\ gnome.acts < GnomeActs /\ ~ScreenClosed(gnome)
    /\ LET fewer == Fewer(Spend(gnome), Len(sizes))
           n == Len(fewer.screens)
           sized == [fewer EXCEPT !.screens = Resized(@, sizes),
                                  !.pending = Resized(@, SubSeq(sizes, n + 1, Len(sizes)))]
       IN  gnome' = ensure_monitor_layout(MoreScreens(sized, sizes, TRUE), TRUE)

\* seat_takeover_decided; a refusal is remembered for a while.
seat_takeover_decided(w, allowed) == [w EXCEPT !.refused = ~allowed]
TakeoverDecided(allowed) ==
    /\ gnome.phase = "running" /\ gnome.seat = "greeter" /\ gnome.acts < GnomeActs /\ gnome.news = << >>
    /\ gnome' = Spend([seat_takeover_decided(gnome, allowed) EXCEPT
                          !.decided = IF allowed THEN "allowed" ELSE "refused"])
\* The grace of a refusal is over; so is what was decided.
RefusalLapses ==
    /\ gnome.refused /\ gnome.news = << >> /\ gnome.acts < GnomeActs
    /\ gnome' = Spend([gnome EXCEPT !.refused = FALSE, !.decided = "none"])

\* The client goes: a desktop on a seat goes with it (Agent::join_connection,
\* keep_when_released), one of our own stays for the next client.
ReleaseDesktop ==
    /\ gnome.phase = "running" /\ gnome.held /\ gnome.acts < GnomeActs
    /\ gnome' = IF gnome.attach THEN Destroy(Spend(gnome), TRUE, "released") ELSE Spend([gnome EXCEPT !.held = FALSE])
TakeAgain ==
    /\ gnome.phase = "running" /\ ~gnome.held /\ gnome.acts < GnomeActs
    /\ gnome' = Spend(TakeHold(gnome, TRUE, TRUE))

\* ---- environment -------------------------------------------------------

EnvActs == gnome.acts < GnomeActs /\ gnome.phase \in {"waiting", "running"}
\* Mutter announces a stream's node; its first frame comes once it is
\* captured, with the monitor; a later frame has the size asked for; a
\* stream may close.
StreamNews(s, what) ==
    CASE what = "node" -> [s EXCEPT !.node = TRUE]
      [] what = "frame" -> [s EXCEPT !.shown = s.size]
      [] what = "failed" -> [s EXCEPT !.failed = TRUE]
StreamMay(s, what) ==
    CASE what = "node" -> ~s.node
      [] what = "frame" -> s.capture /\ s.shown /= s.size /\ ~s.failed
      [] what = "failed" -> s.capture /\ ~s.failed
StreamStep(field, i, what) ==
    /\ gnome.phase \in {"waiting", "running"} /\ ~ScreenClosed(gnome)
    /\ what = "failed" => gnome.acts < GnomeActs
    /\ i \in DOMAIN gnome[field] /\ StreamMay(gnome[field][i], what)
    /\ LET s == gnome[field][i]
           w == [gnome EXCEPT ![field][i] = StreamNews(s, what), !.settled = FALSE,
                              !.acts = IF what = "failed" THEN @ + 1 ELSE @]
       IN  gnome' = IF what = "frame" /\ s.shown = 0
                    THEN [w EXCEPT !.monitors = Append(@, s.stream), !.shown = Append(@, <<s.stream, s.size>>)]
                    ELSE w
MutterEnds(how) ==
    /\ EnvActs /\ ~ScreenClosed(gnome)
    /\ gnome' = Spend([gnome EXCEPT !.session = how])
InputCloses ==
    /\ EnvActs /\ gnome.input
    /\ gnome' = Spend([gnome EXCEPT !.input = FALSE])
\* The login screen goes: somebody logged in, or it was given up.
GreeterGoes ==
    /\ EnvActs /\ gnome.attach /\ gnome.seat = "greeter"
    /\ gnome' = Spend(SeatShows([gnome EXCEPT !.greeters = @ - 1], "session"))
\* Somebody at the machine switches to something else, or back.
SwitchTo(who) ==
    /\ EnvActs /\ gnome.attach /\ gnome.seat /= who
    /\ gnome' = Spend(SeatShows(gnome, who))
\* farlandd switches the seat to its login screen (SeatGreeter).
FarlanddSwitches ==
    /\ gnome.asked
    /\ gnome' = [SeatShows(gnome, "greeter") EXCEPT !.asked = FALSE, !.settled = FALSE]

GnomeNext ==
    \/ \E attach \in BOOLEAN, started \in {{}, {"bus"}, {"bus", "shell"}} : Launch(attach, started)
    \/ wait_for_mutter \/ (\E keeps \in BOOLEAN : read_capabilities(keeps)) \/ create_sessions \/ ConnectAgain
    \/ connect_to_eis \/ take_the_session \/ RecordFirst \/ wait_for_first_screen
    \/ \E ok, may \in BOOLEAN : FinishStart(ok, may) \/ Dispatch(ok, may)
    \/ \E n \in 1..MaxScreens : \E sizes \in [1..n -> GnomeSizes] : RequestScreenSizes(sizes)
    \/ \E allowed \in BOOLEAN : TakeoverDecided(allowed)
    \/ RefusalLapses \/ ReleaseDesktop \/ TakeAgain
    \/ \E field \in {"screens", "pending"}, i \in 1..MaxScreens, what \in {"node", "frame", "failed"} :
         StreamStep(field, i, what)
    \/ \E how \in {"closed", "gone"} : MutterEnds(how)
    \/ InputCloses \/ GreeterGoes \/ (\E who \in {"session", "other"} : SwitchTo(who)) \/ FarlanddSwitches

GnomeSpec == GnomeInit /\ [][GnomeNext]_gnome

\* ---- properties --------------------------------------------------------

\* The session was off its seat when this desktop took it, and has come to
\* the seat since: SeatWatch, which knows only a session that left, does not
\* call that a return.
UnnoticedReturn == gnome.attach /\ ~gnome.watch.took /\ gnome.watch.active

\* Once a dispatch has run and DisplayConfig answered, a desktop that a
\* client holds shows exactly the client's screens, in the client's order
\* and placed by the sizes they have, and the screen at the machine is off:
\* the layout last applied (monitor_layout_) is never stale.
ClientSeesItsScreens ==
    (gnome.settled /\ gnome.held /\ gnome.pending = << >> /\ ~UnnoticedReturn)
        => gnome.shown = Placed(gnome.screens)

\* What was decided about a login at the machine is what happens to the
\* session: one allowed to take it ends the desktop when the seat comes back,
\* and after a refusal the seat coming back does not.
SeatDecisionHolds ==
    (gnome.phase = "running" /\ gnome.attach /\ gnome.keeps /\ gnome.watch.left /\ ~ScreenClosed(gnome)
        /\ gnome.news = <<TRUE>> /\ gnome'.news = << >>)
       => /\ gnome.decided = "allowed" => gnome'.phase = "none"
          /\ gnome.decided = "refused" => gnome'.end # "taken_at_the_machine"

\* A desktop that is gone, or failed to start at any point, has left no
\* virtual monitor, no remote desktop session and no process behind, and the
\* session at the machine shows something again.
NothingLeftBehind ==
    gnome.phase = "none" =>
        /\ gnome.processes = {} /\ gnome.session = "none" /\ ToSet(gnome.monitors) \subseteq {SeatScreen}
        /\ gnome.attach => SeatIsShown(gnome)

\* However often the seat is handed a login screen, there is never a second.
OneGreeter == gnome.greeters <= 1

\* The GNOME desktop: the client sees the screens it was given, nothing of
\* a session is left behind, and there is one greeter at most.
GnomeCorrect ==
    /\ ClientSeesItsScreens
    /\ NothingLeftBehind
    /\ OneGreeter
====
