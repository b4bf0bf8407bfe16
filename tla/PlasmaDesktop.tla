---- MODULE PlasmaDesktop ----
(***************************************************************************)
(* The Plasma desktop of one session (apps/farland-server/                 *)
(* plasma_headless.cpp): a KWin of its own with a bus                      *)
(* (platform/kwin/kwin_launcher.cpp), or the user's KWin at the machine    *)
(* with a virtual output per client monitor (platform/kwin/                *)
(* screencast.cpp), input through KWin's EIS socket (platform/kwin/        *)
(* kwin_eis.cpp), and the seat, which gets a login screen while a client   *)
(* holds the session.  How a size or a layout is brought about is the      *)
(* subject of KWinOutputs; here KWin follows a size it was asked for some  *)
(* time later.                                                             *)
(***************************************************************************)
EXTENDS Integers, Sequences, SequencesExt, FiniteSets

CONSTANTS
    PlasmaScreens, \* max_screens
    PlasmaSizes,   \* the sizes a client asks for; 1 is KWin's own default
    PlasmaStart,   \* the size of the client's first monitor when it connects
    PlasmaActs     \* bound: events of the environment and requests of the client in one behaviour

VARIABLE plasma

KWinsOwn == 1
NoWatch == [on |-> FALSE, taken |-> FALSE, active |-> FALSE, left |-> FALSE, returned |-> FALSE]
NoPlasma ==
    [phase |-> "none", attach |-> FALSE, virtual |-> FALSE, managed |-> FALSE, held |-> FALSE, screens |-> << >>,
     pending |-> << >>, made |-> 0, targets |-> 0, regions |-> << >>, layout |-> << >>, refused |-> FALSE,
     catchUp |-> FALSE, watch |-> NoWatch, news |-> << >>, seat |-> "session", asked |-> FALSE,
     decided |-> "none", running |-> {}, groups |-> {}, wayland |-> FALSE, input |-> FALSE, eis |-> FALSE,
     end |-> "none", settled |-> FALSE, acts |-> 0]
PlasmaInit == plasma = NoPlasma

MayAct == plasma.acts < PlasmaActs
Acted(w) == [w EXCEPT !.acts = @ + 1, !.settled = FALSE]
KeepsRendering(w) == w.attach /\ w.virtual

\* ---- screens -----------------------------------------------------------

\* A screen, and its output in KWin: announced to us, the size it has, the
\* size we were told it has, and the size we asked for and wait for.
NewPlasmaScreen(id, size, named) ==
    [id |-> id, named |-> named, size |-> size, stream |-> "pending", capture |-> FALSE,
     bad |-> FALSE, announced |-> named, shown |-> size, told |-> size, wish |-> 0, scaled |-> FALSE]
Resizable(w, s) == w.managed /\ s.named
\* OutputManagement::request_size: a size KWin is thought to have already is
\* not asked for.
PlasmaRequest(w, s, size) == [s EXCEPT !.wish = IF s.told = size THEN 0 ELSE size]
\* apply_targets: KWin names each input region after its output.
ScreenRegions(w) ==
    [i \in 1..(IF w.targets < Len(w.screens) THEN w.targets ELSE Len(w.screens)) |-> <<w.screens[i].id, w.screens[i].named>>]
apply_targets(w) == IF w.input THEN [w EXCEPT !.regions = ScreenRegions(w) \o << >>] ELSE w
Names(w) == [i \in DOMAIN w.screens |-> <<w.screens[i].id, w.screens[i].named>>]
\* ensure_layout
ensure_layout(w) ==
    IF ~w.virtual \/ ~w.held \/ ~w.managed \/ w.screens = << >> THEN w ELSE [w EXCEPT !.layout = Names(w) \o << >>]
\* service_screen: a capture once there is a stream, and KWin's own name of
\* the output once it is announced.
Serviced(s) ==
    IF s.stream /= "created" THEN s
    ELSE [s EXCEPT !.capture = TRUE, !.named = @ \/ s.announced]
Usable(s) == s.stream \in {"pending", "created"} /\ ~s.bad
CountReady(screens) ==
    Cardinality({i \in DOMAIN screens : \A j \in 1..i : screens[j].capture})
ServicePendingOnly(w) ==
    LET tried == SelectSeq([i \in DOMAIN w.pending |-> Serviced(w.pending[i])], Usable)
        n == CountReady(tried)
    IN  [w EXCEPT !.pending = SubSeq(tried, n + 1, Len(tried)), !.screens = @ \o SubSeq(tried, 1, n)]
\* service_pending
ServicePending(w) ==
    LET v == ServicePendingOnly(w)
    IN  IF v.screens = w.screens THEN v ELSE ensure_layout(apply_targets(v))
\* add_screen, Screencast::stream_virtual_output
AddPlasmaScreen(w, size) ==
    ServicePending([w EXCEPT !.pending = Append(@, NewPlasmaScreen(w.made + 1, size, FALSE)), !.made = @ + 1])

\* ---- the seat ----------------------------------------------------------

\* KWin makes its virtual outputs as large as it likes when it has its seat
\* back.
Reset(screens) ==
    [i \in DOMAIN screens |-> IF screens[i].stream = "created" THEN [screens[i] EXCEPT !.shown = KWinsOwn] ELSE screens[i]]
        \o << >>
SeatTurns(w, who) ==
    LET back == who = "session" /\ w.seat /= "session"
        v == [w EXCEPT !.seat = who,
                       !.news = IF w.watch.on /\ (who = "session") /= (w.seat = "session")
                                THEN Append(@, who = "session") ELSE @]
    IN  IF back /\ w.virtual THEN [v EXCEPT !.screens = Reset(@), !.pending = Reset(@)] ELSE v
\* hand_the_seat_a_greeter: done here, by farlandd, or not at all.
HandOver(w, how) ==
    IF ~KeepsRendering(w) \/ ~w.watch.on THEN [done |-> FALSE, w |-> w]
    ELSE IF ~w.watch.active THEN [done |-> TRUE, w |-> w]
    ELSE CASE how = "switch" -> [done |-> TRUE, w |-> SeatTurns(w, "greeter")]
           [] how = "ask" -> [done |-> TRUE, w |-> [w EXCEPT !.asked = TRUE]]
           [] how = "fail" -> [done |-> FALSE, w |-> w]
SetActive(v, active) ==
    [v EXCEPT !.left = @ \/ (v.active /\ ~active), !.returned = @ \/ (v.left /\ ~v.active /\ active), !.active = active]
ReadSeat(w) == [w EXCEPT !.watch = FoldLeft(SetActive, @, w.news), !.news = << >>]
\* ask_for_the_screen_sizes_again
AskAgain(w) ==
    [w EXCEPT !.screens = [i \in DOMAIN @ |-> IF Resizable(w, @[i]) THEN PlasmaRequest(w, @[i], @[i].size) ELSE @[i]] \o << >>]
BouncedBack(w) == KeepsRendering(w) /\ w.watch.on /\ w.watch.returned /\ w.refused
\* A refusal excuses every return that follows it.
KeepSeatAlways(w, how) ==
    IF ~BouncedBack(w) THEN w
    ELSE LET h == HandOver(w, how) IN IF h.done THEN [h.w EXCEPT !.watch.returned = FALSE, !.catchUp = TRUE] ELSE h.w
\* keep_the_seat_after_a_refusal: one return belongs to one refusal.
KeepSeat(w, how) ==
    IF ~BouncedBack(w) THEN w
    ELSE LET h == HandOver([w EXCEPT !.refused = FALSE], how)
         IN  IF h.done THEN [h.w EXCEPT !.watch.returned = FALSE, !.catchUp = TRUE] ELSE [h.w EXCEPT !.end = "not_handed"]

\* ---- ends --------------------------------------------------------------

\* closed()
Ends(w) ==
    CASE ~w.wayland -> "broken"
      [] w.wayland /\ "kwin" \in w.groups /\ "kwin" \notin w.running -> "kwin_ended"
      [] w.wayland /\ ~("kwin" \in w.groups /\ "kwin" \notin w.running) /\ ~w.input -> "input_closed"
      [] OTHER -> IF w.watch.on /\ w.watch.returned THEN "taken_at_the_machine"
                  ELSE IF w.screens = << >> THEN "no_screens"
                  ELSE IF \E i \in DOMAIN w.screens : w.screens[i].bad \/ w.screens[i].stream /= "created"
                       THEN "stream_closed" ELSE "none"
\* PlasmaProcesses::stop: the whole process group, with the programs of the
\* session.
StopPlasma(w, group) ==
    IF group \notin w.groups THEN w
    ELSE [w EXCEPT !.running = @ \ (IF group = "kwin" THEN {"kwin", "programs"} ELSE {group})]
\* ~PlasmaHeadlessDesktop and its members: the layout, the input and its
\* place in KWin (~KWinEis), the streams, the connection, the processes.
DestroyPlasma(w, why) ==
    LET stopped == StopPlasma(StopPlasma([w EXCEPT !.input = FALSE, !.eis = FALSE], "kwin"), "dbus")
    IN  [NoPlasma EXCEPT !.end = why, !.running = stopped.running, !.eis = stopped.eis]

\* ---- starting ----------------------------------------------------------

\* PlasmaProcesses::start: a bus, then KWin, each in a process group of its
\* own; KWin starts the session's programs.
Started(w, reached) ==
    LET groups == {"dbus", "kwin"} \cap reached
    IN  [w EXCEPT !.groups = groups, !.running = groups \cup (IF "kwin" \in groups THEN {"programs"} ELSE {})]
\* WaylandConnection::connect
Connected(w, reached) ==
    IF "socket" \in reached THEN [w EXCEPT !.phase = "connected", !.wayland = TRUE] ELSE DestroyPlasma(w, "failed")
\* launch(): the processes, then a connection as soon as KWin answers.
LaunchPlasma(reached) ==
    /\ plasma.phase = "none"
    /\ plasma' = Connected(Started([NoPlasma EXCEPT !.attach = FALSE], reached), reached)
\* start(), attaching: the sockets there are, in turn.
AttachPlasma(reached, seat) ==
    /\ plasma.phase = "none"
    /\ plasma' = Connected([NoPlasma EXCEPT !.attach = TRUE, !.seat = seat], reached)
\* take_the_session
ScreenTaken(w, watched) ==
    IF ~watched THEN NoWatch
    ELSE [NoWatch EXCEPT !.on = TRUE, !.active = w.seat = "session", !.taken = w.seat = "session"]
\* Screencast::create, OutputManagement::create; virtual outputs only where
\* KWin has them and the session is not our own.
BindKWin(virtual, managed) ==
    /\ plasma.phase = "connected" /\ (virtual => plasma.attach)
    /\ \E watched \in BOOLEAN :
         plasma' = [plasma EXCEPT !.phase = "streaming", !.virtual = virtual, !.managed = managed,
                                  !.watch = ScreenTaken(plasma, virtual /\ watched)]
NoScreencast == plasma.phase = "connected" /\ plasma' = DestroyPlasma(plasma, "failed")
\* The first virtual output, or (start_streams) the outputs KWin has.
StartStreams ==
    /\ plasma.phase = "streaming"
    /\ plasma' = IF plasma.virtual THEN [AddPlasmaScreen(plasma, PlasmaStart) EXCEPT !.phase = "waiting"]
                 ELSE [plasma EXCEPT !.phase = "waiting", !.pending = <<NewPlasmaScreen(0, KWinsOwn, TRUE)>>]
\* wait_for_first_screen and, mirrored, wait_for_first_frames: one round, or
\* the deadline.
WaitForFirstScreen ==
    /\ plasma.phase = "waiting"
    /\ LET w == ServicePending(ReadSeat(plasma))
       IN  \/ w.wayland /\ w.screens /= << >> /\ plasma' = [w EXCEPT !.phase = "framed"]
           \/ w.wayland /\ w.screens = << >> /\ w.pending /= << >> /\ w /= plasma /\ plasma' = w
           \/ (~w.wayland \/ w.screens = << >>) /\ plasma' = DestroyPlasma(w, "failed")
\* KWinEis::connect asks until the deadline; then libei, the targets and
\* the clipboard.
ConnectEis ==
    /\ plasma.phase = "framed"
    /\ plasma' = apply_targets([plasma EXCEPT !.eis = TRUE, !.input = TRUE, !.targets = Len(plasma.screens),
                                              !.phase = "running"])
NoEis(libei) ==
    /\ plasma.phase = "framed" /\ plasma' = DestroyPlasma([plasma EXCEPT !.eis = libei], "failed")

\* ---- running -----------------------------------------------------------

\* set_held(true), by the agent, once: the layout first, then the seat.
SetHeld(how) ==
    /\ plasma.phase = "running" /\ ~plasma.held
    /\ LET w == [plasma EXCEPT !.held = TRUE, !.settled = FALSE]
       IN  plasma' = IF ~w.virtual THEN w ELSE HandOver(ensure_layout(w), how).w
\* dispatch(), and the closed() its caller asks next.
DispatchPlasma(how) ==
    /\ plasma.phase = "running" /\ ~plasma.settled
    /\ LET seen == ReadSeat(plasma)
           w == [ServicePending(KeepSeat(seen, how)) EXCEPT !.decided = IF seen.watch.returned THEN "none" ELSE @,
                                                            !.settled = TRUE]
       IN  plasma' = IF Ends(w) = "none" THEN w ELSE DestroyPlasma(w, IF w.end = "none" THEN Ends(w) ELSE w.end)
\* catch_up_after_a_refusal, seat_return_catch_up later: by then KWin has
\* told what it did.
CatchUp ==
    /\ plasma.phase = "running" /\ plasma.catchUp /\ plasma.news = << >>
    /\ \A i \in DOMAIN plasma.screens : plasma.screens[i].told = plasma.screens[i].shown
    /\ plasma' = ensure_layout(AskAgain([plasma EXCEPT !.catchUp = FALSE]))

\* request_screen_sizes
SizedScreens(w, s, size) ==
    IF s.size = size THEN s
    ELSE IF Resizable(w, s) THEN [PlasmaRequest(w, s, size) EXCEPT !.size = size, !.scaled = FALSE]
    ELSE [s EXCEPT !.size = size, !.scaled = TRUE]
TrimmedList(w, n) ==
    LET k == Len(w.screens)
    IN  IF k + Len(w.pending) <= n THEN w
        ELSE IF k <= n THEN [w EXCEPT !.pending = SubSeq(@, 1, n - k)]
        ELSE [w EXCEPT !.pending = << >>, !.screens = SubSeq(@, 1, n)]
\* The input regions are left as they are.
TrimmedOnly(w, n) == TrimmedList(w, n)
TrimmedScreens(w, n) == IF TrimmedList(w, n) = w THEN w ELSE apply_targets(TrimmedList(w, n))
AllSized(w, sizes) ==
    LET k == Len(w.screens)
    IN  [w EXCEPT !.screens = [i \in DOMAIN @ |-> SizedScreens(w, @[i], sizes[i])] \o << >>,
                  !.pending = [i \in DOMAIN @ |-> SizedScreens(w, @[i], sizes[i + k])] \o << >>]
MoreOutputs(w, sizes) ==
    LET k == Len(w.screens) + Len(w.pending)
    IN  IF k >= Len(sizes) THEN w
        ELSE FoldLeft(LAMBDA v, size : AddPlasmaScreen(v, size), w, SubSeq(sizes, k + 1, Len(sizes)))
ClientAsksSizes(sizes) ==
    /\ plasma.phase = "running" /\ plasma.held /\ (plasma.virtual \/ (plasma.managed /\ ~plasma.attach)) /\ MayAct
    /\ sizes # [i \in DOMAIN plasma.screens |-> plasma.screens[i].size]
    /\ LET w == Acted(plasma)
       IN  IF plasma.virtual THEN plasma' = MoreOutputs(AllSized(TrimmedScreens(w, Len(sizes)), sizes), sizes)
           ELSE plasma' = [w EXCEPT !.screens = [i \in DOMAIN @ |-> [PlasmaRequest(w, @[i], sizes[i]) EXCEPT !.size = sizes[i]]]
                                                \o << >>]
\* set_screen_targets
ClientPlaces ==
    /\ plasma.phase = "running" /\ plasma.targets /= Len(plasma.screens) + Len(plasma.pending)
    /\ plasma' = apply_targets([plasma EXCEPT !.targets = Len(plasma.screens) + Len(plasma.pending)])
\* seat_takeover_decided, and the end of its grace.
Decide(allowed) ==
    /\ plasma.phase = "running" /\ plasma.seat = "greeter" /\ plasma.settled /\ MayAct
    /\ plasma' = Acted([plasma EXCEPT !.refused = ~allowed, !.decided = IF allowed THEN "allowed" ELSE "refused"])
GraceEnds ==
    /\ plasma.refused /\ plasma.news = << >> /\ MayAct
    /\ plasma' = Acted([plasma EXCEPT !.refused = FALSE, !.decided = "none"])
\* The client goes, and an attached desktop with it; one of our own stays.
Release ==
    /\ plasma.phase = "running" /\ plasma.held /\ MayAct
    /\ plasma' = IF plasma.attach THEN DestroyPlasma(Acted(plasma), "released")
                 ELSE Acted([plasma EXCEPT !.held = FALSE])

\* ---- environment -------------------------------------------------------

\* One failure is noticed before the next.
Undisturbed == MayAct /\ (plasma.phase = "running" => plasma.settled)

\* KWin makes an output and a stream with its first frame, announcing the
\* output before or later, refuses or ends a stream, follows a size, or says
\* what size it chose.
KWinDoes(s, what) ==
    CASE what = "announce" -> [s EXCEPT !.announced = TRUE]
      [] what = "create" -> [s EXCEPT !.stream = "created", !.announced = TRUE]
      [] what = "create_first" -> [s EXCEPT !.stream = "created"]
      [] what = "fail" -> [s EXCEPT !.stream = IF @ = "pending" THEN "failed" ELSE "closed"]
      [] what = "break" -> [s EXCEPT !.bad = TRUE]
      [] what = "follow" -> [s EXCEPT !.shown = s.wish, !.told = s.wish, !.wish = 0]
      [] what = "tell" -> [s EXCEPT !.told = s.shown]
KWinMay(s, what) ==
    CASE what = "announce" -> ~s.announced /\ s.stream = "created"
      [] what = "create" -> s.stream = "pending"
      [] what = "create_first" -> s.stream = "pending" /\ ~s.announced
      [] what \in {"fail", "break"} -> Usable(s) /\ (what = "break" => s.capture)
      [] what = "follow" -> s.wish /= 0
      [] what = "tell" -> s.told /= s.shown
KWinStep(field, i, what) ==
    /\ plasma.phase \in {"waiting", "running"} /\ i \in DOMAIN plasma[field] /\ KWinMay(plasma[field][i], what)
    /\ what \in {"fail", "break"} => Undisturbed
    /\ plasma' = [plasma EXCEPT ![field][i] = KWinDoes(@, what), !.settled = FALSE,
                                !.acts = IF what \in {"fail", "break"} THEN @ + 1 ELSE @]
KWinBreaks ==
    /\ plasma.phase \in {"waiting", "running"} /\ plasma.wayland /\ Undisturbed
    /\ plasma' = Acted([plasma EXCEPT !.wayland = FALSE])
KWinExits ==
    /\ "kwin" \in plasma.running /\ plasma.phase \in {"waiting", "running"} /\ Undisturbed
    /\ plasma' = Acted([plasma EXCEPT !.running = @ \ {"kwin"}])
EisCloses == plasma.phase = "running" /\ plasma.input /\ Undisturbed /\ plasma' = Acted([plasma EXCEPT !.input = FALSE])
\* Somebody at the machine: the login screen goes or something else comes.
SomebodySwitches(who) ==
    /\ plasma.phase \in {"waiting", "running"} /\ plasma.virtual /\ plasma.seat /= who /\ MayAct /\ Len(plasma.news) < 2
    /\ plasma' = Acted(SeatTurns(plasma, who))
FarlanddHands == plasma.asked /\ plasma' = [SeatTurns(plasma, "greeter") EXCEPT !.asked = FALSE, !.settled = FALSE]

PlasmaNext ==
    \/ \E reached \in {{}, {"dbus"}, {"dbus", "kwin"}, {"dbus", "kwin", "socket"}} : LaunchPlasma(reached)
    \/ \E reached \in {{}, {"socket"}}, seat \in {"session", "greeter"} : AttachPlasma(reached, seat)
    \/ \E virtual, managed \in BOOLEAN : BindKWin(virtual, managed)
    \/ NoScreencast \/ StartStreams \/ WaitForFirstScreen \/ ConnectEis
    \/ \E libei \in BOOLEAN : NoEis(libei)
    \/ \E how \in {"switch", "ask", "fail"} : SetHeld(how) \/ DispatchPlasma(how)
    \/ CatchUp \/ (\E n \in 1..PlasmaScreens, size \in PlasmaSizes : ClientAsksSizes([i \in 1..n |-> size]))
    \/ ClientPlaces \/ (\E allowed \in BOOLEAN : Decide(allowed))
    \/ GraceEnds \/ Release
    \/ \E field \in {"screens", "pending"}, i \in 1..PlasmaScreens,
          what \in {"announce", "create", "create_first", "fail", "break", "follow", "tell"} : KWinStep(field, i, what)
    \/ KWinBreaks \/ KWinExits \/ EisCloses \/ (\E who \in {"session", "other"} : SomebodySwitches(who)) \/ FarlanddHands

PlasmaSpec == PlasmaInit /\ [][PlasmaNext]_plasma

\* ---- properties --------------------------------------------------------

\* Input goes where it is meant: the regions the client's pointer is sent to
\* are those of the screens there are, in their order and under the names
\* they have, however screens come, go and are renamed.
InputFollowsScreens ==
    (plasma.phase = "running" /\ plasma.input) => plasma.regions = ScreenRegions(plasma)

\* After a dispatch, with nothing asked of KWin and nothing left to tell,
\* every screen has the size the client wants: also after a refused login
\* let KWin have the seat, and its own sizes, for a moment.  Excepted are a
\* size asked for before KWin had announced the output (scaled), and a
\* session that was off its seat when it was taken or is not watched.
SizesComeBack ==
    (plasma.phase = "running" /\ plasma.virtual /\ plasma.managed /\ plasma.settled /\ ~plasma.catchUp
       /\ plasma.watch.on /\ plasma.news = << >> /\ plasma.watch.taken)
        => \A i \in DOMAIN plasma.screens :
             LET s == plasma.screens[i]
             IN  (s.named /\ ~s.scaled /\ s.wish = 0 /\ s.told = s.shown) => s.shown = s.size

\* What was decided about a login at the machine is what happens to the
\* session: the return of an allowed one ends the desktop, the return after
\* a refusal does not, and one refusal excuses one return.
PlasmaDecisionHolds ==
    (plasma.phase = "running" /\ KeepsRendering(plasma) /\ plasma.watch.left /\ plasma.wayland
        /\ plasma.news = <<TRUE>> /\ plasma'.news = << >>)
       => IF plasma.decided = "refused" THEN plasma'.end # "taken_at_the_machine" ELSE plasma'.phase = "none"

\* A desktop that is gone, or failed at any point of its start, has left no
\* process of its session, no bus and no place in KWin's input behind, also
\* when KWin had exited before.
PlasmaLeavesNothing == plasma.phase = "none" => plasma.running = {} /\ ~plasma.eis

\* The Plasma desktop: input follows the screens, the sizes come back, and a
\* stopped session leaves nothing.
PlasmaCorrect ==
    /\ InputFollowsScreens
    /\ SizesComeBack
    /\ PlasmaLeavesNothing
====
