---- MODULE KWinOutputs ----
(***************************************************************************)
(* Output sizes and the layout of a Plasma session, through KWin's output  *)
(* management (platform/kwin/output_management.cpp) on a Wayland           *)
(* connection (platform/kwin/wayland_connection.cpp).  A size takes two    *)
(* configurations, one that makes the mode and one that switches to it;    *)
(* the layout is a third kind, one at a time.  KWin is the environment:    *)
(* requests and events travel in order, each takes its time, KWin may      *)
(* refuse or be late, and it describes an output before or after it        *)
(* answers.                                                                *)
(***************************************************************************)
EXTENDS Integers, Sequences, SequencesExt, FiniteSets, FiniteSetsExt

CONSTANTS
    OutputSizes,   \* widths that are asked for; outputs come with the least of them
    VirtualOutputs,\* bound: virtual outputs KWin can have at once, 1..VirtualOutputs
    MaxRefusals,   \* max_refusals
    OutputActs     \* bound: requests, outputs that come or go, refusals and timeouts in one behaviour

VARIABLE outmgr

SeatOutput == 0
TheLayout == -1  \* who a configuration is of, when not an output
FirstSize == Min(OutputSizes)
NoLayout == [on |-> FALSE, wanted |-> << >>, before |-> << >>, restoring |-> FALSE, cfg |-> 0, refusals |-> 0,
             retry |-> FALSE]
\* What KWin has: a width, the modes it can switch to, a place, a rank.
Output(id, x, prio) == [id |-> id, size |-> FirstSize, modes |-> {FirstSize}, x |-> x, prio |-> prio]
\* OutputManagement::Device
Device(id) == [id |-> id, known |-> FALSE, size |-> 0, modes |-> {}, x |-> 0, prio |-> 0, step |-> "idle",
               wanted |-> 0, refused |-> 0, refusals |-> 0, retry |-> FALSE, cfg |-> 0]

\* The devices are described when create() returns; the first virtual output
\* is there.
OutputsInit ==
    LET outs == <<Output(SeatOutput, 0, 2), Output(1, FirstSize, 4)>>
    IN  outmgr = [devs |-> [k \in DOMAIN outs |-> [Device(outs[k].id) EXCEPT
                              !.known = TRUE, !.size = FirstSize, !.modes = {FirstSize}, !.x = outs[k].x,
                              !.prio = outs[k].prio]] \o << >>,
                  layout |-> NoLayout, requests |-> << >>, alive |-> {}, events |-> << >>, outs |-> outs,
                  acts |-> 0, leaving |-> FALSE, refusing |-> FALSE, asked |-> [id \in 1..VirtualOutputs |-> 0],
                  excused |-> {}, overtaken |-> {}, late |-> {}, spoilt |-> FALSE, original |-> << >>]

SpendAct(w) == [w EXCEPT !.acts = @ + 1]
\* find(): by name, which KWin tells with the description.
Find(w, id) == {i \in DOMAIN w.devs : w.devs[i].id = id /\ w.devs[i].known}
Known(w, id) == Find(w, id) /= {}
The(w, id) == CHOOSE i \in Find(w, id) : TRUE
HasOutput(w, id) == \E i \in DOMAIN w.outs : w.outs[i].id = id
OutputOf(w, id) == w.outs[CHOOSE i \in DOMAIN w.outs : w.outs[i].id = id]
\* resizable(): KWin's virtual outputs take custom modes, a monitor does not.
resizable(w, id) == Known(w, id) /\ id /= SeatOutput

\* A configuration is an object of its own; its listener runs while it is
\* not destroyed.
FreshCfg(w) ==
    CHOOSE c \in 1..(Cardinality(w.alive) + Len(w.requests) + Len(w.events) + 1) :
        /\ \A a \in w.alive : a.cfg /= c
        /\ \A i \in DOMAIN w.requests : w.requests[i].cfg /= c
        /\ \A i \in DOMAIN w.events : w.events[i].kind = "answer" => w.events[i].cfg /= c
drop_configuration(w, cfg) == [w EXCEPT !.alive = {a \in @ : a.cfg /= cfg}]

\* ---- sizes -------------------------------------------------------------

SendMode(w, i, step) ==
    LET c == FreshCfg(w) d == w.devs[i]
    IN  [w EXCEPT !.devs[i].step = step, !.devs[i].cfg = c, !.alive = @ \cup {[cfg |-> c, of |-> d.id]},
                  !.overtaken = @ \ {d.id},
                  !.requests = Append(@, [kind |-> step, cfg |-> c, id |-> d.id, size |-> d.wanted])]
\* advance
advance(w, i) ==
    LET d == w.devs[i]
    IN  CASE d.wanted = 0 \/ d.refused = d.wanted -> [w EXCEPT !.devs[i].step = "idle"]
          [] d.wanted /= 0 /\ d.refused /= d.wanted /\ d.size = d.wanted ->
                 [w EXCEPT !.devs[i].step = "idle", !.devs[i].wanted = 0]
          [] OTHER -> IF d.wanted \in d.modes THEN SendMode(w, i, "switch_mode")
                      ELSE IF d.step = "new_mode" THEN w ELSE SendMode(w, i, "custom_modes")
\* request_size
request_size(w, id, size) ==
    IF ~resizable(w, id) THEN w
    ELSE LET i == The(w, id) d == w.devs[i]
             v == [w EXCEPT !.devs[i].wanted = size, !.devs[i].refusals = IF d.wanted /= size THEN 0 ELSE @,
                            !.devs[i].retry = @ /\ d.wanted = size]
         IN  IF d.refused = size THEN v
             ELSE IF d.step /= "idle" THEN [v EXCEPT !.devs[i].refused = 0]
             ELSE advance([v EXCEPT !.devs[i].refused = 0], i)
\* configuration_done
RefusedSize(w, i) ==
    LET d == w.devs[i] again == d.refusals + 1 < MaxRefusals
    IN  [w EXCEPT !.devs[i].step = "idle", !.devs[i].refusals = @ + 1, !.devs[i].retry = again,
                  !.devs[i].refused = IF again THEN @ ELSE d.wanted,
                  !.excused = IF again THEN @ ELSE @ \cup {d.id}]
AppliedBy(w, i) ==
    [w EXCEPT !.devs[i].refusals = 0,
              !.devs[i].step = IF @ = "custom_modes" THEN "new_mode" ELSE "idle"]
configuration_done(w, i, applied) ==
    LET v == [drop_configuration(w, w.devs[i].cfg) EXCEPT !.devs[i].cfg = 0]
    IN  IF applied THEN advance(AppliedBy(v, i), i) ELSE RefusedSize(v, i)

\* ---- the layout --------------------------------------------------------

OthersOf(w) ==
    SelectSeq(w.devs, LAMBDA d : d.known /\ \A k \in DOMAIN w.layout.wanted : w.layout.wanted[k] /= d.id)
\* layout_target: the screens named, side by side and first in rank, beside
\* and before the ones that stay; nothing while one is not announced.
layout_target(w) ==
    LET others == OthersOf(w)
        wanted == w.layout.wanted
        start == Max({0} \cup {others[k].x + others[k].size : k \in DOMAIN others})
        width(k) == w.devs[The(w, wanted[k])].size
        place(k) == start + MapThenSumSet(width, 1..(k - 1))
    IN  IF w.layout.restoring THEN w.layout.before
        ELSE IF \E k \in DOMAIN wanted : ~Known(w, wanted[k]) THEN << >>
        ELSE [k \in DOMAIN wanted |-> [id |-> wanted[k], x |-> place(k), prio |-> k]]
             \o [k \in DOMAIN others |-> [id |-> others[k].id, x |-> others[k].x, prio |-> Len(wanted) + k]]
\* layout_reached: the order of the ranks counts, not their numbers.
layout_reached(w) ==
    LET target == layout_target(w)
        dev(k) == w.devs[The(w, target[k].id)]
    IN  /\ target /= << >>
        /\ \A k \in DOMAIN target :
             /\ Known(w, target[k].id) /\ dev(k).x = target[k].x
             /\ k > 1 => dev(k).prio > dev(k - 1).prio
\* apply_layout
apply_layout(w) ==
    LET target == layout_target(w) c == FreshCfg(w)
    IN  IF ~w.layout.on \/ w.layout.cfg /= 0 \/ w.layout.retry \/ target = << >> \/ layout_reached(w) THEN w
        ELSE [w EXCEPT !.layout.cfg = c, !.alive = @ \cup {[cfg |-> c, of |-> TheLayout]},
                       !.requests = Append(@, [kind |-> "layout", cfg |-> c,
                                               entries |-> SelectSeq(target, LAMBDA e : Known(w, e.id))])]
Remembered(w) ==
    LET known == SelectSeq(w.devs, LAMBDA d : d.known)
    IN  [k \in DOMAIN known |-> [id |-> known[k].id, x |-> known[k].x, prio |-> known[k].prio]]
\* request_layout
request_layout(w, ids) ==
    apply_layout([w EXCEPT !.layout = [NoLayout EXCEPT !.on = TRUE, !.wanted = ids, !.cfg = w.layout.cfg,
                                          !.before = IF w.layout.on THEN w.layout.before ELSE Remembered(w)]])
\* layout_done
layout_done(w, applied) ==
    LET v == [drop_configuration(w, w.layout.cfg) EXCEPT !.layout.cfg = 0]
        again == w.layout.refusals + 1 < MaxRefusals
    IN  IF ~w.layout.on THEN w
        ELSE IF applied THEN [v EXCEPT !.layout.refusals = 0]
        ELSE [v EXCEPT !.layout.refusals = @ + 1, !.layout.retry = again, !.spoilt = @ \/ ~again]
\* restore_layout, its start: what was there is asked for.
restore_layout(w) ==
    apply_layout([w EXCEPT !.layout = [NoLayout EXCEPT !.on = TRUE, !.restoring = TRUE, !.cfg = w.layout.cfg,
                                                       !.before = w.layout.before]])

\* ---- requests ----------------------------------------------------------

May(w) == ~w.leaving /\ w.acts < OutputActs
AskSize(id, size) ==
    /\ May(outmgr) /\ resizable(outmgr, id)
    /\ LET d == outmgr.devs[The(outmgr, id)]
           w == request_size(SpendAct(outmgr), id, size)
       IN  outmgr' = [w EXCEPT !.asked[id] = size,
                               !.overtaken = IF d.step \in {"custom_modes", "new_mode"} /\ d.wanted /= size
                                             THEN @ \cup {id} ELSE @,
                               !.excused = IF outmgr.asked[id] = size THEN @ ELSE @ \ {id}]
AskLayout(ids) ==
    /\ May(outmgr) /\ \A k \in DOMAIN ids : HasOutput(outmgr, ids[k])
    /\ LET w == request_layout(SpendAct(outmgr), ids)
       IN  outmgr' = [w EXCEPT !.original = IF outmgr.layout.on THEN @ ELSE Remembered(outmgr)]
\* The desktop goes (~OutputManagement): restore_layout, and its loop until
\* KWin has answered.
Leave ==
    /\ ~outmgr.leaving /\ outmgr.layout.on /\ outmgr.layout.before /= << >>
    /\ outmgr' = [restore_layout(outmgr) EXCEPT !.leaving = TRUE, !.spoilt = outmgr.layout.cfg /= 0]
RestoreIsOver(w) == w.leaving /\ w.layout.cfg = 0 /\ ~w.layout.retry
restore_layout_gives_up ==
    /\ outmgr.leaving /\ ~RestoreIsOver(outmgr) /\ outmgr.acts < OutputActs
    /\ outmgr' = SpendAct([outmgr EXCEPT !.layout.cfg = 0, !.layout.retry = FALSE, !.spoilt = TRUE,
                                         !.alive = {a \in @ : a.of /= TheLayout}])

\* ---- timers (check_timeouts) -------------------------------------------

\* The configuration outlives the wait for it.
TimeOutKeeping(w, i) ==
    [w EXCEPT !.devs[i].step = "idle", !.devs[i].cfg = 0, !.devs[i].retry = FALSE, !.devs[i].refused = w.devs[i].wanted]
TimeOut(w, i) ==
    [drop_configuration(w, w.devs[i].cfg) EXCEPT !.devs[i].step = "idle", !.devs[i].cfg = 0, !.devs[i].retry = FALSE,
                                                 !.devs[i].refused = w.devs[i].wanted]
StepTimesOut(i) ==
    /\ outmgr.acts < OutputActs /\ i \in DOMAIN outmgr.devs /\ outmgr.devs[i].step /= "idle"
    /\ outmgr' = SpendAct([TimeOut(outmgr, i) EXCEPT !.late = @ \cup {outmgr.devs[i].id}])
RetryIsDue(i) ==
    /\ i \in DOMAIN outmgr.devs /\ outmgr.devs[i].step = "idle" /\ outmgr.devs[i].retry
    /\ outmgr' = advance([outmgr EXCEPT !.devs[i].retry = FALSE], i)
LayoutTimesOut ==
    /\ outmgr.acts < OutputActs /\ outmgr.layout.cfg /= 0
    /\ outmgr' = SpendAct([drop_configuration(outmgr, outmgr.layout.cfg)
                              EXCEPT !.layout.cfg = 0, !.layout.retry = FALSE, !.spoilt = TRUE])
LayoutRetryIsDue ==
    /\ outmgr.layout.retry
    /\ outmgr' = apply_layout([outmgr EXCEPT !.layout.retry = FALSE])

\* ---- events ------------------------------------------------------------

\* add_device, remove_device, done and the answers, as dispatch() reads them.
remove_device(w, id) ==
    LET i == CHOOSE k \in DOMAIN w.devs : w.devs[k].id = id
    IN  [drop_configuration(w, w.devs[i].cfg) EXCEPT !.devs = RemoveAt(@, i), !.asked[id] = 0,
                                                        !.excused = @ \ {id}, !.overtaken = @ \ {id}, !.late = @ \ {id}]
\* geometry, mode, current_mode, capabilities, name and priority, of every
\* output that changed: told before the event they belong to.
Described(d, outs) ==
    LET mine == {k \in DOMAIN outs : outs[k].id = d.id}
    IN  IF mine = {} THEN d
        ELSE LET o == outs[CHOOSE k \in mine : TRUE]
             IN  [d EXCEPT !.known = TRUE, !.size = o.size, !.modes = o.modes, !.x = o.x, !.prio = o.prio]
Told(w, outs) == [w EXCEPT !.devs = [i \in DOMAIN @ |-> Described(@[i], outs)] \o << >>]
done(w, id) ==
    LET i == CHOOSE k \in DOMAIN w.devs : w.devs[k].id = id
    IN  apply_layout(IF w.devs[i].step \in {"new_mode", "idle"} THEN advance(w, i) ELSE w)
KWinAnswers(w, cfg, ok) ==
    IF \A a \in w.alive : a.cfg /= cfg THEN w
    ELSE LET a == CHOOSE x \in w.alive : x.cfg = cfg
         IN  IF a.of = TheLayout THEN layout_done(w, ok)
             ELSE configuration_done(w, CHOOSE k \in DOMAIN w.devs : w.devs[k].id = a.of, ok)
Handled(w, e) ==
    CASE e.kind = "add" -> [w EXCEPT !.devs = Append(@, Device(e.id))]
      [] e.kind = "remove" -> remove_device(w, e.id)
      [] e.kind = "done" -> done(Told(w, e.told), e.id)
      [] e.kind = "answer" -> KWinAnswers(Told(w, e.told), e.cfg, e.ok)
DispatchOutputs ==
    /\ outmgr.events /= << >>
    /\ ~RestoreIsOver(outmgr)
    /\ outmgr' = Handled([outmgr EXCEPT !.events = Tail(@)], Head(outmgr.events))

\* ---- KWin --------------------------------------------------------------

\* What a configuration makes of an output.  A list of modes replaces the
\* last one; ranks are numbered KWin's own way.
Configured(o, q) ==
    CASE q.kind = "layout" ->
             LET mine == {k \in DOMAIN q.entries : q.entries[k].id = o.id}
             IN  IF mine = {} THEN o
                 ELSE LET e == q.entries[CHOOSE k \in mine : TRUE]
                      IN  [o EXCEPT !.x = e.x, !.prio = 2 * Cardinality({k \in DOMAIN q.entries : q.entries[k].prio <= e.prio})]
      [] q.kind = "custom_modes" /\ q.id = o.id -> [o EXCEPT !.modes = {FirstSize, q.size}]
      [] q.kind = "switch_mode" /\ q.id = o.id -> [o EXCEPT !.size = q.size]
      [] OTHER -> o
DeviceChanged(before, after) == SelectSeq(after, LAMBDA o : \A k \in DOMAIN before : before[k] /= o)
\* What changed is told as it changes; that it is complete, before or after
\* the answer.  A new mode may be told of after the answer altogether.
KWinApplies(q, order) ==
    LET outs == [k \in DOMAIN outmgr.outs |-> Configured(outmgr.outs[k], q)] \o << >>
        changed == DeviceChanged(outmgr.outs, outs)
        complete(told) == [k \in DOMAIN changed |-> [kind |-> "done", id |-> changed[k].id, told |-> told]]
        answer(told) == <<[kind |-> "answer", cfg |-> q.cfg, ok |-> TRUE, told |-> told]>>
    IN  /\ order = "answer_first" => q.kind = "custom_modes"
        /\ outmgr' = [outmgr EXCEPT !.outs = outs, !.requests = Tail(@), !.refusing = FALSE,
                        !.events = @ \o (CASE order = "answer_last" -> complete(changed) \o answer(<< >>)
                                           [] order = "done_last" -> answer(changed) \o complete(<< >>)
                                           [] order = "answer_first" -> answer(<< >>) \o complete(changed))]
\* KWin refuses, once or for a while: the session is off its seat, or
\* outputs come and go.
KWinRefuses(q) ==
    /\ outmgr.refusing \/ outmgr.acts < OutputActs
    /\ outmgr' = [outmgr EXCEPT !.acts = IF outmgr.refusing THEN @ ELSE @ + 1, !.refusing = TRUE, !.requests = Tail(@),
                                !.events = Append(@, [kind |-> "answer", cfg |-> q.cfg, ok |-> FALSE, told |-> << >>])]
KWinAnswersOne ==
    /\ outmgr.requests /= << >>
    /\ LET q == Head(outmgr.requests)
       IN  (\E order \in {"answer_first", "answer_last", "done_last"} : KWinApplies(q, order)) \/ KWinRefuses(q)
\* A virtual output comes, at the right and last in rank, or goes.
OutputComes(id) ==
    /\ May(outmgr) /\ ~HasOutput(outmgr, id) /\ outmgr.requests = << >> /\ \A i \in DOMAIN outmgr.devs : outmgr.devs[i].id /= id
    /\ LET outs == outmgr.outs
           right == Max({outs[k].x + outs[k].size : k \in DOMAIN outs})
           o == Output(id, right, 2 + Max({outs[k].prio : k \in DOMAIN outs}))
       IN  outmgr' = SpendAct([outmgr EXCEPT !.outs = Append(@, o),
                                  !.events = @ \o <<[kind |-> "add", id |-> id],
                                                    [kind |-> "done", id |-> id, told |-> <<o>>]>>])
OutputGoes(id) ==
    /\ May(outmgr) /\ HasOutput(outmgr, id)
    /\ outmgr' = SpendAct([outmgr EXCEPT !.outs = SelectSeq(@, LAMBDA o : o.id /= id),
                              !.events = Append(@, [kind |-> "remove", id |-> id])])

OutputsNext ==
    \/ \E id \in 1..VirtualOutputs, size \in OutputSizes : AskSize(id, size)
    \/ \E ids \in {<<1>>, <<1, 2>>} : AskLayout(ids)
    \/ Leave \/ restore_layout_gives_up \/ LayoutTimesOut \/ LayoutRetryIsDue
    \/ \E i \in 1..(VirtualOutputs + 1) : StepTimesOut(i) \/ RetryIsDue(i)
    \/ DispatchOutputs \/ KWinAnswersOne
    \/ \E id \in 2..VirtualOutputs : OutputComes(id) \/ OutputGoes(id)

OutputsSpec == OutputsInit /\ [][OutputsNext]_outmgr

\* ---- properties --------------------------------------------------------

Quiet(w) == w.requests = << >> /\ w.events = << >>
\* A resize that waits for KWin is owed something by KWin: when no request
\* and no event is on its way, no output is between two steps, whichever
\* of the description and the answer came first.  Excepted is an output
\* that another size was asked of while the mode of the first was being made
\* (overtaken): the mode of the other never is, and only step_timeout ends it.
WaitsForKWin ==
    Quiet(outmgr) => \A i \in DOMAIN outmgr.devs : outmgr.devs[i].step = "idle" \/ outmgr.devs[i].id \in outmgr.overtaken

\* Once all is quiet and no timer runs, an output has the size last asked
\* for, unless KWin refused that size every time or was late once.
SizeIsReached ==
    (Quiet(outmgr) /\ ~outmgr.leaving
       /\ \A i \in DOMAIN outmgr.devs : outmgr.devs[i].step = "idle" /\ ~outmgr.devs[i].retry)
        => \A id \in 1..VirtualOutputs :
             (outmgr.asked[id] /= 0 /\ id \notin outmgr.excused \cup outmgr.late) => OutputOf(outmgr, id).size = outmgr.asked[id]

\* Every configuration whose listener can still run is the one its output,
\* or the layout, waits for: the answer to a configuration that was given up
\* is never taken for the answer to a later one.
AnswerIsForThisStep ==
    \A a \in outmgr.alive :
        IF a.of = TheLayout THEN outmgr.layout.cfg = a.cfg
        ELSE \E i \in DOMAIN outmgr.devs : outmgr.devs[i].id = a.of /\ outmgr.devs[i].cfg = a.cfg

\* A desktop that goes leaves the session's outputs where they were and in
\* the order they had before its first request, unless KWin refused or was
\* late, or a layout was still on its way when the restoring began.
RestoredAsItWas ==
    (RestoreIsOver(outmgr) /\ ~outmgr.spoilt /\ Quiet(outmgr)) =>
        \A j, k \in DOMAIN outmgr.original :
            (j < k /\ HasOutput(outmgr, outmgr.original[j].id) /\ HasOutput(outmgr, outmgr.original[k].id))
                => OutputOf(outmgr, outmgr.original[j].id).prio < OutputOf(outmgr, outmgr.original[k].id).prio

\* A layout KWin shows already is not asked for again once KWin has said so.
NotAskedForTwice ==
    (Len(outmgr'.requests) > Len(outmgr.requests) /\ Last(outmgr'.requests).kind = "layout"
        /\ outmgr'.events = << >> /\ ~outmgr'.layout.restoring)
       => \E k \in DOMAIN Last(outmgr'.requests).entries :
            LET entries == Last(outmgr'.requests).entries
                o == OutputOf(outmgr', entries[k].id)
            IN  \/ ~HasOutput(outmgr', entries[k].id) \/ o.x /= entries[k].x
                \/ k > 1 /\ HasOutput(outmgr', entries[k - 1].id)
                         /\ o.prio <= OutputOf(outmgr', entries[k - 1].id).prio

\* Driving KWin's outputs: what waits is owed something by KWin, the size
\* asked for is reached, an answer is taken for the step it belongs to, and
\* the layout comes back as it was.
KWinCorrect ==
    /\ WaitsForKWin
    /\ SizeIsReached
    /\ AnswerIsForThisStep
    /\ RestoredAsItWas
====
