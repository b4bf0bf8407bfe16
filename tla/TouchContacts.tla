---- MODULE TouchContacts ----
(***************************************************************************)
(* Touch and pen, from the client to the compositor: the contact state     *)
(* machine of the input channel (channels/rdpei_server.cpp, run by         *)
(* server/touch_input.cpp), the translator that turns contacts into        *)
(* touches, or a first finger and a pen into the left button               *)
(* (platform/input_translator.cpp), and the touches of the compositor's    *)
(* device (platform/portal/ei_input.cpp), which may be paused at any time. *)
(* Coordinates, pressure and pen flags are left out.                       *)
(***************************************************************************)
EXTENDS Integers, FiniteSets

CONSTANTS
    Fingers,     \* touch contact ids
    FingerLimit  \* RdpeiServerConfig::max_touch_contacts

VARIABLE feel

ThePen == 0
FeelInit ==
    feel = [state |-> "idle", suspended |-> FALSE, closed |-> FALSE, most |-> 0,
            phase |-> [id \in Fingers \cup {ThePen} |-> "out"],      \* touch_ and pen_
            touches |-> {}, primary |-> {}, pen |-> FALSE, left |-> FALSE,   \* the translator
            mouse |-> FALSE,                                                 \* the client's mouse button
            resumed |-> TRUE, ei |-> {},                                     \* the touch device, EiInput's touches_
            screen |-> {}, button |-> FALSE, wrong |-> FALSE]                \* what the compositor has down

\* ---- the compositor's device (EiInput) ---------------------------------

\* touch_down, touch_up, touch_cancel; the compositor takes it amiss to be
\* told of a touch it does not have.
TouchDown(w, id) ==
    IF id \in w.ei \/ ~w.resumed THEN w
    ELSE [w EXCEPT !.ei = @ \cup {id}, !.screen = @ \cup {id}, !.wrong = @ \/ id \in w.screen]
TouchEnd(w, id) ==
    IF id \notin w.ei THEN w
    ELSE [w EXCEPT !.ei = @ \ {id}, !.screen = IF w.resumed THEN @ \ {id} ELSE @,
                   !.wrong = @ \/ (w.resumed /\ id \notin w.screen)]
\* drop_touches
DropTouches(w) == [w EXCEPT !.ei = {}]

\* ---- the translator ----------------------------------------------------

\* set_button(0, pressed)
SetLeft(w, pressed) == IF w.left = pressed THEN w ELSE [w EXCEPT !.left = pressed, !.button = pressed]
\* handle_touch
HandleTouch(w, id, action) ==
    IF action = "down"
    THEN IF id \in w.touches \/ id \in w.primary THEN w
         ELSE IF w.resumed THEN TouchDown([w EXCEPT !.touches = @ \cup {id}], id)
         ELSE IF w.primary = {} THEN SetLeft([w EXCEPT !.primary = {id}], TRUE)
         ELSE w
    ELSE IF action \notin {"up", "cancel"} THEN w
    ELSE IF id \in w.touches THEN TouchEnd([w EXCEPT !.touches = @ \ {id}], id)
    ELSE IF id \in w.primary THEN SetLeft([w EXCEPT !.primary = {}], FALSE)
    ELSE w
\* handle_pen
HandlePen(w, action) ==
    CASE action = "down" -> IF w.pen THEN w ELSE SetLeft([w EXCEPT !.pen = TRUE], TRUE)
      [] action \in {"up", "cancel"} -> IF w.pen THEN SetLeft([w EXCEPT !.pen = FALSE], FALSE) ELSE w
      [] action \in {"move", "hover", "leave"} -> w
\* translate, of one contact
Translate(w, id, action) == IF id = ThePen THEN HandlePen(w, action) ELSE HandleTouch(w, id, action)
\* InputTranslator::release_all
TouchesEnded(w) == [w EXCEPT !.ei = @ \ w.touches, !.screen = IF w.resumed THEN @ \ (w.touches \cap w.ei) ELSE @]
ReleaseTranslator(w) ==
    SetLeft([TouchesEnded(w) EXCEPT !.touches = {}, !.primary = {}, !.pen = FALSE], FALSE)

\* ---- the channel (RdpeiServer) -----------------------------------------

\* What each combination of contact flags does in each phase.
Steps ==
    [down |-> [engaged |-> {}, hovering |-> {<<"engaged", "down">>}, out |-> {<<"engaged", "down">>}],
     drag |-> [engaged |-> {<<"engaged", "move">>}, hovering |-> {}, out |-> {}],
     hover |-> [engaged |-> {}, hovering |-> {<<"hovering", "hover">>}, out |-> {<<"hovering", "hover">>}],
     lift |-> [engaged |-> {<<"hovering", "up">>}, hovering |-> {}, out |-> {}],
     up |-> [engaged |-> {<<"out", "up">>}, hovering |-> {}, out |-> {}],
     upCanceled |-> [engaged |-> {<<"out", "cancel">>}, hovering |-> {}, out |-> {}],
     leave |-> [engaged |-> {}, hovering |-> {<<"out", "leave">>}, out |-> {}],
     other |-> [engaged |-> {}, hovering |-> {}, out |-> {}]]
TouchSlots(id) == IF id = ThePen THEN {ThePen} ELSE Fingers
Active(w, id) == Cardinality({j \in TouchSlots(id) : w.phase[j] /= "out"})
Most(w, id) == IF id = ThePen THEN 1 ELSE w.most
\* The violation is not told to the desktop.
StepSilently(w, id, flags) ==
    LET next == Steps[flags][w.phase[id]]
    IN  IF next = {} \/ (w.phase[id] = "out" /\ Active(w, id) >= Most(w, id))
        THEN [w EXCEPT !.phase[id] = "out"]
        ELSE LET to == CHOOSE s \in next : TRUE IN Translate([w EXCEPT !.phase[id] = to[1]], id, to[2])
\* step: a contact that breaks the rules is canceled.
StepContact(w, id, flags) ==
    LET next == Steps[flags][w.phase[id]]
    IN  IF next = {} \/ (w.phase[id] = "out" /\ Active(w, id) >= Most(w, id))
        THEN IF w.phase[id] = "out" THEN w
             ELSE Translate([w EXCEPT !.phase[id] = "out"], id, IF w.phase[id] = "engaged" THEN "cancel" ELSE "leave")
        ELSE LET to == CHOOSE s \in next : TRUE IN Translate([w EXCEPT !.phase[id] = to[1]], id, to[2])
\* release_all, as one frame
Canceled(w, id) == IF w.phase[id] = "engaged" THEN Translate(w, id, "cancel") ELSE w
RECURSIVE CanceledAll(_, _)
CanceledAll(w, ids) ==
    IF ids = {} THEN w
    ELSE LET id == CHOOSE i \in ids : TRUE IN CanceledAll(Canceled(w, id), ids \ {id})
ReleaseContacts(w) ==
    [CanceledAll(w, Fingers \cup {ThePen}) EXCEPT !.phase = [id \in Fingers \cup {ThePen} |-> "out"]]

\* The channel opens: start().
TouchOpens == feel.state = "idle" /\ ~feel.closed /\ feel' = [feel EXCEPT !.state = "waiting"]
\* apply(CsReady): a second one starts over.
TouchReady(w, n) ==
    [(IF w.state = "ready" THEN ReleaseContacts(w) ELSE w) EXCEPT
        !.state = "ready", !.most = IF n < 1 THEN 1 ELSE IF n > FingerLimit THEN FingerLimit ELSE n]
CsReady(n) == feel.state /= "idle" /\ ~feel.closed /\ feel' = TouchReady(feel, n)
Listening == feel.state = "ready" /\ ~feel.closed
\* apply(TouchEvent), apply(PenEvent)
ContactEvent(id, flags) == Listening /\ ~feel.suspended /\ feel' = StepContact(feel, id, flags)
\* apply(DismissHoveringContact)
Dismiss(id) ==
    /\ Listening /\ feel.phase[id] = "hovering"
    /\ feel' = Translate([feel EXCEPT !.phase[id] = "out"], id, "leave")
\* suspend, resume
Suspend == Listening /\ ~feel.suspended /\ feel' = ReleaseContacts([feel EXCEPT !.suspended = TRUE])
Unsuspend == feel.suspended /\ ~feel.closed /\ feel' = [feel EXCEPT !.suspended = FALSE]
\* TouchInput::close, when the client refuses or closes the channel
TouchCloses == feel.state /= "idle" /\ ~feel.closed /\ feel' = ReleaseContacts([feel EXCEPT !.closed = TRUE])

\* The session ends, and the next one begins with a channel of its own.
SessionOver ==
    feel' = LET w == ReleaseTranslator(feel)
            IN  [w EXCEPT !.state = "idle", !.closed = FALSE, !.suspended = FALSE, !.most = 0, !.mouse = FALSE,
                          !.phase = [id \in Fingers \cup {ThePen} |-> "out"]]

\* ---- environment -------------------------------------------------------

\* handle(MouseEvent): the mouse shares the left button.
MouseButton(pressed) == feel.mouse /= pressed /\ feel' = SetLeft([feel EXCEPT !.mouse = pressed], pressed)
\* EI_EVENT_DEVICE_PAUSED: the compositor ends the touches of the device.
PadPauses == feel.resumed /\ feel' = DropTouches([feel EXCEPT !.resumed = FALSE, !.screen = {}])
PadResumes == ~feel.resumed /\ feel' = [feel EXCEPT !.resumed = TRUE]

FeelNext ==
    \/ TouchOpens \/ (\E n \in 0..(FingerLimit + 1) : CsReady(n)) \/ Suspend \/ Unsuspend \/ TouchCloses \/ SessionOver
    \/ \E id \in Fingers \cup {ThePen}, flags \in DOMAIN Steps : ContactEvent(id, flags)
    \/ (\E id \in Fingers : Dismiss(id)) \/ (\E pressed \in BOOLEAN : MouseButton(pressed)) \/ PadPauses \/ PadResumes

FeelSpec == FeelInit /\ [][FeelNext]_feel

\* ---- properties --------------------------------------------------------

\* The compositor is never told of the end of a touch it does not have, nor
\* of a second beginning, however devices pause and clients misbehave.
TouchesAreLegal == ~feel.wrong

\* What is down at the desktop is a contact that is down at the channel:
\* whatever ended a contact there (the client, a broken rule, a suspension, a
\* new CS_READY, the end of the channel or of the session), it has ended at
\* the desktop.
NothingStaysDown ==
    /\ \A id \in feel.screen : feel.phase[id] = "engaged"
    /\ feel.button => feel.mouse \/ \E id \in feel.primary \cup (IF feel.pen THEN {ThePen} ELSE {}) : feel.phase[id] = "engaged"

\* No more contacts are active than the client and the server agreed on,
\* also after the client started over with fewer.
ContactsWithinLimit == feel.state = "ready" => Cardinality({id \in Fingers : feel.phase[id] /= "out"}) <= feel.most

\* Touch contacts: the desktop is sent only legal sequences, nothing stays
\* down, and the contacts stay within the limit.
TouchCorrect ==
    /\ TouchesAreLegal
    /\ NothingStaysDown
    /\ ContactsWithinLimit
====
