---- MODULE InputThreads ----
(***************************************************************************)
(* Keys and buttons on their way to the compositor.  While a client is     *)
(* connected the desktop's input belongs to a thread of its own            *)
(* (apps/farland-server/input_thread.cpp, desktop.cpp), which runs the     *)
(* client's input through the translator (platform/input_translator.cpp)   *)
(* to the devices the compositor offers (platform/portal/ei_input.cpp).    *)
(* Three threads meet: the session's, the input's and the desktop's.  The  *)
(* compositor adds, pauses, resumes and removes devices; a pause may or    *)
(* may not let go of what is held (external).  Positions are left out, but *)
(* for the device the pointer was last moved with.                         *)
(***************************************************************************)
EXTENDS Integers, Sequences, SequencesExt

CONSTANTS
    Codes,        \* keys and buttons
    ButtonCodes,  \* those that are buttons
    DeviceIds,    \* the compositor's devices
    InputChanges, \* bound: changes the desktop makes to its input
    InputJobs     \* bound: jobs in the queue

VARIABLE typing

NoInput == [code \in Codes |-> "no"]
TypingInit ==
    typing = [session |-> "off", posts |-> FALSE, owner |-> "desktop",        \* Desktop
              stopping |-> FALSE, jobs |-> << >>, late |-> << >>,             \* InputThread, under its mutex
              at |-> "none", batch |-> << >>, ends |-> FALSE,                 \* run()
              keys |-> {},                                                    \* InputTranslator
              closed |-> FALSE, devices |-> << >>, last |-> 0,                \* EiInput
              down |-> [id \in DeviceIds |-> {}],                             \* the compositor
              outputs |-> 0, made |-> 0]                                      \* changes applied and made

\* ---- EiInput -----------------------------------------------------------

Index(w, id) == {i \in DOMAIN w.devices : w.devices[i].id = id}
Resumed(w) == {i \in DOMAIN w.devices : w.devices[i].resumed}
\* Paused devices hold nothing.
HolderResumed(w, code) == {i \in Resumed(w) : w.devices[i].held[code] /= "no"}
Holder(w, code) == {i \in DOMAIN w.devices : w.devices[i].held[code] /= "no"}
\* pick: buttons go to the device that moved the pointer last.
Pick(w, code) ==
    LET favourite == {i \in Resumed(w) : w.devices[i].id = w.last}
    IN  IF code \in ButtonCodes /\ favourite /= {} THEN favourite
        ELSE {i \in Resumed(w) : \A j \in Resumed(w) : i <= j}
\* send_held: the compositor's view of it
Sends(w, i, code, pressed) ==
    [w EXCEPT !.down[w.devices[i].id] = IF pressed THEN @ \cup {code} ELSE @ \ {code}]
Held(w, i, code, state) == [w EXCEPT !.devices[i].held[code] = state]
\* press_or_release: a release goes to the device that has the press, and
\* waits there while it is paused.
Press(w, code) ==
    IF Holder(w, code) /= {} THEN Held(w, CHOOSE i \in Holder(w, code) : TRUE, code, "held")
    ELSE IF Pick(w, code) = {} THEN w
    ELSE LET i == CHOOSE j \in Pick(w, code) : TRUE IN Held(Sends(w, i, code, TRUE), i, code, "held")
ReleaseCode(w, code) ==
    IF Holder(w, code) = {} THEN w
    ELSE LET i == CHOOSE j \in Holder(w, code) : TRUE
         IN  IF w.devices[i].resumed THEN Sends(Held(w, i, code, "no"), i, code, FALSE)
             ELSE Held(w, i, code, "released")
PressOrRelease(w, code, pressed) ==
    IF w.closed THEN w ELSE IF pressed THEN Press(w, code) ELSE ReleaseCode(w, code)
\* pointer_motion_absolute: some device that can
Moved(w) == IF w.closed \/ Resumed(w) = {} THEN {w} ELSE {[w EXCEPT !.last = w.devices[i].id] : i \in Resumed(w)}

\* ---- InputTranslator ---------------------------------------------------

\* set_key, set_button
SetCode(w, code, pressed) ==
    IF (code \in w.keys) = pressed THEN w
    ELSE PressOrRelease([w EXCEPT !.keys = IF pressed THEN @ \cup {code} ELSE @ \ {code}], code, pressed)
\* release_everything, also release_all
RECURSIVE ReleaseEverything(_)
ReleaseEverything(w) ==
    IF w.keys = {} THEN w ELSE ReleaseEverything(SetCode(w, CHOOSE code \in w.keys : TRUE, FALSE))
\* What a job of the queue does; the choice is the compositor's regions.
Done(w, job) ==
    CASE job.kind \in {"down", "up"} -> {SetCode(w, job.code, job.kind = "down")}
      [] job.kind = "move" -> Moved(w)
      [] job.kind = "sync" -> {ReleaseEverything(w)}
      [] job.kind = "change" -> {[w EXCEPT !.outputs = job.number]}

\* ---- the session's thread ----------------------------------------------

\* InputThread::start, take_input
StartInput ==
    /\ typing.session = "off" /\ ~typing.closed
    /\ typing' = [typing EXCEPT !.session = "on", !.posts = TRUE, !.owner = "thread", !.at = "poll", !.stopping = FALSE]
\* enqueue
ClientInput ==
    /\ typing.session = "on" /\ Len(typing.jobs) < InputJobs
    /\ \E job \in [kind : {"down", "up"}, code : Codes] \cup [kind : {"move", "sync"}] :
          typing' = [typing EXCEPT !.jobs = Append(@, job)]
\* stop(), up to the join
StopInput == typing.session = "on" /\ typing' = [typing EXCEPT !.session = "stopping", !.stopping = TRUE]
\* give_back_input, with the late changes, after the join; the thread's queue goes with it.
GaveBack(w) ==
    [w EXCEPT !.posts = FALSE, !.owner = "desktop", !.session = "off", !.late = << >>, !.jobs = << >>, !.at = "none",
              !.outputs = IF w.late = << >> THEN @ ELSE Last(w.late).number]
GiveBack == typing.session = "stopping" /\ typing.at = "done" /\ typing' = GaveBack(typing)

\* ---- the desktop's thread ----------------------------------------------

\* post
JobPosted(w, change) ==
    IF w.stopping THEN [w EXCEPT !.late = Append(@, change)] ELSE [w EXCEPT !.jobs = Append(@, change)]
\* change_input
ChangeInput ==
    /\ typing.made < InputChanges /\ Len(typing.jobs) < InputJobs
    /\ LET change == [kind |-> "change", number |-> typing.made + 1]
           w == [typing EXCEPT !.made = @ + 1]
       IN  typing' = IF w.owner = "desktop" THEN [w EXCEPT !.outputs = change.number] ELSE JobPosted(w, change)

\* ---- the input thread: run() -------------------------------------------

\* The jobs are taken under the lock, with whether to stop.
TakeJobs ==
    /\ typing.at = "poll" /\ (typing.jobs /= << >> \/ typing.stopping)
    /\ typing' = [typing EXCEPT !.batch = typing.jobs, !.jobs = << >>, !.ends = typing.stopping,
                                 !.at = IF typing.jobs = << >> THEN "dispatch" ELSE "run"]
\* The compositor alone wakes it.
WokenByInput == typing.at = "poll" /\ typing.jobs = << >> /\ ~typing.stopping /\ typing' = [typing EXCEPT !.at = "dispatch", !.ends = FALSE]
RunInputJob ==
    /\ typing.at = "run"
    /\ typing' \in Done([typing EXCEPT !.batch = Tail(@), !.at = IF Len(typing.batch) = 1 THEN "dispatch" ELSE @], typing.batch[1])
\* The end of a round: release_all() when the thread is to stop.
SessionEnded(w) == [ReleaseEverything(w) EXCEPT !.at = "done"]
RoundOver == typing.at = "dispatch" /\ typing' = IF typing.ends THEN SessionEnded(typing) ELSE [typing EXCEPT !.at = "poll"]

\* ---- the compositor's events: dispatch(), by the input's owner ---------

Dispatching == ~typing.closed /\ (typing.owner = "desktop" \/ typing.at = "dispatch")
\* device_added
DeviceAdded(id) ==
    /\ Dispatching /\ Index(typing, id) = {}
    /\ typing' = [typing EXCEPT !.devices = Append(@, [id |-> id, resumed |-> FALSE, held |-> NoInput])]
\* device_resumed: sends the releases held back.
DeviceIsBack(w, i) ==
    LET d == w.devices[i]
    IN  [w EXCEPT !.devices[i].resumed = TRUE,
                  !.devices[i].held = [code \in Codes |-> IF d.held[code] = "released" THEN "no" ELSE d.held[code]],
                  !.down[d.id] = {code \in @ : d.held[code] /= "released"}]
DeviceResumed(id) ==
    /\ Dispatching
    /\ \E i \in Index(typing, id) : ~typing.devices[i].resumed /\ typing' = DeviceIsBack(typing, i)
\* device_paused
DevicePaused(id, keeps) ==
    /\ Dispatching
    /\ \E i \in Index(typing, id) :
          /\ typing.devices[i].resumed
          /\ typing' = [typing EXCEPT !.devices[i].resumed = FALSE, !.down[id] = IF keeps THEN @ ELSE {}]
\* device_removed
DeviceRemoved(id) ==
    /\ Dispatching
    /\ \E i \in Index(typing, id) :
          typing' = [typing EXCEPT !.devices = RemoveAt(@, i), !.down[id] = {}, !.last = IF @ = id THEN 0 ELSE @]
\* EI_EVENT_DISCONNECT
Disconnected ==
    /\ Dispatching
    /\ typing' = [typing EXCEPT !.closed = TRUE, !.devices = << >>, !.last = 0, !.down = [id \in DeviceIds |-> {}]]

TypingNext ==
    \/ StartInput \/ ClientInput \/ StopInput \/ GiveBack \/ ChangeInput
    \/ TakeJobs \/ WokenByInput \/ RunInputJob \/ RoundOver \/ Disconnected
    \/ \E id \in DeviceIds :
          DeviceAdded(id) \/ DeviceResumed(id) \/ DeviceRemoved(id) \/ (\E keeps \in BOOLEAN : DevicePaused(id, keeps))

TypingSpec == TypingInit /\ [][TypingNext]_typing

\* ---- properties --------------------------------------------------------

\* A key that is down at the compositor is one the translator holds down
\* there, or one whose release waits for a paused device; so when the session
\* has let the desktop go no key is left pressed that nobody will release.
NoKeyIsStuck ==
    \A id \in DeviceIds : \A code \in typing.down[id] :
        \E i \in Index(typing, id) :
            \/ code \in typing.keys /\ typing.devices[i].held[code] = "held"
            \/ ~typing.devices[i].resumed /\ typing.devices[i].held[code] = "released"

\* A key is down through one device at a time, whichever device the pointer
\* moved to and whichever went away in between.
DownInOnePlace == \A code \in Codes : \A a, b \in DeviceIds : code \in typing.down[a] \cap typing.down[b] => a = b

\* The changes the desktop makes to its input are applied in their order and
\* none is lost, also those made while the thread stops and hands it back.
ChangesArrive ==
    LET waiting == SelectSeq(typing.batch \o typing.jobs \o typing.late, LAMBDA job : job.kind = "change")
    IN  [i \in DOMAIN waiting |-> waiting[i].number] = [i \in 1..(typing.made - typing.outputs) |-> typing.outputs + i]

\* Input across the two threads: no key stays down, a key is down in one
\* place, and changes arrive.
InputCorrect ==
    /\ NoKeyIsStuck
    /\ DownInOnePlace
    /\ ChangesArrive
====
