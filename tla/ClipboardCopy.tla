--------------------------- MODULE ClipboardCopy ----------------------------
(***************************************************************************)
(* The desktop's clipboard pasted on the client: the backend's clipboard   *)
(* on the desktop thread (portal, Mutter, data-control), ClipboardRelay    *)
(* between the threads, ClipboardBridge and the half of ClipboardServer    *)
(* that answers the client.  A copy on the desktop is a number.            *)
(***************************************************************************)
EXTENDS Naturals, Sequences, FiniteSets, SequencesExt

CONSTANTS DesktopCopies,    \* how often an application of the desktop copies
          ClientCopiesMax,  \* how often the client copies
          ClientRequests,   \* how often the client asks
          MaxQueued,        \* max_queued_requests
          Backends          \* of "portal", "mutter", "datacontrol"

\* What the client asks for: a format's data, the list of files (a format
\* too), or the contents of one of the listed files.
Wants == {"text", "list", "contents"}

VARIABLES cdesk,     \* the desktop's selection: whose it is, and the copy
          cback,     \* the backend's clipboard: its kind, reads it has begun, reads queued
          crelay,    \* what is between the threads, and the backend's numbers for the reads
          cbridge,   \* ClipboardBridge and ClipboardServer
          cclient    \* the client: copies and requests made, requests unanswered

copyVars == <<cdesk, cback, crelay, cbridge, cclient>>

CopyInit ==
  /\ cdesk = [owner |-> "app", copy |-> 0]
  /\ cback = [kind |-> "none", reads |-> {}, queued |-> <<>>]
  /\ crelay = [commands |-> <<>>, events |-> <<>>]
  /\ cbridge = [failed |-> FALSE, first |-> TRUE, mimes |-> 0, reads |-> {}, files |-> 0,
                announced |-> 0, refused |-> FALSE, incoming |-> <<>>, handed |-> FALSE, next |-> 1,
                sent |-> <<>>, commands |-> <<>>]
  /\ cclient = [copies |-> 0, made |-> 0, pending |-> <<>>, wrong |-> FALSE, announced |-> 0]

-----------------------------------------------------------------------------
(* The desktop thread.                                                     *)
Event(e) == crelay' = [crelay EXCEPT !.events = Append(@, e)]

\* A backend is made for the session, and announces the selection.
Connect ==
  /\ cback.kind = "none"
  /\ \E k \in Backends : cback' = [cback EXCEPT !.kind = k]
  /\ UNCHANGED <<cdesk, crelay, cbridge, cclient>>

\* owner_changed, selection: an application copied.  The session's own
\* selection comes back too, and is not announced.
ApplicationCopies ==
  /\ cback.kind # "none" /\ cdesk.copy < DesktopCopies
  /\ cdesk' = [owner |-> "app", copy |-> cdesk.copy + 1]
  /\ Event([t |-> "owner", n |-> cdesk.copy + 1])
  /\ UNCHANGED <<cback, cbridge, cclient>>

\* Mutter serves one read at a time, the others any number.
StartReads(b, id) ==
  IF b.kind = "mutter" /\ b.reads # {} THEN [b EXCEPT !.queued = Append(@, id)]
  ELSE [b EXCEPT !.reads = @ \cup {id}]

\* service_desktop: one command of the connection thread's.
RelayCommand ==
  /\ crelay.commands # <<>>
  /\ LET c == Head(crelay.commands)
     IN /\ crelay' = [crelay EXCEPT !.commands = Tail(@)]
        /\ \/ /\ c.t = "select"
              /\ cdesk' = [cdesk EXCEPT !.owner = "session"]
              /\ UNCHANGED cback
           \/ /\ c.t = "read"
              /\ cback' = StartReads(cback, c.id)
              /\ UNCHANGED cdesk
  /\ UNCHANGED <<cbridge, cclient>>

\* pump: a read's pipe ends, is broken, grows too large or takes too long.  The
\* copy is the one on the desktop now; the session does not read its own.
ReadEnds ==
  /\ \E id \in cback.reads, ok \in BOOLEAN :
       /\ Event([t |-> "read", id |-> id, n |-> IF ok /\ cdesk.owner = "app" THEN cdesk.copy ELSE 0])
       /\ cback' = IF cback.queued = <<>> THEN [cback EXCEPT !.reads = @ \ {id}]
                   ELSE [cback EXCEPT !.reads = (@ \ {id}) \cup {Head(cback.queued)},
                                      !.queued = Tail(@)]
  /\ UNCHANGED <<cdesk, cbridge, cclient>>

-----------------------------------------------------------------------------
(* ClipboardServer: the client's requests, one at a time and in order.     *)
(* b.sent collects the answers of a step.                                  *)
Allowed(b) == ~b.refused /\ b.announced # 0

CopySent(b, what) == [b EXCEPT !.sent = Append(@, what)]

\* fail_current, answer: the request at the head is over.
Answered(b, what) == [CopySent(b, what) EXCEPT !.incoming = Tail(@), !.handed = FALSE]

\* next_request: hands out the next one that may be answered.
RECURSIVE NextRequest(_)
NextRequest(b) ==
  IF b.incoming = <<>> \/ b.handed THEN b
  ELSE IF ~Allowed(b) THEN NextRequest(Answered(b, "fail"))
  ELSE [b EXCEPT !.handed = TRUE]

\* answer(): an answer to a request that is not the current one is dropped.
AnswerRequest(b, id, what) ==
  IF b.failed \/ ~b.handed \/ b.incoming = <<>> \/ Head(b.incoming).id # id THEN b
  ELSE NextRequest(Answered(b, what))

\* The step's end: the events of the server are handled, a request handed
\* out begins a read or is answered from the list of files.
RECURSIVE HandleRequests(_, _)
HandleRequests(b, before) ==
  IF ~b.handed \/ Head(b.incoming).id = before THEN b
  ELSE LET r == Head(b.incoming)
       IN IF r.want = "contents"
          THEN HandleRequests(AnswerRequest(b, r.id, IF b.files = 0 THEN "fail" ELSE "contents"), 0)
          ELSE IF b.mimes = 0 THEN HandleRequests(AnswerRequest(b, r.id, "fail"), 0)
          ELSE [b EXCEPT !.reads = @ \cup {[id |-> r.id, want |-> r.want]},
                         !.commands = Append(@, [t |-> "read", id |-> r.id])]

Current(b) == IF b.handed THEN Head(b.incoming).id ELSE 0

\* The answers reach the client, which takes them in the order of its
\* requests; `wrong` remembers one that is not what was asked.
Step(b, events, client) ==
  LET c == HandleRequests(b, Current(cbridge))
      n == Len(c.sent)
  IN /\ cbridge' = [c EXCEPT !.sent = <<>>, !.commands = <<>>]
     /\ crelay' = [crelay EXCEPT !.commands = @ \o c.commands, !.events = events]
     /\ cclient' = [client EXCEPT
          !.pending = SubSeq(@, n + 1, Len(@)),
          !.announced = c.announced,
          !.wrong = @ \/ n > Len(client.pending)
                      \/ \E i \in 1..n : c.sent[i] \notin {"fail", client.pending[i]}]
     /\ UNCHANGED <<cdesk, cback>>

\* announce_desktop: the new list replaces the old, and the files with it.
AnnounceDesktop(b) == [b EXCEPT !.files = 0, !.announced = b.mimes, !.refused = FALSE]

-----------------------------------------------------------------------------
(* ClipboardBridge::service: one event of the desktop's.                   *)
OwnerChanged ==
  /\ crelay.events # <<>> /\ Head(crelay.events).t = "owner"
  /\ LET b == [cbridge EXCEPT !.mimes = Head(crelay.events).n]
     IN Step(IF b.first \/ b.failed THEN b ELSE AnnounceDesktop(b), Tail(crelay.events), cclient)

\* on_read_finished: the data is converted for the client; converting a list
\* of files makes it the list contents are served from.
ReadFinished ==
  /\ crelay.events # <<>> /\ Head(crelay.events).t = "read"
  /\ LET e == Head(crelay.events)
         r == CHOOSE x \in cbridge.reads : x.id = e.id
         b == [cbridge EXCEPT !.reads = @ \ {r}]
     IN \E fits \in BOOLEAN :
          Step(IF e.n = 0 \/ ~fits THEN AnswerRequest(b, r.id, "fail")
               ELSE AnswerRequest([b EXCEPT !.files = IF r.want = "list" THEN e.n ELSE @],
                                  r.id, r.want), Tail(crelay.events), cclient)

\* answer_timeout: the client gets a failure, and the next request its turn.
AnswerTimeout ==
  /\ cbridge.handed /\ ~cbridge.failed
  /\ Step(NextRequest(Answered(cbridge, "fail")), crelay.events, cclient)

-----------------------------------------------------------------------------
(* The client.                                                             *)
\* A format list of the client's voids the server's.  The first, empty, lets
\* the desktop's be announced; one the desktop takes becomes its selection.
ClientCopiesFormats ==
  /\ ~cbridge.failed /\ cback.kind # "none"
  /\ cclient.copies < ClientCopiesMax
  /\ \E takes \in BOOLEAN :
       LET b == [cbridge EXCEPT !.announced = 0, !.first = FALSE]
           empty == cbridge.first /\ ~takes
           c == IF empty /\ b.mimes # 0 THEN AnnounceDesktop(b)
                ELSE IF takes THEN [b EXCEPT !.files = 0, !.mimes = 0,
                                             !.commands = <<[t |-> "select"]>>]
                ELSE b
       IN Step(c, crelay.events, [cclient EXCEPT !.copies = @ + 1])

\* Format List Response: the client may refuse what was announced.
ClientRefuses ==
  /\ cbridge.announced # 0 /\ ~cbridge.refused /\ ~cbridge.failed
  /\ cbridge' = [cbridge EXCEPT !.refused = TRUE]
  /\ UNCHANGED <<cdesk, cback, crelay, cclient>>

\* queue_request: one too many is a protocol error, and the channel is dead.
ClientAsks ==
  /\ cclient.made < ClientRequests /\ ~cbridge.failed /\ cclient.copies > 0
  /\ \E w \in Wants :
       LET b == [cbridge EXCEPT
                   !.incoming = Append(@, [id |-> cbridge.next, want |-> w]), !.next = @ + 1]
           full == Len(cbridge.incoming) >= MaxQueued
       IN Step(IF full THEN [cbridge EXCEPT !.failed = TRUE, !.incoming = <<>>, !.handed = FALSE]
               ELSE NextRequest(b), crelay.events,
               [cclient EXCEPT !.made = @ + 1, !.pending = IF full THEN <<>> ELSE Append(@, w)])

CopyNext ==
  \/ Connect \/ ApplicationCopies \/ RelayCommand \/ ReadEnds
  \/ OwnerChanged \/ ReadFinished \/ AnswerTimeout
  \/ ClientCopiesFormats \/ ClientRefuses \/ ClientAsks

\* answer_timeout is checked on every turn of the session's loop.
CopySpec == CopyInit /\ [][CopyNext]_copyVars /\ WF_cbridge(AnswerTimeout)

-----------------------------------------------------------------------------
\* The client's requests carry no number, so an answer is taken for the oldest
\* request: every answer is of what that request asked for, or a failure,
\* also when a read ends after the time-out of its request.
AnswerIsAsked == ~cclient.wrong

\* With nothing on the way, a copy made on the desktop is known to the bridge,
\* and announced to a client that did not copy since and did not refuse.
DesktopCopyReaches ==
  crelay.commands = <<>> /\ crelay.events = <<>> /\ cdesk.owner = "app" /\ ~cbridge.failed =>
    /\ cbridge.mimes = cdesk.copy
    /\ cbridge.announced # 0 => cclient.announced = cdesk.copy

\* Every request of the client's is answered, whether or not the desktop is.
EveryRequestAnswered == cclient.pending # <<>> ~> cclient.pending = <<>> \/ cbridge.failed

\* What the client gets of the desktop's clipboard is what it asked for,
\* and the desktop's last copy reaches it.
ClipboardCopyCorrect ==
    /\ AnswerIsAsked
    /\ DesktopCopyReaches
=============================================================================
