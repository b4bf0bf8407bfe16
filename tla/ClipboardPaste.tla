--------------------------- MODULE ClipboardPaste ---------------------------
(***************************************************************************)
(* The client's clipboard pasted on the desktop: ClipboardBridge's queue   *)
(* of transfers and its download of files, and the half of ClipboardServer *)
(* that asks the client (src/farland/server/clipboard_bridge.cpp and       *)
(* src/farland/channels/cliprdr_server.cpp).  A copy on the client is a    *)
(* number, counted up; data is the number of the copy it was taken from.   *)
(*                                                                         *)
(* The channel keeps its order: pcl.up holds what the client has sent and  *)
(* the server has not read.  What the server sends reaches the client at   *)
(* once, the delay is the client's.                                        *)
(***************************************************************************)
EXTENDS Naturals, Sequences, FiniteSets, SequencesExt

CONSTANTS PasteCopies,      \* how often the client copies
          Pastes,           \* how often the desktop pastes
          PasteParts        \* the requests one download takes at most

\* What the client copies, and the formats it announces for it.
Copies == {"rich", "files"}
PasteFormats(copy) == CASE copy = "rich" -> {"text", "html"} [] copy = "files" -> {"files"} [] OTHER -> {}
PasteRefused == [n |-> 0, kind |-> "none"]
Serials == 1..Pastes
NoTransfer == [serial |-> 0, kind |-> "none"]
NoDownload == [epoch |-> 0, left |-> 0, stream |-> 0, waits |-> {}]

VARIABLES pcl,     \* the client: its clipboard, the requests it has, what is on the way
          psv,     \* ClipboardServer and ClipboardBridge
          pdesk    \* per serial: what the desktop's application asked for and got

pasteVars == <<pcl, psv, pdesk>>

PasteInit ==
  /\ pcl = [copy |-> 0, kind |-> "none", up |-> <<>>, asked |-> <<>>]
  /\ psv = [failed |-> FALSE, ready |-> FALSE, streams |-> FALSE,
            remote |-> "none", epoch |-> 0, offered |-> {},
            transfers |-> <<>>, active |-> NoTransfer, download |-> NoDownload,
            staged |-> 0, out |-> "none", quarantine |-> FALSE, stream |-> 0,
            written |-> <<>>]
  /\ pdesk = [s \in Serials |-> [kind |-> "none", seen |-> 0, got |-> <<>>]]

-----------------------------------------------------------------------------
(* ClipboardServer: one request of the server's is outstanding at a time,  *)
(* and none is made while the answer to one that timed out may still come. *)
CanRequest(b) == ~b.failed /\ b.ready /\ b.out = "none" /\ ~b.quarantine

\* Clipboard::write: one answer to the desktop's application.
PasteAnswer(b, t, data) == [b EXCEPT !.written = Append(@, [serial |-> t, data |-> data])]

AnswerAll(b, ts, data) ==
  FoldLeft(LAMBDA c, t : PasteAnswer(c, t, data), b, SetToSortSeq(ts, <))

\* fail_transfers: refuses what waits; the download goes with its directory.
FailTransfers(b) ==
  LET open == {t.serial : t \in ToSet(b.transfers)} \cup b.download.waits
                \cup ({b.active.serial} \ {0})
  IN [AnswerAll(b, open, PasteRefused) EXCEPT !.transfers = <<>>, !.active = NoTransfer,
                                   !.download = NoDownload]

-----------------------------------------------------------------------------
\* staged_uris: the files the staging directory holds.
Staged(epoch) == [n |-> epoch, kind |-> "files"]

(* The download of a file list, one request after the other.               *)
FinishDownload(b, ok) ==
  LET staged == IF ok THEN b.download.epoch ELSE b.staged
  IN [AnswerAll(b, b.download.waits, IF ok THEN Staged(staged) ELSE PasteRefused)
        EXCEPT !.staged = staged, !.download = NoDownload]

\* The next request, or the end.  Without a request free to make, the next
\* call asks again.  `disk` is FALSE when a staged file cannot be made.
AdvanceDownload(b, disk) ==
  IF b.download = NoDownload \/ b.download.stream # 0 THEN b
  ELSE IF ~disk THEN FinishDownload(b, FALSE)
  ELSE IF b.download.left = 0 THEN FinishDownload(b, TRUE)
  ELSE IF ~CanRequest(b) \/ ~b.streams THEN b
  ELSE [b EXCEPT !.stream = @ + 1, !.out = "contents",
                 !.download.stream = b.stream + 1]

\* The download of a list that was taken: one with too many files, a name that
\* does not fit or no staging directory is refused like data that does not
\* convert.
StartDownload(b, t, parts) ==
  AdvanceDownload([b EXCEPT !.download = [epoch |-> b.epoch, left |-> parts,
                                               stream |-> 0, waits |-> {t.serial}]], TRUE)

\* A part, the failure of one, or the answer to a request timed out before.
FileContentsReceived(b, stream, ok) ==
  IF b.download = NoDownload \/ b.download.stream # stream THEN b
  ELSE IF ~ok THEN FinishDownload(b, FALSE)
  ELSE AdvanceDownload([b EXCEPT !.download.stream = 0, !.download.left = @ - 1], TRUE)

-----------------------------------------------------------------------------
(* pump_transfers: the desktop's pastes in order, until one has to wait.   *)
SourceFormat(b, kind) == kind \in PasteFormats(b.remote)

PumpOne(b, t) ==
  CASE b.active # NoTransfer \/ b.transfers # <<>> ->
         [b EXCEPT !.transfers = Append(@, t)]
    [] ~b.ready \/ ~SourceFormat(b, t.kind) -> PasteAnswer(b, t.serial, PasteRefused)
    [] t.kind = "files" /\ b.staged # 0 /\ b.staged = b.epoch ->
         PasteAnswer(b, t.serial, Staged(b.staged))
    [] t.kind = "files" /\ b.staged # b.epoch /\ b.download # NoDownload ->
         [b EXCEPT !.download.waits = @ \cup {t.serial}]
    [] ~CanRequest(b) -> [b EXCEPT !.transfers = Append(@, t)]
    [] OTHER -> [b EXCEPT !.active = t, !.out = "data"]

PumpTransfers(b) == FoldLeft(PumpOne, [b EXCEPT !.transfers = <<>>], b.transfers)

\* process(), after the events: the transfers, then the download.
OnlyDownload(b, disk) == AdvanceDownload(b, disk)
Process(b, disk) == AdvanceDownload(PumpTransfers(b), disk)

\* Whether the data converts.  A file list is known by its size, and the
\* clipboard's HTML by its header; text takes any bytes.
Converts(asked, kind, fits) == fits /\ (asked = "text" \/ asked = kind)

\* The answer to the request for data; nothing waits for one that comes late.
\* The bytes do not say what they are: `kind` only decides how they convert.
DataReceived(b, n, kind, parts, fits) ==
  IF b.active = NoTransfer THEN b
  ELSE LET t == b.active
           c == [b EXCEPT !.active = NoTransfer]
       IN IF n = 0 \/ ~Converts(t.kind, kind, fits) THEN PasteAnswer(c, t.serial, PasteRefused)
          ELSE IF t.kind = "files" THEN StartDownload(c, t, parts)
          ELSE PasteAnswer(c, t.serial, [n |-> n, kind |-> kind])

-----------------------------------------------------------------------------
(* What a step of the server does to the outside: the answers reach the    *)
(* desktop, a new request reaches the client.                              *)
PasteDelivered(b) ==
  pdesk' = [s \in Serials |->
              [pdesk[s] EXCEPT !.got = @ \o
                 [i \in 1..Len(SelectSeq(b.written, LAMBDA w : w.serial = s)) |->
                    SelectSeq(b.written, LAMBDA w : w.serial = s)[i].data]]]

NewRequests(b) ==
  CASE b.out = "data" /\ psv.active # b.active ->
         <<[t |-> "data", stream |-> 0, kind |-> b.active.kind]>>
    [] b.stream # psv.stream -> <<[t |-> "contents", stream |-> b.stream, kind |-> "files"]>>
    [] OTHER -> <<>>

Served(b, up) ==
  /\ psv' = [b EXCEPT !.written = <<>>]
  /\ pcl' = [pcl EXCEPT !.up = up, !.asked = @ \o NewRequests(b)]
  /\ PasteDelivered(b)

-----------------------------------------------------------------------------
(* The client.                                                             *)
ClientCopies ==
  /\ pcl.copy < PasteCopies /\ Len(pcl.up) < 2
  /\ \E k \in Copies :
       pcl' = [pcl EXCEPT !.copy = @ + 1, !.kind = k,
                          !.up = Append(@, [t |-> "list", n |-> pcl.copy + 1, kind |-> k])]
  /\ UNCHANGED <<psv, pdesk>>

\* The client answers its requests in order, with what it holds then.
ClientAnswersPaste ==
  /\ pcl.asked # <<>> /\ Len(pcl.up) < 2
  /\ \E ok \in BOOLEAN :
       LET r == Head(pcl.asked)
           n == IF ok /\ r.kind \in PasteFormats(pcl.kind) THEN pcl.copy ELSE 0
       IN pcl' = [pcl EXCEPT !.asked = Tail(@),
                             !.up = Append(@, [t |-> r.t, n |-> n, kind |-> r.kind,
                                               stream |-> r.stream])]
  /\ UNCHANGED <<psv, pdesk>>

-----------------------------------------------------------------------------
(* ClipboardBridge::receive, one message of the client's.                  *)
BecomeReady(b) == [b EXCEPT !.ready = TRUE]

\* The capabilities, once: whether files can be streamed.
ReceiveCaps ==
  /\ ~psv.ready /\ ~psv.failed
  /\ \E s \in BOOLEAN : Served(Process([BecomeReady(psv) EXCEPT !.streams = s], TRUE), pcl.up)

\* A format list: the new epoch, and the selection on the desktop, unless
\* the desktop could take none of it.
OnRemoteFormats(b, m) ==
  [b EXCEPT !.remote = m.kind, !.epoch = @ + 1,
            !.offered = @ \cup {k \in PasteFormats(m.kind) : k = "files" => b.streams}]

ReceiveList ==
  /\ pcl.up # <<>> /\ Head(pcl.up).t = "list" /\ ~psv.failed
  /\ Served(Process(OnRemoteFormats(BecomeReady(psv), Head(pcl.up)), TRUE), Tail(pcl.up))

\* An answer without a request only ends the quarantine.
ReceiveData ==
  /\ pcl.up # <<>> /\ Head(pcl.up).t = "data" /\ ~psv.failed
  /\ \E parts \in 0..PasteParts, fits \in BOOLEAN :
       LET m == Head(pcl.up)
           b == IF psv.out # "data" THEN [psv EXCEPT !.quarantine = FALSE]
                ELSE DataReceived([psv EXCEPT !.out = "none"], m.n, m.kind, parts, fits)
       IN Served(Process(b, TRUE), Tail(pcl.up))

\* The stream's number tells a late answer.  One longer than asked for is a
\* protocol error: the channel is dead.
ReceiveContents ==
  /\ pcl.up # <<>> /\ Head(pcl.up).t = "contents" /\ ~psv.failed
  /\ LET m == Head(pcl.up)
         current == psv.out = "contents" /\ psv.stream = m.stream
         b == IF ~current THEN psv
              ELSE FileContentsReceived([psv EXCEPT !.out = "none"], m.stream, m.n # 0)
     IN \/ \E disk \in BOOLEAN : Served(Process(b, disk), Tail(pcl.up))
        \/ /\ current /\ m.n # 0
           /\ Served(FailTransfers([psv EXCEPT !.failed = TRUE, !.out = "none"]), Tail(pcl.up))

\* After the error nothing is read.
ReceiveFailed ==
  /\ pcl.up # <<>> /\ psv.failed
  /\ pcl' = [pcl EXCEPT !.up = Tail(@)]
  /\ UNCHANGED <<psv, pdesk>>

-----------------------------------------------------------------------------
(* ClipboardBridge::service: the desktop's events, then the time-outs.     *)
DesktopPastes ==
  /\ \E s \in Serials, k \in psv.offered :
       /\ pdesk[s].kind = "none" /\ \A r \in Serials : r < s => pdesk[r].kind # "none"
       /\ LET b == [psv EXCEPT !.transfers = Append(@, [serial |-> s, kind |-> k])]
              c == IF psv.failed THEN FailTransfers(b) ELSE Process(b, TRUE)
          IN /\ psv' = [c EXCEPT !.written = <<>>]
             /\ pcl' = [pcl EXCEPT !.asked = @ \o NewRequests(c)]
             /\ pdesk' = [pdesk EXCEPT ![s] =
                  [kind |-> k, seen |-> psv.epoch,
                   got |-> [i \in 1..Len(SelectSeq(c.written, LAMBDA w : w.serial = s)) |->
                              SelectSeq(c.written, LAMBDA w : w.serial = s)[i].data]]]

NoQuarantine(b) ==
  IF b.out = "contents"
    THEN FileContentsReceived([b EXCEPT !.out = "none"], b.stream, FALSE)
    ELSE DataReceived([b EXCEPT !.out = "none"], 0, "none", 0, FALSE)

\* request_timeout: the answer to a request for data may still come.
TimedOut(b) ==
  IF b.out = "contents"
    THEN FileContentsReceived([b EXCEPT !.out = "none"], b.stream, FALSE)
    ELSE DataReceived([b EXCEPT !.out = "none", !.quarantine = TRUE], 0, "none", 0, FALSE)

RequestTimeout ==
  /\ psv.out # "none" /\ ~psv.failed
  /\ Served(Process(TimedOut(psv), TRUE), pcl.up)

\* The second time-out.  Assumed of the client: what it has not answered by
\* then it never answers.
LateAnswer(m) == m.t = "data"
QuarantineEnds ==
  /\ psv.quarantine /\ ~psv.failed
  /\ \A i \in 1..Len(pcl.up) : ~LateAnswer(pcl.up[i])
  /\ LET b == Process([psv EXCEPT !.quarantine = FALSE], TRUE)
     IN /\ psv' = [b EXCEPT !.written = <<>>]
        /\ pcl' = [pcl EXCEPT !.asked =
                     SelectSeq(@, LAMBDA r : r.t # "data") \o NewRequests(b)]
        /\ PasteDelivered(b)

PasteReceive == ReceiveList \/ ReceiveData \/ ReceiveContents \/ ReceiveFailed

PasteNext ==
  \/ ClientCopies \/ ClientAnswersPaste \/ ReceiveCaps \/ PasteReceive
  \/ DesktopPastes \/ RequestTimeout \/ QuarantineEnds

\* The session's loop reads the connection and calls service() on every
\* turn.
PasteSpec ==
    /\ PasteInit /\ [][PasteNext]_pasteVars
    /\ WF_psv(RequestTimeout) /\ WF_psv(QuarantineEnds) /\ WF_pcl(PasteReceive)

-----------------------------------------------------------------------------
CountHeld(q, P(_)) == Len(SelectSeq(q, P))
B2N(x) == IF x THEN 1 ELSE 0

\* A paste of the desktop's waits in exactly one place of the bridge until it
\* is answered, and is answered once: the application blocks on a paste that
\* is lost, and a second answer is another paste's.
EveryPasteHeld ==
  \A s \in Serials : pdesk[s].kind # "none" =>
    Len(pdesk[s].got) + CountHeld(psv.transfers, LAMBDA t : t.serial = s)
      + B2N(psv.active.serial = s) + B2N(s \in psv.download.waits) = 1

\* What the desktop gets is of the type its application asked for, and no
\* older than the copy the bridge knew of when the paste began: a Format Data
\* Response carries neither a number nor a type, so the answer to a request
\* that timed out must not pass for the answer to the next.
PastedIsAsked ==
  \A s \in Serials : \A i \in 1..Len(pdesk[s].got) :
    LET d == pdesk[s].got[i]
    IN d # PasteRefused => /\ d.kind = pdesk[s].kind
                           /\ d.kind # "files" => d.n >= pdesk[s].seen

Waiting == {s \in Serials : pdesk[s].kind # "none" /\ pdesk[s].got = <<>>}

\* Every paste is answered, whatever the client does, for every request of
\* the server's has a time-out.
EveryPasteAnswered == Waiting # {} ~> Waiting = {}

\* Every paste of the desktop is held until answered, with the data of the
\* copy it asked for.
ClipboardPasteCorrect ==
    /\ EveryPasteHeld
    /\ PastedIsAsked
=============================================================================
