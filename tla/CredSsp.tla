------------------------------- MODULE CredSsp -------------------------------
(***************************************************************************)
(* Pre-authentication of a connection: the negotiation of the security     *)
(* protocol (server/preauth.cpp), CredSSP on both sides                    *)
(* (auth/credssp.cpp), SPNEGO within it, NTLM's and Kerberos' contexts     *)
(* (auth/ntlm.cpp, auth/kerberos.cpp) and the wiring of the mechanisms     *)
(* (farland-server/nla.cpp).                                               *)
(*                                                                         *)
(* Cryptography is abstracted to what makes a message verify: a sealed or  *)
(* signed message carries the sender's count of its cipher state, and the  *)
(* receiver accepts it exactly when its own count is the same.  Keys,      *)
(* challenges and names are a "fault" of the set-up: what the two sides do *)
(* not have in common.  The client is the repository's Initiator; a        *)
(* Kerberos initiator is external.                                         *)
(***************************************************************************)
EXTENDS Naturals, Sequences, SequencesExt

CONSTANTS
    ClientVersions,     \* CredSSP versions clients speak
    ServerVersions      \* max_version of the acceptor

VARIABLES
    setup,      \* the two sides' configuration, chosen when the client connects
    pre,        \* PreAuth: state_, selected_protocol, input_, the early result
    acceptor,        \* credssp::Acceptor with its mechanism's context
    initiator,        \* credssp::Initiator with its mechanism's context, and what it sent afterwards
    toServer,   \* messages on their way to the server, inside TLS where it is up
    toClient

nlaVars == <<setup, pre, acceptor, initiator, toServer, toClient>>

(* What a client offers: raw NTLM as FreeRDP sends it, or SPNEGO with the   *)
(* mechanism it runs, after others it only names.                           *)
Offers ==
    {[spnego |-> FALSE, list |-> <<"ntlm">>]} \cup
    {[spnego |-> TRUE, list |-> l] :
        l \in {<<"ntlm">>, <<"negoex", "ntlm">>, <<"kerberos", "ntlm">>, <<"kerberos">>, <<"negoex", "kerberos">>}}

(* make_nla_factory: which mechanisms make_mechanism builds: kerberos_only, *)
(* Kerberos and NTLM, or NTLM.                                              *)
Mechanisms == {{"ntlm"}, {"ntlm", "kerberos"}, {"kerberos"}}

(* What the two sides may differ in: the password (or a ticket that is      *)
(* refused), the TLS key the client binds to, the channel bindings it       *)
(* sends, and the credentials it delegates.                                 *)
Faults == {"none", "password", "key", "bindings", "credentials"}

Setups ==
    [offer: Offers, server: Mechanisms, fault: Faults, version: ClientVersions, max: ServerVersions,
     protocols: {{"ssl", "hybrid"}, {"ssl", "hybrid", "hybrid_ex"}}, requireNla: {TRUE}]
    \cup [offer: {[spnego |-> FALSE, list |-> <<"ntlm">>]}, server: {{"ntlm"}}, fault: {"none"},
          version: ClientVersions, max: ServerVersions, protocols: {{}, {"ssl"}}, requireNla: BOOLEAN]

NoMic == 99
NoToken == [kind |-> "none", mt |-> "none", mic |-> NoMic, state |-> "none", mech |-> "none"]
NoPka == [n |-> NoMic, form |-> "none", key |-> "none"]
Request ==
    [type |-> "ts", v |-> 0, tok |-> NoToken, pka |-> NoPka, auth |-> NoMic, nonce |-> FALSE, err |-> FALSE]
Plain(t) == [Request EXCEPT !.type = t]

-----------------------------------------------------------------------------
(* ntlm::detail::Session: one count per direction.  Kerberos numbers its    *)
(* messages too, and its reset_cipher_state does nothing.                   *)

Seal(s) == [s EXCEPT !.sent = @ + 1]
Unseal(s) == [s EXCEPT !.got = @ + 1]
ResetCipher(s) == IF s.mech = "ntlm" THEN [s EXCEPT !.sent = 0, !.got = 0] ELSE s

(* LocalNtlmVerifier::session_base_key, and accept_credentials of the       *)
(* factory: what the server checks of the user.                             *)
ResponseVerifies == setup.fault # "password"
DelegatedIsUser == setup.fault # "credentials"

Stepped(a, ok, token, done) == [ok |-> ok, tok |-> token, done |-> done, a |-> a]

(* ntlm::Acceptor::step: on_negotiate answers with a challenge;             *)
(* on_authenticate checks the channel bindings, the response and the MIC,   *)
(* and completes without a token.                                           *)
NtlmStep(a, t) ==
    CASE a.step = "initial" /\ t = "negotiate" ->
            Stepped([a EXCEPT !.step = "expect_authenticate"], TRUE, "challenge", FALSE)
      [] a.step = "expect_authenticate" /\ t = "authenticate" /\ ResponseVerifies /\ setup.fault # "bindings" ->
            Stepped([a EXCEPT !.step = "complete"], TRUE, "none", TRUE)
      [] OTHER -> Stepped([a EXCEPT !.step = "failed"], FALSE, "none", FALSE)

(* GssAcceptor::step: a ticket that is good completes at once, with the     *)
(* token of mutual authentication.                                          *)
KerberosStep(a, t) ==
    IF a.step = "initial" /\ t = "apreq" /\ setup.fault # "password"
    THEN Stepped([a EXCEPT !.step = "complete"], TRUE, "aprep", TRUE)
    ELSE Stepped(a, FALSE, "none", FALSE)

AcceptorStep(a, t) == IF a.mech = "ntlm" THEN NtlmStep(a, t) ELSE KerberosStep(a, t)

(* ntlm::Initiator::step: NEGOTIATE_MESSAGE first, then on_challenge.  The  *)
(* client's Kerberos is external.                                           *)
InitiatorStep(i, t) ==
    CASE i.step = "initial" /\ t = "none" ->
            [ok |-> TRUE, tok |-> IF i.mech = "ntlm" THEN "negotiate" ELSE "apreq", done |-> FALSE,
             i |-> [i EXCEPT !.step = "expect_challenge"]]
      [] i.step = "expect_challenge" /\ t = (IF i.mech = "ntlm" THEN "challenge" ELSE "aprep") ->
            [ok |-> TRUE, tok |-> IF i.mech = "ntlm" THEN "authenticate" ELSE "none", done |-> TRUE,
             i |-> [i EXCEPT !.step = "complete"]]
      [] OTHER -> [ok |-> FALSE, tok |-> "none", done |-> FALSE, i |-> [i EXCEPT !.step = "failed"]]

-----------------------------------------------------------------------------
(* credssp::Acceptor                                                        *)

AccSend(a, m) == [a EXCEPT !.out = Append(@, [m EXCEPT !.v = a.version])]

(* fail: the errorCode goes out for versions 3, 4 and 6 only.                *)
AccFail(a) ==
    LET f == [a EXCEPT !.status = "failed", !.phase = "done"]
    IN IF a.version \in {3, 4, 6} THEN AccSend(f, [Request EXCEPT !.err = TRUE]) ELSE f

Form(version) == IF version >= 5 THEN "hash" ELSE "key"
Reply(version) == IF version >= 5 THEN "hash2" ELSE "key+1"

(* answer_pub_key_auth                                                       *)
AnswerPubKeyAuth(a, pka, tok) ==
    IF pka # [n |-> a.got, form |-> Form(a.version), key |-> "server"] \/ (a.version >= 5 /\ ~a.nonce)
    THEN AccFail(Unseal(a))
    ELSE AccSend([Seal(Unseal(a)) EXCEPT !.phase = "credentials"],
                 [Request EXCEPT !.tok = tok, !.pka = [n |-> a.sent, form |-> Reply(a.version), key |-> "server"]])

(* The end of finish_negotiation: answer a pubKeyAuth that came along, or   *)
(* send the final token on its own.                                         *)
ToPubKeyAuth(a, m, tok) ==
    IF m.pka # NoPka
    THEN AnswerPubKeyAuth([a EXCEPT !.phase = "pub_key_auth"], m.pka, tok)
    ELSE IF tok # NoToken THEN AccSend([a EXCEPT !.phase = "pub_key_auth"], [Request EXCEPT !.tok = tok])
    ELSE [a EXCEPT !.phase = "pub_key_auth"]

(* finish_negotiation after verify_mic: our MIC, the cipher reset and the   *)
(* state the reply announces.                                               *)
Conclude(a, m, output, mech) ==
    LET signs == a.micRequired \/ m.tok.mic # NoMic
        token == [kind |-> "resp", mt |-> output, mech |-> mech, mic |-> IF signs THEN a.sent ELSE NoMic,
                  state |-> IF ~a.micRequired \/ a.micVerified THEN "accept_completed" ELSE "accept_incomplete"]
    IN ToPubKeyAuth(IF signs THEN ResetCipher(Seal(a)) ELSE a, m, token)

FinishNegotiation(a, m, output, mech) ==
    CASE ~a.spnego -> ToPubKeyAuth(a, m, IF output = "none" THEN NoToken ELSE [NoToken EXCEPT !.kind = "raw", !.mt = output])
      [] a.spnego /\ m.tok.mic \notin {NoMic, a.got} -> AccFail(a)
      [] a.spnego /\ m.tok.mic = NoMic /\ a.micRequired /\ output = "none" -> AccFail(a)
      [] OTHER -> Conclude(IF m.tok.mic = NoMic THEN a ELSE [Unseal(a) EXCEPT !.micVerified = TRUE], m, output, mech)

(* One token through the mechanism; mech is what the first reply selects.   *)
Proceed(a, m, s, mech) ==
    CASE ~s.ok -> AccFail(a)
      [] s.ok /\ s.done -> FinishNegotiation(s.a, m, s.tok, mech)
      [] OTHER -> AccSend(s.a, [Request EXCEPT !.tok =
                      IF a.spnego
                      THEN [kind |-> "resp", mt |-> s.tok, mic |-> NoMic, state |-> "accept_incomplete", mech |-> mech]
                      ELSE [NoToken EXCEPT !.kind = "raw", !.mt = s.tok]])

(* start_spnego: the first mechanism of the client's list that farland      *)
(* implements; another than the client's first choice needs the MICs, and   *)
(* an optimistic token is dropped.                                          *)
StartSpnego(a, m) ==
    LET chosen == SelectInSeq(m.tok.list, LAMBDA mech : mech \in setup.server)
        b == [a EXCEPT !.spnego = TRUE, !.mech = m.tok.list[chosen], !.micRequired = chosen # 1]
    IN CASE chosen = 0 -> AccFail(a)
         [] chosen > 1 \/ (chosen = 1 /\ m.tok.mt = "none") ->
               AccSend(b, [Request EXCEPT !.tok =
                   [NoToken EXCEPT !.kind = "resp", !.mech = b.mech,
                                   !.state = IF chosen > 1 THEN "request_mic" ELSE "accept_incomplete"]])
         [] OTHER -> Proceed(b, m, AcceptorStep(b, m.tok.mt), b.mech)

(* handle_negotiate                                                          *)
AccNegotiate(a, m) ==
    CASE a.mech = "none" /\ m.tok.kind = "init" -> StartSpnego(a, m)
      [] a.mech = "none" /\ m.tok.kind = "raw" /\ "ntlm" \notin setup.server -> AccFail(a)
      [] a.mech = "none" /\ m.tok.kind = "raw" /\ "ntlm" \in setup.server ->
            Proceed([a EXCEPT !.mech = "ntlm"], m, AcceptorStep([a EXCEPT !.mech = "ntlm"], m.tok.mt), "none")
      [] OTHER -> Proceed(a, m, AcceptorStep(a, m.tok.mt), "none")

(* handle_pub_key_auth                                                       *)
AccPubKeyAuth(a, m) ==
    LET mic == m.tok.mic # NoMic /\ ~a.micVerified
        b == IF mic THEN ResetCipher([Unseal(a) EXCEPT !.micVerified = TRUE]) ELSE a
    IN IF \/ mic /\ m.tok.mic # a.got
          \/ b.micRequired /\ ~b.micVerified
          \/ m.pka = NoPka
       THEN AccFail(a)
       ELSE AnswerPubKeyAuth(b, m.pka, NoToken)

(* handle_credentials with accept_credentials: the delegated user must be   *)
(* the authenticated one.                                                   *)
AccCredentials(a, m) ==
    IF m.auth # a.got \/ ~DelegatedIsUser
    THEN AccFail(a)
    ELSE [Unseal(a) EXCEPT !.phase = "done", !.status = "succeeded"]

(* handle: the version is the lower of the two and may not change.          *)
AccHandle(a, m) ==
    LET b == [a EXCEPT !.peer = m.v, !.version = IF m.v < setup.max THEN m.v ELSE setup.max,
                       !.nonce = @ \/ m.nonce]
    IN CASE a.peer \notin {0, m.v} -> AccFail(a)
         [] a.phase = "negotiate" -> AccNegotiate(b, m)
         [] a.phase = "pub_key_auth" -> AccPubKeyAuth(b, m)
         [] a.phase = "credentials" -> AccCredentials(b, m)
         [] OTHER -> AccFail(b)

(* receive: what follows the last TSRequest is kept for the connection.     *)
AccReceive(a, m) ==
    CASE a.status = "in_progress" /\ m.type = "ts" -> AccHandle(a, m)
      [] a.status = "in_progress" /\ m.type # "ts" -> AccFail(a)
      [] a.status = "succeeded" -> [a EXCEPT !.remaining = Append(@, m)]
      [] OTHER -> a

-----------------------------------------------------------------------------
(* credssp::Initiator                                                        *)

IniSend(i, m) == [i EXCEPT !.out = Append(@, [m EXCEPT !.v = setup.version, !.nonce = i.version >= 5])]
IniFail(i) == [i EXCEPT !.status = "failed", !.phase = "done"]

Runs == Last(setup.offer.list)
Key == IF setup.fault = "key" THEN "other" ELSE "server"

(* send_pub_key_auth                                                         *)
SendPubKeyAuth(i, m) ==
    IniSend([Seal(i) EXCEPT !.phase = "pub_key_auth"],
            [m EXCEPT !.pka = [n |-> i.sent, form |-> Form(i.version), key |-> Key]])

(* send_step after get_mic: the last token waits for the acceptor's MIC, or *)
(* goes out with pubKeyAuth.                                                *)
SendLast(i, m) ==
    IF i.micRequired /\ ~i.micVerified
    THEN IniSend([i EXCEPT !.phase = "final_token"], m)
    ELSE SendPubKeyAuth(i, m)

SendStep(i, s) ==
    CASE ~s.ok -> IniFail(i)
      [] s.ok /\ ~setup.offer.spnego ->
            IF s.done
            THEN SendPubKeyAuth(s.i, [Request EXCEPT !.tok = [NoToken EXCEPT !.kind = "raw", !.mt = s.tok]])
            ELSE IniSend(s.i, [Request EXCEPT !.tok = [NoToken EXCEPT !.kind = "raw", !.mt = s.tok]])
      [] s.ok /\ setup.offer.spnego /\ ~s.done ->
            IniSend(s.i, [Request EXCEPT !.tok = [NoToken EXCEPT !.kind = "resp", !.mt = s.tok]])
      [] OTHER ->
            SendLast(IF s.i.micRequired THEN ResetCipher(Seal(s.i))
                     ELSE IF s.i.micVerified THEN ResetCipher(s.i) ELSE s.i,
                     [Request EXCEPT !.tok =
                        IF s.tok = "none" /\ ~s.i.micRequired THEN NoToken
                        ELSE [NoToken EXCEPT !.kind = "resp", !.mt = s.tok,
                                             !.mic = IF s.i.micRequired THEN s.i.sent ELSE NoMic]])

(* start: an optimistic token when the mechanism run is the first choice.   *)
IniStart(i) ==
    LET first == Len(setup.offer.list) = 1
        s == InitiatorStep(i, "none")
        b == IF first THEN s.i ELSE [i EXCEPT !.micRequired = TRUE, !.pending = TRUE]
    IN IF ~setup.offer.spnego THEN SendStep(i, s)
       ELSE IniSend(b, [Request EXCEPT !.tok =
               [kind |-> "init", mt |-> IF first THEN s.tok ELSE "none", mic |-> NoMic, state |-> "none",
                mech |-> "none", list |-> setup.offer.list]])

(* handle_negotiate: the selection, the mechanism's step and, when the      *)
(* acceptor finished first, its MIC.                                        *)
IniNegotiate(i, m) ==
    LET s == InitiatorStep([i EXCEPT !.first = FALSE, !.pending = FALSE], IF i.pending THEN "none" ELSE m.tok.mt)
        mic == s.done /\ m.tok.mic # NoMic
    IN IF \/ m.tok = NoToken
          \/ i.first /\ setup.offer.spnego /\ m.tok.mech # Runs
          \/ mic /\ m.tok.mic # i.got
       THEN IniFail(i)
       ELSE SendStep(i, IF mic THEN [s EXCEPT !.i = [Unseal(@) EXCEPT !.micVerified = TRUE]] ELSE s)

(* handle_final_token                                                        *)
IniFinalToken(i, m) ==
    IF m.pka # NoPka \/ m.tok.state # "accept_completed" \/ m.tok.mt # "none" \/ m.tok.mic # i.got
    THEN IniFail(i)
    ELSE SendPubKeyAuth(ResetCipher([Unseal(i) EXCEPT !.micVerified = TRUE]), Request)

(* handle_pub_key_auth: the server's binding, then the credentials.         *)
IniPubKeyAuth(i, m) ==
    CASE m.tok # NoToken /\ (m.tok.state \notin {"none", "accept_completed"} \/ m.tok.mt # "none") -> IniFail(i)
      [] m.tok # NoToken /\ m.tok.mic \notin {NoMic, i.got} /\ ~i.micVerified -> IniFail(i)
      [] m.pka = NoPka -> IF m.tok # NoToken THEN i ELSE IniFail(i)
      [] m.pka # NoPka /\ m.pka # [n |-> i.got, form |-> Reply(i.version), key |-> Key] -> IniFail(i)
      [] OTHER -> IniSend([Seal(Unseal(i)) EXCEPT !.phase = "done", !.status = "succeeded"],
                          [Request EXCEPT !.auth = i.sent])

IniHandle(i, m) ==
    LET b == [i EXCEPT !.version = IF m.v < setup.version THEN m.v ELSE setup.version]
    IN CASE m.err -> IniFail(i)
         [] ~m.err /\ i.phase = "negotiate" -> IniNegotiate(b, m)
         [] ~m.err /\ i.phase = "final_token" -> IniFinalToken(b, m)
         [] ~m.err /\ i.phase = "pub_key_auth" -> IniPubKeyAuth(b, m)
         [] OTHER -> IniFail(i)

-----------------------------------------------------------------------------
(* PreAuth and the connection                                               *)

NoSide ==
    [status |-> "in_progress", phase |-> "negotiate", version |-> 0, peer |-> 0, nonce |-> FALSE, spnego |-> FALSE,
     mech |-> "none", step |-> "initial", micRequired |-> FALSE, micVerified |-> FALSE, sent |-> 0, got |-> 0,
     pending |-> FALSE, first |-> TRUE, out |-> << >>, remaining |-> << >>]

NlaInit ==
    /\ setup = [fault |-> "unset"]
    /\ pre = [state |-> "wait_connection_request", selected |-> "none", input |-> << >>]
    /\ acceptor = NoSide
    /\ initiator = NoSide
    /\ toServer = << >>
    /\ toClient = << >>

NlaConnect ==
    /\ setup.fault = "unset"
    /\ setup' \in Setups
    /\ toServer' = <<Plain("request")>>
    /\ UNCHANGED <<pre, acceptor, initiator, toClient>>

(* on_connection_request: HYBRID_EX before HYBRID before TLS, and TLS only  *)
(* where NLA is not required.                                               *)
Selected(s) ==
    CASE "hybrid_ex" \in s.protocols -> "hybrid_ex"
      [] "hybrid" \in s.protocols /\ "hybrid_ex" \notin s.protocols -> "hybrid"
      [] s.protocols = {"ssl"} /\ ~s.requireNla -> "ssl"
      [] OTHER -> "none"

OnConnectionRequest ==
    /\ pre.state = "wait_connection_request" /\ toServer # << >>
    /\ pre' = [pre EXCEPT !.selected = Selected(setup),
                          !.state = IF Selected(setup) = "none" THEN "failed" ELSE "wait_tls"]
    /\ toServer' = Tail(toServer)
    /\ toClient' = <<Plain(IF Selected(setup) = "none" THEN "failure" ELSE "confirm")>>
    /\ UNCHANGED <<setup, acceptor, initiator>>

(* What the client sends once it may: MCS Connect Initial, in two writes.   *)
Opening == <<Plain("mcs1"), Plain("mcs2")>>

(* The client takes the confirm and both sides run TLS; tls_established     *)
(* starts CredSSP, or ends pre-authentication where TLS was selected.       *)
TlsEstablished ==
    /\ pre.state = "wait_tls" /\ toClient = <<Plain("confirm")>>
    /\ toClient' = << >>
    /\ IF pre.selected = "ssl"
       THEN /\ pre' = [pre EXCEPT !.state = "ready"]
            /\ toServer' = Opening
            /\ UNCHANGED initiator
       ELSE LET i == IniStart([NoSide EXCEPT !.version = setup.version, !.mech = Runs])
            IN /\ pre' = [pre EXCEPT !.state = "nla"]
               /\ toServer' = i.out
               /\ initiator' = [i EXCEPT !.out = << >>]
    /\ UNCHANGED <<setup, acceptor>>

DropRest(a) ==
    /\ pre' = CASE a.status = "in_progress" -> pre
                [] a.status = "failed" -> [pre EXCEPT !.state = "failed"]
                [] OTHER -> [pre EXCEPT !.state = "ready"]
    /\ toClient' = toClient \o a.out
                   \o IF a.status = "succeeded" /\ pre.selected = "hybrid_ex" THEN <<Plain("early")>> ELSE << >>
    /\ acceptor' = [a EXCEPT !.out = << >>, !.remaining = << >>]

(* pump_nla, after the acceptor took what the socket had: its answers, the  *)
(* early user authorization result, and the bytes it did not consume.       *)
PumpNla(a) ==
    /\ pre' = CASE a.status = "in_progress" -> pre
                [] a.status = "failed" -> [pre EXCEPT !.state = "failed"]
                [] OTHER -> [pre EXCEPT !.state = "ready", !.input = a.remaining]
    /\ toClient' = toClient \o a.out
                   \o IF a.status = "succeeded" /\ pre.selected = "hybrid_ex" THEN <<Plain("early")>> ELSE << >>
    /\ acceptor' = [a EXCEPT !.out = << >>, !.remaining = << >>]

(* PreAuth::receive: TCP hands over any number of the messages at once.     *)
PreReceive ==
    /\ pre.state \in {"nla", "ready"}
    /\ \E n \in 1..Len(toServer) :
        /\ toServer' = SubSeq(toServer, n + 1, Len(toServer))
        /\ IF pre.state = "nla"
           THEN PumpNla(FoldLeft(AccReceive, acceptor, SubSeq(toServer, 1, n)))
           ELSE /\ pre' = [pre EXCEPT !.input = @ \o SubSeq(toServer, 1, n)]
                /\ UNCHANGED <<acceptor, toClient>>
    /\ UNCHANGED <<setup, initiator>>

(* The client takes a message.  Having sent its credentials it goes on with *)
(* MCS: at once, or with HYBRID_EX after the early result.                  *)
ClientTakes ==
    /\ toClient # << >> /\ pre.state # "wait_tls"
    /\ toClient' = Tail(toClient)
    /\ LET m == Head(toClient)
           i == IniHandle(initiator, m)
       IN IF m.type = "ts" /\ initiator.status = "in_progress"
          THEN /\ initiator' = [i EXCEPT !.out = << >>]
               /\ toServer' = toServer \o i.out
                              \o IF i.status = "succeeded" /\ pre.selected = "hybrid" THEN Opening ELSE << >>
          ELSE /\ toServer' = IF m.type = "early" THEN toServer \o Opening ELSE toServer
               /\ UNCHANGED initiator
    /\ UNCHANGED <<setup, pre, acceptor>>

(* A client that gave up closes the connection, and so does the session     *)
(* when the client is gone.                                                 *)
ClientGone ==
    /\ initiator.status = "failed" /\ pre.state = "nla" /\ toServer = << >>
    /\ pre' = [pre EXCEPT !.state = "failed"]
    /\ UNCHANGED <<setup, acceptor, initiator, toServer, toClient>>

NlaNext == NlaConnect \/ OnConnectionRequest \/ TlsEstablished \/ PreReceive \/ ClientTakes \/ ClientGone

\* The server reads what arrived; the client answers or goes.
NlaSpec ==
    /\ NlaInit /\ [][NlaNext]_nlaVars
    /\ WF_nlaVars(OnConnectionRequest \/ TlsEstablished \/ PreReceive \/ ClientTakes \/ ClientGone)

-----------------------------------------------------------------------------
(* What the two sides need to have in common: a protocol and, for NLA, the  *)
(* secrets and a mechanism, which the acceptor selects from the client's    *)
(* list in the client's order.  Kerberos binds to no TLS channel.           *)
Common(s) ==
    \/ Selected(s) = "ssl"
    \/ /\ Selected(s) \in {"hybrid", "hybrid_ex"}
       /\ s.fault = "none" \/ (s.fault = "bindings" /\ Last(s.offer.list) = "kerberos")
       /\ LET l == s.offer.list
          IN \E k \in DOMAIN l : k = Len(l) /\ l[k] \in s.server /\ \A j \in 1..(k - 1) : l[j] \notin s.server

(* Two sides with a mechanism and secrets in common never fail each other:  *)
(* for every version, order of preference and with or without the MICs the  *)
(* messages come in the order the other expects and every one unseals.      *)
CommonGroundSuffices ==
    setup.fault # "unset" /\ Common(setup) =>
        pre.state # "failed" /\ acceptor.status # "failed" /\ initiator.status # "failed"

(* A connection let through by NLA is the user's: the secrets agree, the    *)
(* client is through as well and bound to the same key with the same        *)
(* version, and where the mechanism was not the client's first choice both  *)
(* sides verified the other's list.                                         *)
LoginIsBound ==
    pre.state = "ready" /\ pre.selected # "ssl" =>
        /\ Common(setup)
        /\ initiator.status = "succeeded" /\ acceptor.version = initiator.version
        /\ setup.offer.spnego /\ setup.offer.list[1] \notin setup.server => acceptor.micVerified /\ initiator.micVerified

(* What the client sends behind its credentials reaches the connection,     *)
(* complete and in order, however TCP cuts it.                              *)
NothingSwallowed ==
    LET due == SelectSeq(toServer, LAMBDA m : m.type # "ts")
        all == pre.input \o due
    IN pre.state = "ready" => all \in {<< >>, Opening}
                              /\ (pre.selected # "hybrid_ex" \/ toClient = << >> => all = Opening)

(* Pre-authentication ends: neither side waits for a message the other      *)
(* never sends.                                                             *)
PreAuthEnds == [](setup.fault # "unset" => <>(pre.state \in {"ready", "failed"}))

\* Network-level authentication: what both sides share suffices, the login
\* is bound to this connection, and no octet of the client is swallowed.
CredSspCorrect ==
    /\ CommonGroundSuffices
    /\ LoginIsBound
    /\ NothingSwallowed
=============================================================================
