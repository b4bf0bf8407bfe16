---------------------------- MODULE MultiSession ----------------------------
(***************************************************************************)
(* farlandd, the agents it starts and the logins at the machine, over      *)
(* their broker sockets and the bus.                                       *)
(***************************************************************************)
EXTENDS Farlandd, Agent, SeatLogin

vars == <<farlanddVars, sharedVars, gateVars, busVars, agentVars, login>>

Init == BrokerInit /\ GateInit /\ FarlanddInit /\ AgentInit /\ LoginInit

(* The agent socket exists from setup() to the end of shutdown().          *)
Listening == running \in {"up", "stopping"}

DaemonStep == FarlanddNext /\ UNCHANGED <<agentVars, login>>

AgentStep(t) ==
    AgentNext(t, Listening) /\ UNCHANGED <<farlanddVars, gateVars, busVars, login>>

LoginStep(k) ==
    LoginNext(k, running # "down") /\ UNCHANGED <<farlanddVars, sharedVars, agentVars>>

Next == DaemonStep \/ (\E t \in Agents : AgentStep(t)) \/ (\E k \in Logins : LoginStep(k))

Spec == Init /\ [][Next]_vars

-----------------------------------------------------------------------------
(* Fairness: farlandd's loop turns at least every 250 ms, so what it can   *)
(* read it reads, what is settled it acts on and a deadline that passed is *)
(* noticed; an agent's loop turns as often, and sends Stats every five     *)
(* seconds.  Nothing is assumed of clients, users and failures.            *)

LoopReads(t) == \E s \in DOMAIN live : live[s].token = t /\ ReadAgent(s)

QuestionDue(c) == \E p \in prompts : p.connection = connOf[c] /\ ConsentDue(p)

WaitDue(c) == \E s \in DOMAIN live : live[s].waiting = c /\ Expire(s)

AgentTurn(t) ==
    \/ OnNotice(t) \/ OnNewConnection(t) \/ OnDisconnect(t) \/ OnConsentRequest(t)
    \/ OnConsentCancel(t) \/ OnTerminate(t) \/ JoinConnection(t)

ByDaemon(A) == A /\ UNCHANGED <<agentVars, login>>
ByAgent(A) == A /\ UNCHANGED <<farlanddVars, gateVars, busVars, login>>

Fairness ==
    /\ WF_vars(ByDaemon(Settle)) /\ WF_vars(ByDaemon(ShutdownEnd)) /\ WF_vars(ByDaemon(Exit))
    /\ \A c \in Clients : WF_vars(ByDaemon(QuestionDue(c))) /\ WF_vars(ByDaemon(WaitDue(c)))
    /\ \A t \in Agents : /\ WF_vars(ByDaemon(LoopReads(t)))
                         /\ WF_vars(ByAgent(AgentTurn(t))) /\ WF_vars(ByAgent(SendStats(t)))

FairSpec == Spec /\ Fairness

-----------------------------------------------------------------------------
(* Every variable has its type.                                            *)
TypeOK == BrokerTypeOK /\ GateTypeOK /\ FarlanddTypeOK /\ AgentTypeOK /\ LoginTypeOK

(* The descriptor of a client is in one place only: farlandd keeps it for  *)
(* one session, waiting or asking, or one agent has it or is being sent    *)
(* it; nowhere else, and nobody is lost on the way.                        *)
DescriptorInOnePlace ==
    /\ KeptInOnePlace
    /\ \A c \in Clients :
        LET serve == {t \in Agents : current[t] = c}
            sent == {p \in UNION {{t} \X DOMAIN toAgent[t] : t \in Agents} :
                       toAgent[p[1]][p[2]] = NewConnection(c)}
        IN Cardinality(serve) + Cardinality(sent) = (IF client[c] = "given" THEN 1 ELSE 0)

(* When nothing is under way between farlandd and the agent of a session,  *)
(* the registry has the connection the agent serves.                       *)
Agreement ==
    \A s \in DOMAIN live :
        LET t == live[s].token IN
        live[s].link /\ agentEnd[t] /\ toAgent[t] = << >> /\ toDaemon[t] = << >> =>
            registry[s].connection = IF current[t] = NoClient THEN 0 ELSE connOf[current[t]]

(* takeover = "never": no agent lets go of a client it serves to take      *)
(* another one.                                                            *)
NeverTakenAway ==
    [][\A t \in Agents : current[t] # NoClient => current'[t] \in {current[t], NoClient}]_current

(* disconnected_timeout ends sessions nobody reconnected to: one whose     *)
(* agent serves a client is not told to end.                               *)
ServedIsNotTimedOut ==
    [][\A s \in DOMAIN live \cap DOMAIN live' :
         ~live[s].terminated /\ live'[s].terminated =>
             current[live[s].token] = NoClient \/ over[live[s].token]]_<<live, current, over>>

(* A client that farlandd keeps, waiting for an agent or for an answer, is *)
(* given to an agent, told why not or closed in the end.                   *)
KeptIsDecided == \A c \in Clients : client[c] = "kept" ~> client[c] # "kept"

(* When an agent goes on serving one client, its Stats make farlandd know  *)
(* it in the end, also after a restart that gave numbers out again.        *)
ServedIsKnown ==
    \A t \in Agents, c \in Clients :
        <>[](current[t] = c /\ \E s \in DOMAIN live : live[s].link /\ live[s].token = t)
        => <>[](\E s \in DOMAIN live : /\ live[s].link /\ live[s].token = t
                                      /\ registry[s].connection = connOf[c])
=============================================================================
