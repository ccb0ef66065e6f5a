---------------------------- MODULE Conversation ----------------------------
(***************************************************************************)
(* What the web runtime and the bridge say to each other in a session:     *)
(* registrations and their replies, invocations, cancellations and their   *)
(* answers (packages/web/src/browser-mcp.ts).  Both directions are ordered; *)
(* a handler of the client runs to its end before the next message, and so *)
(* do the continuations of the promises it settles.                        *)
(*                                                                         *)
(* WebConnection describes how a connection begins and ends, Gateway what  *)
(* the bridge does at the other end; here a connection is up or not, and   *)
(* the bridge is its routes and its pending requests.                      *)
(***************************************************************************)
EXTENDS Naturals, Sequences, FiniteSets, SequencesExt

CONSTANTS
    Regs,              \* registrations: every call of tool, resource, prompt has its id
    Limit,             \* concurrent invocations, as the welcome message says
    MaxRecent,         \* maxRecentExecutions
    ListenerRegisters, \* a subscriber registers when it hears of "connected"
    MaxConnections,    \* bound: sessions in one behaviour
    MaxCalls,          \* bound: register and unregister messages in one behaviour
    MaxInvocations     \* bound: invocations in one behaviour

ASSUME ConversationAssumption ==
    /\ IsFiniteSet(Regs) /\ ListenerRegisters \in BOOLEAN
    /\ {Limit, MaxRecent, MaxConnections, MaxCalls, MaxInvocations} \subseteq Nat \ {0}

Calls == 1..MaxCalls
Invocations == 1..MaxInvocations

VARIABLES
    link,    \* the socket: "down", "up", "closing", "failed"; and with it the state
    caps,    \* the registrations whose capability has been negotiated
    regs,    \* the status of each registration
    replies, \* pendingReplies: what register and unregister wait for
    active,  \* activeInvocations
    recent,  \* recentExecutions, newest first
    up,      \* messages to the bridge
    down,    \* messages to the client
    routes,  \* the registrations the bridge has
    pending, \* the invocations the bridge waits for
    used     \* connections, calls and invocations so far

clientEnd == <<regs, replies, active, recent>>
bridgeEnd == <<routes, pending>>
talkVars == <<link, caps, clientEnd, up, down, bridgeEnd, used>>

TalkInit ==
    /\ link = "down" /\ caps = {}
    /\ regs = [r \in Regs |-> "none"]
    /\ replies = {} /\ active = {} /\ recent = <<>>
    /\ up = <<>> /\ down = <<>>
    /\ routes = {} /\ pending = {}
    /\ used = [connections |-> 0, calls |-> 0, invocations |-> 0]

-----------------------------------------------------------------------------
(* The client's registrations.                                              *)

\* A closing socket is still "connected" to the client until it has closed;
\* a protocol failure is not.
Connected == link \in {"up", "closing"}
Known == {r \in Regs : regs[r] \notin {"none", "removed"}}

\* A rejection or a confirmation of a registration that is gone.
Becomes(r, status) == IF regs[r] = "removed" THEN regs[r] ELSE status

\* registerWithBridge: those in the sequence sent are asked for, one after the
\* other, the rest of rs is rejected at once.
Registers(sent, rs) ==
    LET calls == [i \in 1..Len(sent) |->
                     [id |-> used.calls + i, of |-> "register", reg |-> sent[i]]]
    IN /\ used.calls + Len(sent) <= MaxCalls
       /\ regs' = [r \in Regs |->
                     IF r \in Range(sent) THEN "registering"
                     ELSE IF r \in rs THEN "rejected" ELSE regs[r]]
       /\ replies' = replies \cup Range(calls)
       /\ up' = up \o calls

AddRegistration(r) ==
    /\ regs[r] = "none"
    /\ IF Connected THEN Registers(IF link = "up" /\ r \in caps THEN <<r>> ELSE <<>>, {r})
       ELSE regs' = [regs EXCEPT ![r] = "pending"] /\ UNCHANGED <<replies, up>>
    /\ used' = [used EXCEPT !.calls = @ + Len(up') - Len(up)]
    /\ UNCHANGED <<link, caps, active, recent, down, bridgeEnd>>

\* Slip: the handler is forgotten before the bridge has confirmed.
Forgets_AtOnce(r) == TRUE
Forgets(r) == ~(Connected /\ regs[r] \in {"registered", "registering"})

Unregister(r) ==
    /\ r \in Known
    /\ regs' = IF Forgets(r) THEN [regs EXCEPT ![r] = "removed"] ELSE regs
    /\ IF link = "up" /\ regs[r] \in {"registered", "registering"}
       THEN LET call == [id |-> used.calls + 1, of |-> "unregister", reg |-> r]
            IN /\ call.id <= MaxCalls
               /\ replies' = replies \cup {call}
               /\ up' = Append(up, call)
               /\ used' = [used EXCEPT !.calls = call.id]
       ELSE UNCHANGED <<replies, up, used>>
    /\ UNCHANGED <<link, caps, active, recent, down, bridgeEnd>>

\* sendForReply's timer: only the handler of an unregister is kept.
ReplyTimesOut(p) ==
    /\ p \in replies
    /\ replies' = replies \ {p}
    /\ regs' = IF p.of = "register" THEN [regs EXCEPT ![p.reg] = Becomes(p.reg, "rejected")]
                                    ELSE regs
    /\ UNCHANGED <<link, caps, active, recent, up, down, bridgeEnd, used>>

-----------------------------------------------------------------------------
(* Messages of the bridge.                                                  *)

Receives(type) ==
    /\ link = "up" /\ down # <<>> /\ Head(down).type = type
    /\ down' = Tail(down)

\* Slip: a reply that nobody waits for any more is ignored.
Unmatched_Ignored(m) == UNCHANGED link
\* protocolFailure, which closes the socket.  An error without a call is only
\* recorded.
Unmatched(m) == link' = IF m.outcome = "refused" THEN link ELSE "failed"

Reply ==
    /\ Receives("reply")
    /\ LET m == Head(down)
           mine == {p \in replies : p.id = m.id}
       IN /\ replies' = replies \ mine
          /\ IF mine = {} THEN Unmatched(m) /\ UNCHANGED regs
             ELSE /\ UNCHANGED link
                  /\ \E p \in mine : regs' =
                       [regs EXCEPT ![p.reg] =
                          IF p.of = "unregister" THEN "removed"
                          ELSE Becomes(p.reg, IF m.outcome = "done" THEN "registered"
                                                                    ELSE "rejected")]
    /\ UNCHANGED <<caps, active, recent, up, bridgeEnd, used>>

Answer(i) == Append(up, [of |-> "answer", inv |-> i])

Pushed(i) == SubSeq(<<[inv |-> i, running |-> TRUE]>> \o recent, 1, Min({MaxRecent, Len(recent) + 1}))
Finished(is) ==
    [k \in DOMAIN recent |->
        IF recent[k].inv \in is THEN [recent[k] EXCEPT !.running = FALSE] ELSE recent[k]]

\* executeInvocation, up to the handler; what it refuses it answers at once.
Accepts(m) ==
    /\ m.inv \notin active
    /\ regs[m.reg] = "registered"
    /\ Cardinality(active) < Limit

Invoke ==
    /\ Receives("invoke")
    /\ LET m == Head(down)
       IN IF Accepts(m)
          THEN active' = active \cup {m.inv} /\ recent' = Pushed(m.inv) /\ UNCHANGED up
          ELSE up' = Answer(m.inv) /\ UNCHANGED <<active, recent>>
    /\ UNCHANGED <<link, caps, regs, replies, bridgeEnd, used>>

\* The slot of an invocation that ends, whoever ended it.
Freed(i) == active \ {i}

\* cancelInvocation aborts, and the race of executeInvocation is lost at once.
Cancel ==
    /\ Receives("cancel")
    /\ LET i == Head(down).inv
       IN /\ active' = Freed(i)
          /\ recent' = IF i \in active THEN Finished({i}) ELSE recent
          /\ up' = Answer(i)
    /\ UNCHANGED <<link, caps, regs, replies, bridgeEnd, used>>

\* The handler returns, fails, returns what is of the wrong kind or too
\* large, or its timer ends the race: the answer is sent if it can be.
Ends(i) ==
    /\ i \in active
    /\ active' = active \ {i} /\ recent' = Finished({i})
    /\ up' = IF link = "up" THEN Answer(i) ELSE up
    /\ UNCHANGED <<link, caps, regs, replies, down, bridgeEnd, used>>
HandlerEnds(i) == Ends(i)
\* Slip: the timer is started for the first attempt only.
InvocationTimer_Never(i) == FALSE /\ Ends(i)
InvocationTimer(i) == Ends(i)

-----------------------------------------------------------------------------
(* The connection.                                                          *)

\* onWelcome: listeners hear of the state first, then everything known is
\* registered.
LinkOpens(negotiated, added) ==
    /\ link = "down" /\ used.connections < MaxConnections
    /\ added \subseteq {r \in Regs : regs[r] = "none"}
    /\ added # {} => ListenerRegisters
    /\ link' = "up" /\ caps' = negotiated
    /\ Registers(SetToSeq(added \cap negotiated)
                     \o SetToSeq((Known \cup added) \cap negotiated), Known \cup added)
    /\ used' = [used EXCEPT !.connections = @ + 1, !.calls = @ + Len(up')]
    /\ UNCHANGED <<active, recent, down, bridgeEnd>>

\* The bridge disconnects, or the network.
Closing ==
    /\ link = "up" /\ link' = "closing"
    /\ UNCHANGED <<caps, clientEnd, up, down, bridgeEnd, used>>

\* rejectTransportWork, then what the rejected calls do; the bridge drops
\* what the connection owned.
Lost(r) ==
    IF \E p \in replies : p.of = "register" /\ p.reg = r THEN Becomes(r, "rejected")
    ELSE IF regs[r] \in {"registered", "registering"} THEN "pending" ELSE regs[r]

LinkCloses ==
    /\ link # "down" /\ link' = "down"
    /\ regs' = [r \in Regs |-> Lost(r)]
    /\ replies' = {} /\ active' = {} /\ recent' = Finished(active)
    /\ up' = <<>> /\ down' = <<>> /\ routes' = {} /\ pending' = {}
    /\ caps' = {}    \* not read before the next welcome
    /\ UNCHANGED used

-----------------------------------------------------------------------------
(* The bridge.                                                              *)

Tells(m) == down' = Append(down, m)
Done(id, outcome) == [type |-> "reply", id |-> id, outcome |-> outcome]

\* The registry refuses what it has, and whatever exceeds a limit.
BridgeHandles(refuses) ==
    /\ up # <<>> /\ up' = Tail(up)
    /\ LET m == Head(up)
       IN CASE m.of = "register" ->
                 /\ IF m.reg \in routes \/ refuses
                    THEN Tells(Done(m.id, "refused")) /\ UNCHANGED routes
                    ELSE Tells(Done(m.id, "done")) /\ routes' = routes \cup {m.reg}
                 /\ UNCHANGED pending
            [] m.of = "unregister" ->
                 /\ routes' = routes \ {m.reg}
                 /\ Tells(Done(m.id, "done"))
                 /\ UNCHANGED pending
            [] m.of = "answer" ->
                 /\ pending' = pending \ {m.inv}
                 /\ UNCHANGED <<routes, down>>
    /\ UNCHANGED <<link, caps, clientEnd, used>>

BridgeInvokes(r) ==
    /\ r \in routes /\ Cardinality(pending) < Limit
    /\ used.invocations < MaxInvocations
    /\ LET i == used.invocations + 1
       IN /\ pending' = pending \cup {i}
          /\ Tells([type |-> "invoke", inv |-> i, reg |-> r])
          /\ used' = [used EXCEPT !.invocations = i]
    /\ UNCHANGED <<link, caps, clientEnd, up, routes>>

\* A timeout, or the MCP client's abort.
BridgeGivesUp(i) ==
    /\ i \in pending
    /\ pending' = pending \ {i}
    /\ Tells([type |-> "cancel", inv |-> i])
    /\ UNCHANGED <<link, caps, clientEnd, up, routes, used>>

-----------------------------------------------------------------------------
Registering(r) == AddRegistration(r) \/ Unregister(r)
Bridge ==
    \/ \E refuses \in BOOLEAN : BridgeHandles(refuses)
    \/ \E r \in Regs : BridgeInvokes(r)
    \/ \E i \in Invocations : BridgeGivesUp(i)
TalkTimers ==
    \/ \E p \in replies : ReplyTimesOut(p)
    \/ \E i \in Invocations : InvocationTimer(i)

TalkNext ==
    \/ \E r \in Regs : Registering(r)
    \/ Reply \/ Invoke \/ Cancel
    \/ \E i \in Invocations : HandlerEnds(i)
    \/ TalkTimers
    \/ \E negotiated, added \in SUBSET Regs : LinkOpens(negotiated, added)
    \/ Closing \/ LinkCloses
    \/ Bridge

TalkSpec == TalkInit /\ [][TalkNext]_talkVars

\* Timers fire; the bridge may never answer and a handler never return.
TalkFairness ==
    /\ \A c \in Calls : WF_talkVars(\E p \in replies : p.id = c /\ ReplyTimesOut(p))
    /\ \A i \in Invocations : WF_talkVars(InvocationTimer(i))
TalkFairSpec == TalkSpec /\ TalkFairness

-----------------------------------------------------------------------------
(* Properties.                                                              *)

\* Once both sides have said all, the bridge routes to exactly the
\* registrations whose handlers the client offers: no reply, late or refused,
\* leaves a route without its handler (packages/web/README.md) or a handler
\* that is thought to be offered.
RegistrationsAgree ==
    link = "up" /\ up = <<>> /\ down = <<>> /\ replies = {}
        => {r \in Regs : regs[r] = "registered"} = routes

\* An invocation that reaches the client finds its handler and a slot: what
\* the bridge counts as free the client has freed before, whoever ended it.
InvocationsAccepted ==
    link = "up" /\ down # <<>> /\ Head(down).type = "invoke" => Accepts(Head(down))

\* A registration on its way is confirmed or refused and an invocation ends,
\* even if the bridge is mute and the handler never returns.
WorkEnds ==
    /\ \A r \in Regs : (regs[r] = "registering") ~> (regs[r] # "registering")
    /\ \A i \in Invocations : (i \in active) ~> (i \notin active)

=============================================================================
