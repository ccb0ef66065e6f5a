------------------------------ MODULE Gateway -------------------------------
(***************************************************************************)
(* BrowserGateway (bridge/src/browser-gateway.ts) with the parts of the    *)
(* bridge that its callbacks change: the registry, the broker and the two  *)
(* token stores.  A browser tab opens a socket and authenticates with an   *)
(* operator's approval, a pairing token or a resume token; then its        *)
(* connection has a session, registers capabilities and answers            *)
(* invocations until its socket closes or a resume retires it.             *)
(*                                                                         *)
(* Each action is one callback of the event loop: a message, a timer, a    *)
(* socket's close, a request of the operator or of an MCP client.  A       *)
(* socket goes from open to closing, when nothing can be sent but messages *)
(* of the tab still arrive, to closed.                                     *)
(*                                                                         *)
(* A session id is a fresh name: the connection that began the session.    *)
(* The tab behind a connection does not change, so its Origin and identity *)
(* are constants of the connection.                                        *)
(***************************************************************************)
EXTENDS Integers, Sequences, FiniteSets

CONSTANTS
    Connections,
    Pages,          \* the identities of tabs: [origin, app, instance, runtime]
    PageOf,         \* [Connections -> Pages]
    None,           \* no session
    Definitions,    \* what tabs may register (see Registry)
    SafeName,
    MaxPerRuntime, MaxTotal, MaxBytesPerRuntime, MaxBytesTotal,  \* registry limits
    Kinds, BrowserErrors, MaxConcurrent, MaxPerRuntimeCalls,     \* broker limits
    MaxTombstones, RecentLimit, RequestTimeout,
    MaxEntries,     \* cap of a token store
    MaxConnections, \* limits.maxBrowserConnections
    MaxPerOrigin,   \* approvals pending for one Origin
    Grace,          \* heartbeat ticks until a silent tab is given up
    MaxPairings,    \* bound of the model: pairing tokens issued
    MaxInvocations, MaxTime

ASSUME GatewayAssumption ==
    /\ None \notin Connections \cup Pages
    /\ PageOf \in [Connections -> Pages]
    /\ MaxConnections \in Nat \ {0} /\ MaxPerOrigin \in Nat \ {0}
    /\ Grace \in Nat \ {0} /\ MaxPairings \in Nat
    /\ MaxEntries \in Nat \ {0}
    /\ MaxConcurrent \in Nat \ {0} /\ MaxPerRuntimeCalls \in Nat \ {0}
    /\ MaxTombstones \in Nat \ {0} /\ RecentLimit \in Nat \ {0}
    /\ RequestTimeout \in Nat \ {0}
    /\ MaxInvocations \in Nat /\ MaxTime \in Nat
    /\ \A d \in Definitions : d.kind \in Kinds

VARIABLES
    socket,      \* readyState of each connection's WebSocket; "new" before it is opened
    states,      \* keys of #states: the connections the gateway still listens to
    session,     \* state.session: the session id, or None
    approval,    \* state.pendingApproval: "none", "pending", "overdue" (past expiresAt)
    timer,       \* what state.handshakeTimer is armed for: "off", "handshake", "approval"
    silent,      \* heartbeat ticks since lastSeenAt
    unanswered,  \* a ping has been sent to the tab since it was last heard
    stopping,    \* close has been called
    pairings,    \* #pairingTokens, the tokens issued so far and how many have expired
    pairingsIssued, pairingsExpired,
    resumes,     \* #resumeTokens, likewise
    resumesIssued, resumesExpired,
    held,        \* the resume token that each tab received last; 0 before the first
    sessions, registrations, bytes, count, retained,                  \* the registry
    now, calls, pending, active, cancelled, cancels, recent           \* the broker

sockets == <<socket, states, session, approval, timer, silent, unanswered, stopping>>
pairing == <<pairings, pairingsIssued, pairingsExpired>>
resuming == <<resumes, resumesIssued, resumesExpired, held>>
registry == <<sessions, registrations, bytes, count, retained>>
broker == <<calls, pending, active, cancelled, cancels, recent>>
vars == <<sockets, pairing, resuming, registry, broker, now>>

\* A connection as the broker's "send" sees it.
Reach ==
    [c \in Connections |->
        CASE socket[c] = "new" -> IF stopping THEN "closing" ELSE "open"
          [] socket[c] # "new" /\ c \in states -> socket[c]
          [] OTHER -> "closed"]

R == INSTANCE Registry WITH Identities <- Pages, NoSession <- None, announced <- {}
B == INSTANCE Broker WITH link <- Reach, MaxPerRuntime <- MaxPerRuntimeCalls
T == INSTANCE Tokens

MaxPending == IF MaxConnections < 4 THEN 1 ELSE MaxConnections \div 2

\* ws delivers a tab's messages until its socket has closed; a connection that the
\* gateway has dropped is not listened to any more.
Reads(c) == c \in states /\ socket[c] \in {"open", "closing"}

Closed(cs) ==
    [c \in Connections |->
        IF c \in cs /\ socket[c] = "open" THEN "closing" ELSE socket[c]]

\* onRawMessage refreshes lastSeenAt (and it goes with the rest of a closed socket's
\* state, which is represented as freshly heard).
Heard(c) ==
    /\ silent' = [silent EXCEPT ![c] = 0]
    /\ unanswered' = [unanswered EXCEPT ![c] = FALSE]

-----------------------------------------------------------------------------
(* Opening a connection *)

Accept(c) ==
    /\ socket[c] = "new" /\ ~stopping
    /\ Cardinality(states) < MaxConnections
    /\ socket' = [socket EXCEPT ![c] = "open"]
    /\ states' = states \cup {c}
    /\ timer' = [timer EXCEPT ![c] = "handshake"]
    /\ UNCHANGED <<session, approval, silent, unanswered, stopping>>
    /\ UNCHANGED <<pairing, resuming, registry, broker, now>>

HandshakeTimeout(c) ==
    /\ timer[c] = "handshake"
    /\ timer' = [timer EXCEPT ![c] = "off"]
    /\ socket' = Closed({c})
    /\ UNCHANGED <<states, session, approval, silent, unanswered, stopping>>
    /\ UNCHANGED <<pairing, resuming, registry, broker, now>>

\* A first message that is malformed, is not a connect, comes while an approval is
\* pending, or whose Origin, versions or features do not fit.
Refuse(c) ==
    /\ Reads(c) /\ session[c] = None
    /\ socket' = Closed({c})
    /\ Heard(c)
    /\ UNCHANGED <<states, session, approval, timer, stopping>>
    /\ UNCHANGED <<pairing, resuming, registry, broker, now>>

-----------------------------------------------------------------------------
(* connect.  "old" is the connection that a resume retires, if any, and "tokens" *)
(* the resume tokens that are left when the credential has been consumed.        *)

Grant(s, c) == [session |-> s, page |-> PageOf[c]]
GrantsOf(s) == {Grant(s, d) : d \in Connections}

\* The tokens after revokeAll of the session and issue of its new one.
Rotated_RevokesLast(tokens, s, c) ==
    T!Revoked(T!Issued(tokens, resumesExpired, resumesIssued + 1, Grant(s, c)), GrantsOf(s))
Rotated(tokens, s, c) ==
    T!Issued(T!Revoked(tokens, GrantsOf(s)), resumesExpired, resumesIssued + 1, Grant(s, c))

\* retirePreviousConnectionForResume, but for the session, which the new one replaces.
Retire_KeepsWork(old) ==
    /\ states' = states \ old
    /\ \/ old = {} /\ UNCHANGED <<registrations, bytes, count, retained>>
       \/ \E d \in old : R!Forget(d)
    /\ UNCHANGED broker
Retire(old) ==
    /\ states' = states \ old
    /\ \/ old = {} /\ UNCHANGED <<registrations, bytes, count, retained, broker>>
       \/ \E d \in old : R!Forget(d) /\ B!Disconnect(d)

Left_Keeps(f, old) == f
Left(f, old) == [d \in Connections |-> IF d \in old THEN None ELSE f[d]]

\* establishSession: the welcome reaches the tab if its socket is still open.
Establish(c, s, old, tokens) ==
    /\ ~R!Conflicts(Left(sessions, old), PageOf[c])
    /\ Retire(old)
    /\ sessions' = [Left(sessions, old) EXCEPT ![c] = PageOf[c]]
    /\ session' = [Left(session, old) EXCEPT ![c] = s]
    /\ socket' = Closed(old)
    /\ timer' = [timer EXCEPT ![c] = "off"]
    /\ resumes' = Rotated(tokens, s, c)
    /\ resumesIssued' = resumesIssued + 1
    /\ held' = IF socket[c] = "open"
               THEN [held EXCEPT ![PageOf[c]] = resumesIssued + 1] ELSE held
    /\ UNCHANGED resumesExpired

\* establishSession when the runtime instance is connected already: the connection is
\* closed, and its credential is spent.
Conflict(c, old, tokens) ==
    /\ R!Conflicts(Left(sessions, old), PageOf[c])
    /\ Retire(old)
    /\ sessions' = Left(sessions, old)
    /\ session' = Left(session, old)
    /\ socket' = Closed(old \cup {c})
    /\ resumes' = tokens
    /\ UNCHANGED <<timer, resumesIssued, resumesExpired, held>>

\* rejectAuthentication
RefuseToken(c) ==
    /\ socket' = Closed({c})
    /\ UNCHANGED <<states, session, timer, registry, broker, resumesIssued, resumesExpired, held>>

Connects(c) == Reads(c) /\ session[c] = None /\ approval[c] = "none"

ConnectPairing(c, token) ==
    LET fitting == {PageOf[c].origin}
    IN  /\ Connects(c)
        /\ pairings' = T!Consumed(pairings, pairingsExpired, token, fitting)
        /\ IF T!Admits(pairings, pairingsExpired, token, fitting)
           THEN Establish(c, c, {}, resumes) \/ Conflict(c, {}, resumes)
           ELSE RefuseToken(c) /\ UNCHANGED resumes
        /\ Heard(c)
        /\ UNCHANGED <<approval, stopping, pairingsIssued, pairingsExpired, now>>

\* The other connection with the session and the identity that the grant is bound to.
Previous(c, s) == {d \in states \ {c} : session[d] = s /\ PageOf[d] = PageOf[c]}

ConnectResume(c, token) ==
    LET Admits(grants) == T!Admits(resumes, resumesExpired, token, grants)
        fitting == {Grant(s, c) : s \in Connections}
        tokens == T!Consumed(resumes, resumesExpired, token, fitting)
    IN  /\ Connects(c)
        /\ \/ ~Admits(fitting) /\ RefuseToken(c) /\ resumes' = tokens
           \/ \E s \in Connections :
                /\ Admits({Grant(s, c)})
                /\ \/ Establish(c, s, Previous(c, s), tokens)
                   \/ Conflict(c, Previous(c, s), tokens)
        /\ Heard(c)
        /\ UNCHANGED <<approval, stopping, pairing, now>>

-----------------------------------------------------------------------------
(* Operator approval *)

Waiting == {c \in states : approval[c] # "none"}

\* The limits of requestPairingApproval: in all, for an Origin, for a runtime.
Crowded_ManyPerRuntime(c) ==
    \/ Cardinality(Waiting) >= MaxPending
    \/ Cardinality({d \in Waiting : PageOf[d].origin = PageOf[c].origin}) >= MaxPerOrigin
Crowded(c) ==
    \/ Cardinality(Waiting) >= MaxPending
    \/ Cardinality({d \in Waiting : PageOf[d].origin = PageOf[c].origin}) >= MaxPerOrigin
    \/ \E d \in Waiting : PageOf[d] = PageOf[c]

\* The approval's own timer replaces the handshake timer.  If the tab cannot be told,
\* its socket is closing anyway and the request waits for its end.
RequestApproval_Untimed(c) ==
    /\ Connects(c) /\ ~Crowded(c)
    /\ approval' = [approval EXCEPT ![c] = "pending"]
    /\ timer' = [timer EXCEPT ![c] = "off"]
    /\ Heard(c)
    /\ UNCHANGED <<socket, states, session, stopping>>
    /\ UNCHANGED <<pairing, resuming, registry, broker, now>>
RequestApproval(c) ==
    /\ Connects(c) /\ ~Crowded(c)
    /\ approval' = [approval EXCEPT ![c] = "pending"]
    /\ timer' = [timer EXCEPT ![c] = "approval"]
    /\ Heard(c)
    /\ UNCHANGED <<socket, states, session, stopping>>
    /\ UNCHANGED <<pairing, resuming, registry, broker, now>>

RefuseApproval(c) ==
    /\ Connects(c) /\ Crowded(c)
    /\ socket' = Closed({c})
    /\ Heard(c)
    /\ UNCHANGED <<states, session, approval, timer, stopping>>
    /\ UNCHANGED <<pairing, resuming, registry, broker, now>>

\* decidePairingApproval("approve")
Approve(c) ==
    /\ c \in Waiting /\ approval[c] = "pending" /\ socket[c] = "open"
    /\ approval' = [approval EXCEPT ![c] = "none"]
    /\ Establish(c, c, {}, resumes) \/ Conflict(c, {}, resumes)
    /\ UNCHANGED <<silent, unanswered, stopping, pairing, now>>

\* decidePairingApproval("reject")
Reject(c) ==
    /\ c \in Waiting /\ approval[c] = "pending" /\ socket[c] = "open"
    /\ approval' = [approval EXCEPT ![c] = "none"]
    /\ socket' = Closed({c})
    /\ UNCHANGED <<states, session, timer, silent, unanswered, stopping>>
    /\ UNCHANGED <<pairing, resuming, registry, broker, now>>

\* expirePairingApproval
Expire(c) ==
    /\ approval' = [approval EXCEPT ![c] = "none"]
    /\ timer' = [timer EXCEPT ![c] = "off"]
    /\ socket' = Closed({c})
    /\ UNCHANGED <<states, session, silent, unanswered, stopping>>
    /\ UNCHANGED <<pairing, resuming, registry, broker, now>>

\* A decision that comes too late, or for a socket that is closing.
DecideLate(c) ==
    /\ c \in Waiting
    /\ approval[c] = "overdue" \/ socket[c] # "open"
    /\ Expire(c)

ApprovalOverdue(c) ==
    /\ approval[c] = "pending" /\ c \in states
    /\ approval' = [approval EXCEPT ![c] = "overdue"]
    /\ UNCHANGED <<socket, states, session, timer, silent, unanswered, stopping>>
    /\ UNCHANGED <<pairing, resuming, registry, broker, now>>

ApprovalTimeout(c) == timer[c] = "approval" /\ approval[c] = "overdue" /\ Expire(c)

IssuePairing(origin) ==
    /\ pairingsIssued < MaxPairings
    /\ pairings' = T!Issued(pairings, pairingsExpired, pairingsIssued + 1, origin)
    /\ pairingsIssued' = pairingsIssued + 1
    /\ UNCHANGED <<pairingsExpired, sockets, resuming, registry, broker, now>>

TokenExpires ==
    /\ \/ /\ pairingsExpired < pairingsIssued
          /\ pairingsExpired' = pairingsExpired + 1 /\ UNCHANGED resumesExpired
       \/ /\ resumesExpired < resumesIssued
          /\ resumesExpired' = resumesExpired + 1 /\ UNCHANGED pairingsExpired
    /\ UNCHANGED <<pairings, pairingsIssued, resumes, resumesIssued, held>>
    /\ UNCHANGED <<sockets, registry, broker, now>>

-----------------------------------------------------------------------------
(* Messages of a connection that has a session *)

Speaks(c) == Reads(c) /\ session[c] # None

\* Pings, pongs, and the messages that are answered with an error and change nothing.
Chat(c) ==
    /\ Speaks(c) /\ Heard(c)
    /\ UNCHANGED <<socket, states, session, approval, timer, stopping>>
    /\ UNCHANGED <<pairing, resuming, registry, broker, now>>

RegisterMessage(c, d) ==
    /\ Speaks(c) /\ Heard(c)
    /\ R!Register(c, d)
    /\ UNCHANGED <<socket, states, session, approval, timer, stopping>>
    /\ UNCHANGED <<pairing, resuming, broker, now>>

UnregisterMessage(c, d) ==
    /\ Speaks(c) /\ Heard(c)
    /\ R!Unregister(c, d)
    /\ UNCHANGED <<socket, states, session, approval, timer, stopping>>
    /\ UNCHANGED <<pairing, resuming, broker, now>>

\* "result", "error" and "cancel"
InvocationMessage(c, i) ==
    /\ Speaks(c) /\ Heard(c)
    /\ \/ \E k \in Kinds : B!Result(c, i, k)
       \/ \E code \in BrowserErrors : B!Error(c, i, code)
       \/ B!CancelFromBrowser(c, i)
       \/ B!LateMessage(c, i)
    /\ UNCHANGED <<socket, states, session, approval, timer, stopping>>
    /\ UNCHANGED <<pairing, resuming, registry, now>>

\* "disconnect"; without canResume the session's tokens are revoked.
DisconnectMessage(c) ==
    /\ Speaks(c) /\ Heard(c)
    /\ resumes' \in {resumes, T!Revoked(resumes, GrantsOf(session[c]))}
    /\ socket' = Closed({c})
    /\ UNCHANGED <<states, session, approval, timer, stopping>>
    /\ UNCHANGED <<pairing, resumesIssued, resumesExpired, held, registry, broker, now>>

\* A message that is malformed, out of place or of another session.
Violation(c) ==
    /\ Speaks(c)
    /\ socket' = Closed({c})
    /\ Heard(c) \/ UNCHANGED <<silent, unanswered>>
    /\ UNCHANGED <<states, session, approval, timer, stopping>>
    /\ UNCHANGED <<pairing, resuming, registry, broker, now>>

MessageFrom(c) ==
    \/ Refuse(c)
    \/ \E token \in 1..MaxPairings : ConnectPairing(c, token)
    \/ \E page \in Pages : ConnectResume(c, held[page])
    \/ RequestApproval(c) \/ RefuseApproval(c)
    \/ Chat(c) \/ DisconnectMessage(c) \/ Violation(c)
    \/ \E d \in Definitions : RegisterMessage(c, d) \/ UnregisterMessage(c, d)
    \/ \E i \in 1..MaxInvocations : InvocationMessage(c, i)

-----------------------------------------------------------------------------
(* The end of a connection *)

\* The tab closes its socket, or the browser does when the tab is closed.
PeerCloses(c) ==
    /\ socket[c] = "open"
    /\ socket' = Closed({c})
    /\ UNCHANGED <<states, session, approval, timer, silent, unanswered, stopping>>
    /\ UNCHANGED <<pairing, resuming, registry, broker, now>>

\* onClose, after a closing handshake, its timeout, or the loss of the socket.
OnClose_KeepsRequests(c) ==
    /\ socket[c] \in {"open", "closing"}
    /\ socket' = [socket EXCEPT ![c] = "closed"]
    /\ states' = states \ {c}
    /\ session' = [session EXCEPT ![c] = None]
    /\ approval' = [approval EXCEPT ![c] = "none"]
    /\ timer' = [timer EXCEPT ![c] = "off"]
    /\ UNCHANGED broker
    /\ R!RemoveSession(c)
    /\ Heard(c)
    /\ UNCHANGED <<stopping, pairing, resuming, now>>
OnClose(c) ==
    /\ socket[c] \in {"open", "closing"}
    /\ socket' = [socket EXCEPT ![c] = "closed"]
    /\ states' = states \ {c}
    /\ session' = [session EXCEPT ![c] = None]
    /\ approval' = [approval EXCEPT ![c] = "none"]
    /\ timer' = [timer EXCEPT ![c] = "off"]
    /\ B!Disconnect(c)
    /\ R!RemoveSession(c)
    /\ Heard(c)
    /\ UNCHANGED <<stopping, pairing, resuming, now>>

Silence(c) == IF silent[c] < Grace THEN silent[c] + 1 ELSE Grace

\* heartbeat: a session that has been silent for longer than the grace period is
\* closed, any other one is pinged.
TimedOut_LastTick(c) == session[c] # None /\ silent[c] > Grace
TimedOut(c) == session[c] # None /\ Silence(c) = Grace
Heartbeat ==
    LET dead == {c \in states : TimedOut(c)}
    IN  /\ ~stopping /\ states # {}
        /\ silent' = [c \in Connections |-> IF c \in states THEN Silence(c) ELSE silent[c]]
        /\ socket' = Closed(dead)
        /\ unanswered' = [c \in Connections |->
                            \/ unanswered[c]
                            \/ c \in states \ dead /\ session[c] # None /\ socket[c] = "open"]
        /\ UNCHANGED <<states, session, approval, timer, stopping>>
        /\ UNCHANGED <<pairing, resuming, registry, broker, now>>

\* BrowserMcpBridge.close: the broker rejects everything, the heartbeat stops, every
\* tab is told and every socket closed, and no new socket is accepted.
Stop ==
    /\ ~stopping
    /\ stopping' = TRUE
    /\ socket' = Closed(states)
    /\ B!Close
    /\ UNCHANGED <<states, session, approval, timer, silent, unanswered>>
    /\ UNCHANGED <<pairing, resuming, registry, now>>

-----------------------------------------------------------------------------
(* MCP callers: tools/call, resources/read and prompts/get of mcp-endpoint.ts   *)
(* resolve the one provider of a name or a URI and invoke it in the same turn.  *)

Target(c, d) ==
    IF d.kind = "resource" THEN R!UriProviders(R!ExposedUri(c, d))
    ELSE R!Providers(d.kind, R!ExposedName(c, d))

Invoke(c, d) ==
    /\ d \in registrations[c]
    /\ R!Resolves(Target(c, d), c, d)
    /\ \/ B!InvokeSent(c, d.kind) /\ UNCHANGED socket
       \/ B!InvokeUnsent(c, d.kind) /\ socket' \in {socket, Closed({c})}
    /\ UNCHANGED <<states, session, approval, timer, silent, unanswered, stopping>>
    /\ UNCHANGED <<pairing, resuming, registry, now>>

GiveUp(i) ==
    /\ B!TimerFires(i) \/ B!Abort(i)
    /\ UNCHANGED <<sockets, pairing, resuming, registry, now>>

Tick ==
    /\ now < MaxTime
    /\ now' = now + 1
    /\ UNCHANGED <<sockets, pairing, resuming, registry, broker>>

-----------------------------------------------------------------------------

Init ==
    /\ socket = [c \in Connections |-> "new"]
    /\ states = {}
    /\ session = [c \in Connections |-> None]
    /\ approval = [c \in Connections |-> "none"]
    /\ timer = [c \in Connections |-> "off"]
    /\ silent = [c \in Connections |-> 0]
    /\ unanswered = [c \in Connections |-> FALSE]
    /\ stopping = FALSE
    /\ pairings = {} /\ pairingsIssued = 0 /\ pairingsExpired = 0
    /\ resumes = {} /\ resumesIssued = 0 /\ resumesExpired = 0
    /\ held = [p \in Pages |-> 0]
    /\ sessions = [c \in Connections |-> None]
    /\ registrations = [c \in Connections |-> {}]
    /\ bytes = [c \in Connections |-> R!NoBytes]
    /\ count = 0 /\ retained = 0
    /\ now = 0
    /\ calls = <<>> /\ pending = {} /\ recent = <<>>
    /\ active = [c \in Connections |-> 0]
    /\ cancelled = {} /\ cancels = 0

Next ==
    \/ \E c \in Connections :
        \/ Accept(c) \/ MessageFrom(c) \/ PeerCloses(c) \/ OnClose(c)
        \/ HandshakeTimeout(c) \/ ApprovalOverdue(c) \/ ApprovalTimeout(c)
        \/ Approve(c) \/ Reject(c) \/ DecideLate(c)
        \/ \E d \in Definitions : Invoke(c, d)
    \/ \E p \in Pages : IssuePairing(p.origin)
    \/ \E i \in 1..MaxInvocations : GiveUp(i)
    \/ TokenExpires \/ Heartbeat \/ Stop \/ Tick

Spec == Init /\ [][Next]_vars

\* Timers fire, the heartbeat runs, and ws ends a socket that is closing (it destroys
\* the socket when the closing handshake takes too long).  Tabs, the operator and MCP
\* callers owe the bridge nothing.
FairSpec ==
    /\ Spec
    /\ WF_vars(Heartbeat)
    /\ \A c \in Connections :
        /\ WF_vars(HandshakeTimeout(c))
        /\ WF_vars(ApprovalOverdue(c)) /\ WF_vars(ApprovalTimeout(c))
        /\ WF_vars(socket[c] = "closing" /\ OnClose(c))

-----------------------------------------------------------------------------
(* Properties *)

\* The gateway, the registry and the broker agree on who is connected: the registry
\* knows exactly the sessions the gateway listens to, under the identity of their
\* tab, and only these have requests in progress.  What an MCP client is offered is
\* always what the bridge can still reach.
MapsAgree ==
    /\ \A c \in Connections :
        sessions[c] = IF c \in states /\ session[c] # None THEN PageOf[c] ELSE None
    /\ \A c \in Connections : session[c] # None => c \in states
    /\ \A i \in pending : sessions[calls[i].connection] # None

\* "At most half the browser-connection limit in pending approvals, at most three per
\* Origin, and one pending request per app/runtime/instance tuple" (bridge/README.md).
ApprovalsBounded ==
    /\ Cardinality(Waiting) <= MaxPending
    /\ \A p \in Pages : Cardinality({c \in Waiting : PageOf[c].origin = p.origin}) <= MaxPerOrigin
    /\ \A c, d \in Waiting : PageOf[c] = PageOf[d] => c = d

\* A connected tab can always resume: until it expires or a capful of newer ones has
\* been issued, the token it received last is one the bridge holds for its session and
\* its identity, whatever credentials have been presented, rotated and revoked
\* meanwhile; and it resumes the session or is refused: no two connections ever have
\* the same one.
ResumeReady ==
    /\ \A c \in states :
        session[c] # None /\ socket[c] = "open" =>
            \/ [token |-> held[PageOf[c]], grant |-> Grant(session[c], c)] \in resumes
            \/ held[PageOf[c]] \in 1..resumesExpired
            \/ resumesIssued >= held[PageOf[c]] + MaxEntries
    /\ \A c, d \in Connections : session[c] # None /\ session[c] = session[d] => c = d

\* A resume never costs a tab both connections: when it retires the former one, its
\* own takes over the session in the same step.
RetiredIsReplaced ==
    [][\A old \in states \ states' :
          socket'[old] # "closed" => \E c \in states' : session'[c] = session[old]]_vars

\* One connection acts for a runtime, and a takeover leaves nothing of the old one.
Ownership == INSTANCE RuntimeOwnership WITH
    SameRuntime <- LAMBDA c, d : /\ PageOf[c].origin = PageOf[d].origin
                                 /\ PageOf[c].app = PageOf[d].app
                                 /\ PageOf[c].instance = PageOf[d].instance,
    acting <- {c \in Connections : sessions[c] # None},
    ended <- {c \in Connections : socket[c] # "new" /\ c \notin states},
    owned <- {<<<<"request", i>>, calls[i].connection>> : i \in pending}
               \cup UNION {{<<<<"capability", d>>, c>> : d \in registrations[c]} : c \in Connections}
ImplementsOwnership == Ownership!Spec

\* The gateway uses the broker as Broker.tla assumes: each of its callbacks is at most
\* one step of that module, and a connection it has dropped is closed to the broker.
ImplementsBroker == B!Spec

\* The heartbeat only gives up a tab that it has pinged and that has not answered.
HeartbeatSparesResponsive ==
    [][Heartbeat => \A c \in Connections : socket'[c] # socket[c] => unanswered[c]]_vars

\* A connection attempt comes to an end: a session, or a socket that is gone.
AttemptsEnd ==
    \A c \in Connections :
        (c \in states /\ session[c] = None) ~> (c \notin states \/ session[c] # None)

\* A session ends unless its tab is heard from again and again.
SilentSessionsEnd ==
    \A c \in Connections : []<><<MessageFrom(c)>>_vars \/ <>[](session[c] = None)
=============================================================================
