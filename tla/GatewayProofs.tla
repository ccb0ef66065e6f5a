---------------------------- MODULE GatewayProofs ----------------------------
(***************************************************************************)
(* Proofs about Gateway for every value of its constants.                  *)
(*                                                                         *)
(* The facts about connections, sessions and registrations come first:     *)
(* they are inductive by themselves.  Every action is one of a few kinds   *)
(* of step to them (Quiet, Asks, Arrives, Leaves, Changes and Enters), so  *)
(* each invariant is shown once for each kind.  Then every step is shown   *)
(* to be a step of Broker or to leave it alone, which brings what is       *)
(* proved of Broker; and with both, a step of RuntimeOwnership.            *)
(***************************************************************************)
EXTENDS Gateway, FiniteSetTheorems, TLAPS

\* What is proved of a token store, of the resume tokens.
TP == INSTANCE TokenProofs WITH
    Grants <- {}, MaxIssued <- 0, admissions <- <<>>, revoked <- {},
    entries <- resumes, issued <- resumesIssued, expired <- resumesExpired

\* What is proved of the broker, of the gateway's own.
BP == INSTANCE BrokerProofs WITH link <- Reach, MaxPerRuntime <- MaxPerRuntimeCalls

SameRuntime(c, d) ==
    /\ PageOf[c].origin = PageOf[d].origin
    /\ PageOf[c].app = PageOf[d].app
    /\ PageOf[c].instance = PageOf[d].instance

\* The connections that have a session.
Acting == {c \in Connections : session[c] # None}

ConnectionTypes ==
    /\ socket \in [Connections -> {"new", "open", "closing", "closed"}]
    /\ states \subseteq Connections
    /\ session \in [Connections -> Connections \cup {None}]
    /\ approval \in [Connections -> {"none", "pending", "overdue"}]
    /\ sessions \in [Connections -> Pages \cup {None}]
    /\ registrations \in [Connections -> SUBSET Definitions]
    /\ stopping \in BOOLEAN

\* A session is on a connection that the gateway listens to, which is known to the
\* registry and waits for no approval; it belongs to the page that began it, and no
\* other connection acts for the same runtime.
ConnectionInv ==
    /\ ConnectionTypes
    /\ \A c \in states : socket[c] \in {"open", "closing"}
    /\ Acting \subseteq states
    /\ \A c \in Connections : approval[c] # "none" => c \in states \ Acting
    /\ \A c \in Connections : sessions[c] = IF c \in Acting THEN PageOf[c] ELSE None
    /\ \A c \in Connections : registrations[c] # {} => c \in Acting
    /\ \A c \in Acting : PageOf[session[c]] = PageOf[c]
    /\ \A c, d \in Acting : SameRuntime(c, d) => c = d

\* The resume tokens are numbered, and a grant is for the page whose connection began
\* the session.
TokensInv ==
    /\ resumesIssued \in Nat /\ resumesExpired \in Nat
    /\ held \in [Pages -> Nat]
    /\ TP!Numbered(resumes, resumesIssued)
    /\ \A e \in resumes : PageOf[e.grant.session] = e.grant.page

-----------------------------------------------------------------------------
(* The kinds of step. *)

\* A live token that is dropped in a step is not one that an open connection of the
\* session could still resume with.
Spares(tokens) ==
    \A e \in resumes \ tokens :
        \/ e.token <= resumesExpired
        \/ \A d \in Acting : e.grant = Grant(session[d], d) => socket'[d] # "open"

\* Sockets may close, approvals may end, tokens may expire or be dropped.
Quiet ==
    /\ \/ socket' = socket
       \/ \E cs \in SUBSET Connections : socket' = Closed(cs)
    /\ approval' \in [Connections -> {"none", "pending", "overdue"}]
    /\ \A c \in Connections : approval'[c] # "none" => approval[c] # "none"
    /\ stopping' \in BOOLEAN
    /\ resumes' \subseteq resumes /\ Spares(resumes')
    /\ resumesExpired' \in {resumesExpired, resumesExpired + 1}
    /\ UNCHANGED <<states, session, sessions, registrations, held, resumesIssued>>

\* Quiet, and the broker sees no more of it than sockets that close.
Shuts == Quiet /\ UNCHANGED <<stopping, broker, now>>

\* A connection begins to wait for an approval.
Asks == \E c \in Connections : RequestApproval(c)

Arrives == \E c \in Connections : Accept(c)

Leaves == \E c \in Connections : OnClose(c)

\* A connection with a session changes its registrations.
Changes(c) ==
    /\ c \in Acting
    /\ registrations' \in [Connections -> SUBSET Definitions]
    /\ \A d \in Connections \ {c} : registrations'[d] = registrations[d]
    /\ \/ registrations[c] \subseteq registrations'[c]
       \/ registrations'[c] \subseteq registrations[c]
    /\ UNCHANGED <<socket, states, session, approval, stopping, sessions, resuming>>
    /\ UNCHANGED <<broker, now>>

\* A connection gets its session, its own or one that it resumes from "old".
Admitted(c, s, old, tokens) ==
    /\ c \in states \ Acting /\ s \in Connections /\ PageOf[s] = PageOf[c]
    /\ old \subseteq states \ {c}
    /\ \A d \in old : session[d] = s /\ PageOf[d] = PageOf[c]
    /\ tokens \subseteq resumes /\ Spares(tokens)
    /\ approval' = [approval EXCEPT ![c] = "none"]
    /\ UNCHANGED <<stopping, now>>
Enters(c, s, old, tokens) == Admitted(c, s, old, tokens) /\ Establish(c, s, old, tokens)
Collides(c, s, old, tokens) == Admitted(c, s, old, tokens) /\ Conflict(c, old, tokens)

EntersAny ==
    \E c, s \in Connections : \E old \in SUBSET states, tokens \in SUBSET resumes :
        Enters(c, s, old, tokens)

\* A resume never meets a conflict: whoever acts for the runtime is retired by it.
LEMMA NoCollision ==
    ASSUME ConnectionInv, NEW c, NEW s, NEW old, NEW tokens, Collides(c, s, old, tokens)
    PROVE  old = {}
<1>. SUFFICES ASSUME NEW d \in old PROVE FALSE
  OBVIOUS
<1>1. /\ c \in states /\ s \in Connections /\ old \subseteq states
      /\ session[d] = s /\ PageOf[d] = PageOf[c]
  BY DEF Collides, Admitted
<1>2. PICK x \in Connections :
        /\ Left(sessions, old)[x] # None
        /\ Left(sessions, old)[x].origin = PageOf[c].origin
        /\ Left(sessions, old)[x].app = PageOf[c].app
        /\ Left(sessions, old)[x].instance = PageOf[c].instance
  BY DEF Collides, Conflict, R!Conflicts
<1>3. x \notin old /\ Left(sessions, old)[x] = sessions[x]
  BY <1>2 DEF Left
<1>4. x \in Acting /\ sessions[x] = PageOf[x]
  BY <1>2, <1>3 DEF ConnectionInv
<1>5. d \in Acting
  BY <1>1, GatewayAssumption DEF ConnectionInv, ConnectionTypes, Acting, GatewayAssumption
<1>6. SameRuntime(x, d)
  BY <1>1, <1>2, <1>3, <1>4 DEF SameRuntime
<1>. QED  BY <1>3, <1>4, <1>5, <1>6 DEF ConnectionInv

LEMMA CollisionQuiet ==
    ASSUME ConnectionInv, NEW c, NEW s, NEW old, NEW tokens, Collides(c, s, old, tokens)
    PROVE  Shuts
<1>1. old = {}
  BY NoCollision
<1>2. /\ socket' = Closed({c}) /\ {c} \in SUBSET Connections
      /\ resumes' \subseteq resumes /\ Spares(resumes')
      /\ approval' = [approval EXCEPT ![c] = "none"]
      /\ UNCHANGED <<states, registrations, stopping, held, resumesIssued, resumesExpired>>
      /\ UNCHANGED <<broker, now>>
  BY <1>1 DEF Collides, Admitted, Conflict, Retire, ConnectionInv, ConnectionTypes
<1>3. session' = session /\ sessions' = sessions
  BY <1>1 DEF Collides, Conflict, Left, ConnectionInv, ConnectionTypes
<1>. QED  BY <1>2, <1>3 DEF Shuts, Quiet, ConnectionInv, ConnectionTypes

\* Messages before a session: only the admissions are not quiet.
LEMMA ConnectKinds ==
    ASSUME ConnectionInv, TokensInv, NEW c \in Connections,
           \/ \E token \in 1..MaxPairings : ConnectPairing(c, token)
           \/ \E page \in Pages : ConnectResume(c, held[page])
           \/ Approve(c)
    PROVE  Shuts \/ EntersAny
<1>1. ConnectionTypes
  BY DEF ConnectionInv
<1>2. ASSUME c \in states \ Acting, approval' = [approval EXCEPT ![c] = "none"],
             UNCHANGED <<stopping, now>>,
             Establish(c, c, {}, resumes) \/ Conflict(c, {}, resumes)
      PROVE  Shuts \/ EntersAny
  <2>1. Admitted(c, c, {}, resumes)
    BY <1>2 DEF Admitted, Spares
  <2>2. CASE Establish(c, c, {}, resumes)
    <3>1. Enters(c, c, {}, resumes)
      BY <2>1, <2>2 DEF Enters
    <3>. QED  BY <3>1 DEF EntersAny
  <2>3. CASE Conflict(c, {}, resumes)
    BY <2>1, <2>3, CollisionQuiet DEF Collides
  <2>. QED  BY <1>2, <2>2, <2>3
<1>3. ASSUME RefuseToken(c), UNCHANGED <<approval, stopping, now>>,
             resumes' \subseteq resumes, \A e \in resumes \ resumes' : e.token <= resumesExpired
      PROVE  Shuts
  <2>1. socket' = Closed({c}) /\ {c} \in SUBSET Connections
        /\ UNCHANGED <<states, session, sessions, registrations,
                       held, resumesIssued, resumesExpired, broker>>
    BY <1>3 DEF RefuseToken, registry
  <2>. QED  BY <1>1, <1>3, <2>1 DEF Shuts, Quiet, Spares, ConnectionTypes
<1>4. Connects(c) => /\ c \in states \ Acting
                     /\ approval = [approval EXCEPT ![c] = "none"]
  BY <1>1 DEF Connects, Reads, Acting, ConnectionTypes
<1>5. CASE Approve(c)
  <2>1. c \in states \ Acting
    BY <1>5 DEF Approve, Waiting, ConnectionInv
  <2>. QED  BY <1>2, <1>5, <2>1 DEF Approve
<1>6. ASSUME NEW token, ConnectPairing(c, token) PROVE Shuts \/ EntersAny
  <2>1. Connects(c) /\ UNCHANGED <<approval, stopping, now>>
    BY <1>6 DEF ConnectPairing
  <2>2. CASE RefuseToken(c) /\ UNCHANGED resumes
    BY <1>3, <2>1, <2>2
  <2>3. CASE Establish(c, c, {}, resumes) \/ Conflict(c, {}, resumes)
    BY <1>2, <1>4, <2>1, <2>3
  <2>. QED  BY <1>6, <2>2, <2>3 DEF ConnectPairing
<1>7. ASSUME NEW token, ConnectResume(c, token) PROVE Shuts \/ EntersAny
  <2> DEFINE tokens == T!Consumed(resumes, resumesExpired, token,
                                  {Grant(s, c) : s \in Connections})
  <2>1. Connects(c) /\ UNCHANGED <<approval, stopping, now>>
    BY <1>7 DEF ConnectResume
  <2>2. /\ tokens \subseteq resumes
        /\ \A e \in resumes \ tokens :
              \/ e.token = token /\ e.token <= resumesExpired
              \/ e.token = token /\ T!Admits(resumes, resumesExpired, token,
                                            {Grant(s, c) : s \in Connections})
    BY DEF T!Consumed
  <2>3. CASE /\ ~T!Admits(resumes, resumesExpired, token, {Grant(s, c) : s \in Connections})
             /\ RefuseToken(c) /\ resumes' = tokens
    <3>1. \A e \in resumes \ resumes' : e.token <= resumesExpired
      BY <2>2, <2>3
    <3>. HIDE DEF tokens
    <3>. QED  BY <1>3, <2>1, <2>2, <2>3, <3>1
  <2>4. ASSUME NEW s \in Connections,
               T!Admits(resumes, resumesExpired, token, {Grant(s, c)}),
               \/ Establish(c, s, Previous(c, s), tokens)
               \/ Conflict(c, Previous(c, s), tokens)
        PROVE  Shuts \/ EntersAny
    <3>0. PICK e \in resumes : e.token = token /\ e.grant = Grant(s, c)
      BY <2>4 DEF T!Admits, T!Fresh
    <3>1. PageOf[s] = PageOf[c]
      BY <3>0 DEF Grant, TokensInv
    <3>2. /\ Previous(c, s) \in SUBSET states
          /\ Previous(c, s) \subseteq states \ {c}
          /\ \A d \in Previous(c, s) : session[d] = s /\ PageOf[d] = PageOf[c]
      BY DEF Previous
    <3>. HIDE DEF tokens
    <3>a. socket' = Closed(Previous(c, s)) \/ socket' = Closed(Previous(c, s) \cup {c})
      BY <2>4 DEF Establish, Conflict
    <3>b. Spares(tokens)
      <4>. SUFFICES ASSUME NEW f \in resumes \ tokens, ~(f.token <= resumesExpired),
                           NEW d \in Acting, f.grant = Grant(session[d], d)
                    PROVE  socket'[d] # "open"
        BY DEF Spares
      <4>1. f.token = token
        BY <2>2
      <4>2. f = e
        BY <3>0, <4>1 DEF TokensInv, TP!Numbered
      <4>3. session[d] = s /\ PageOf[d] = PageOf[c]
        BY <3>0, <4>2 DEF Grant
      <4>4. d \in Previous(c, s)
        BY <1>4, <2>1, <4>3 DEF Previous, ConnectionInv
      <4>. QED  BY <3>a, <4>4 DEF Closed, Acting
    <3>3. Admitted(c, s, Previous(c, s), tokens)
      BY <1>4, <2>1, <2>2, <3>1, <3>2, <3>b DEF Admitted
    <3>4. CASE Establish(c, s, Previous(c, s), tokens)
      <4>1. Enters(c, s, Previous(c, s), tokens)
        BY <3>3, <3>4 DEF Enters
      <4>. QED  BY <2>2, <3>2, <4>1 DEF EntersAny
    <3>5. CASE Conflict(c, Previous(c, s), tokens)
      BY <3>3, <3>5, CollisionQuiet DEF Collides
    <3>. QED  BY <2>4, <3>4, <3>5
  <2>. QED  BY <1>7, <2>3, <2>4 DEF ConnectResume
<1>. QED  BY <1>5, <1>6, <1>7

\* What a tab sends on a connection that has a session changes at most what it has
\* registered.
LEMMA SpeaksKinds ==
    ASSUME ConnectionInv, TokensInv, NEW c \in Connections,
           \/ Chat(c) \/ DisconnectMessage(c) \/ Violation(c)
           \/ \E d \in Definitions : RegisterMessage(c, d) \/ UnregisterMessage(c, d)
           \/ \E i \in 1..MaxInvocations : InvocationMessage(c, i)
    PROVE  Quiet \/ Changes(c)
<1>1. ConnectionTypes /\ {c} \in SUBSET Connections
  BY DEF ConnectionInv
<1>2. ASSUME socket' = socket \/ socket' = Closed({c}), resumes' \subseteq resumes,
             Spares(resumes'), UNCHANGED <<held, resumesIssued, resumesExpired>>,
             UNCHANGED <<states, session, approval, stopping, sessions, registrations>>
      PROVE  Quiet
  BY <1>1, <1>2 DEF Quiet, ConnectionTypes
<1>3. ASSUME socket' = socket \/ socket' = Closed({c}), UNCHANGED resuming,
             UNCHANGED <<states, session, approval, stopping, sessions, registrations>>
      PROVE  Quiet
  BY <1>2, <1>3 DEF resuming, Spares
<1>4. CASE DisconnectMessage(c)
  <2>1. /\ c \in Acting /\ socket' = Closed({c})
        /\ resumes' = resumes \/ resumes' = T!Revoked(resumes, GrantsOf(session[c]))
        /\ UNCHANGED <<states, session, approval, stopping, sessions, registrations>>
        /\ UNCHANGED <<held, resumesIssued, resumesExpired>>
    BY <1>4 DEF DisconnectMessage, registry, Speaks, Acting
  <2>2. resumes' \subseteq resumes
    BY <2>1 DEF T!Revoked
  <2>3. Spares(resumes')
    <3>. SUFFICES ASSUME NEW e \in resumes \ resumes',
                         NEW d \in Acting, e.grant = Grant(session[d], d)
                  PROVE  socket'[d] # "open"
      BY DEF Spares
    <3>1. e.grant \in GrantsOf(session[c])
      BY <2>1 DEF T!Revoked
    <3>2. session[d] = session[c]
      <4>1. PICK x \in Connections : Grant(session[d], d) = Grant(session[c], x)
        BY <3>1 DEF GrantsOf
      <4>2. Grant(session[d], d).session = session[d] /\ Grant(session[c], x).session = session[c]
        BY DEF Grant
      <4>. QED  BY <4>1, <4>2
    <3>3. PageOf[d] = PageOf[c]
      BY <2>1, <3>2 DEF ConnectionInv
    <3>4. d = c
      BY <2>1, <3>3 DEF ConnectionInv, SameRuntime
    <3>. QED  BY <2>1, <3>4 DEF Closed
  <2>. QED  BY <1>2, <2>1, <2>2, <2>3
<1>5. CASE Chat(c) \/ Violation(c)
  BY <1>3, <1>5 DEF Chat, Violation, registry
<1>6. CASE \E i \in 1..MaxInvocations : InvocationMessage(c, i)
  BY <1>3, <1>6 DEF InvocationMessage, registry
<1>7. ASSUME NEW d \in Definitions, RegisterMessage(c, d) \/ UnregisterMessage(c, d)
      PROVE  Changes(c)
  <2>1. /\ c \in Acting
        /\ UNCHANGED <<socket, states, session, approval, stopping, sessions, resuming>>
        /\ UNCHANGED <<broker, now>>
    BY <1>7 DEF RegisterMessage, UnregisterMessage, Speaks, Acting,
                R!Register, R!Unregister
  <2>2. \/ registrations' = [registrations EXCEPT ![c] = registrations[c] \cup {d}]
        \/ registrations' = [registrations EXCEPT ![c] = registrations[c] \ {d}]
    BY <1>7 DEF RegisterMessage, UnregisterMessage, R!Register, R!Unregister
  <2>. QED  BY <1>1, <2>1, <2>2 DEF Changes, ConnectionTypes
<1>. QED  BY <1>4, <1>5, <1>6, <1>7

\* Timers, the operator's refusals and the end of sockets.
LEMMA QuietKinds ==
    ASSUME ConnectionInv, NEW c \in Connections,
           \/ Refuse(c) \/ RefuseApproval(c) \/ PeerCloses(c) \/ HandshakeTimeout(c)
           \/ ApprovalOverdue(c) \/ ApprovalTimeout(c) \/ Reject(c) \/ DecideLate(c)
    PROVE  Shuts
<1>1. ConnectionTypes /\ {c} \in SUBSET Connections
  BY DEF ConnectionInv
<1>2. ASSUME socket' = socket \/ socket' = Closed({c}),
             \/ approval' = approval
             \/ approval' = [approval EXCEPT ![c] = "none"]
             \/ approval[c] = "pending" /\ approval' = [approval EXCEPT ![c] = "overdue"],
             UNCHANGED <<states, session, stopping, registry, resuming, broker, now>>
      PROVE  Shuts
  BY <1>1, <1>2 DEF Shuts, Quiet, Spares, ConnectionTypes, registry, resuming
<1>3. CASE Refuse(c) \/ RefuseApproval(c) \/ PeerCloses(c) \/ HandshakeTimeout(c)
  BY <1>2, <1>3 DEF Refuse, RefuseApproval, PeerCloses, HandshakeTimeout
<1>4. CASE ApprovalOverdue(c) \/ ApprovalTimeout(c) \/ Reject(c) \/ DecideLate(c)
  BY <1>2, <1>4 DEF ApprovalOverdue, ApprovalTimeout, Reject, DecideLate, Expire
<1>. QED  BY <1>3, <1>4

\* The steps of the bridge's other parts.
LEMMA OtherKinds ==
    ASSUME ConnectionInv,
           \/ \E c \in Connections, d \in Definitions : Invoke(c, d)
           \/ \E p \in Pages : IssuePairing(p.origin)
           \/ \E i \in 1..MaxInvocations : GiveUp(i)
           \/ TokenExpires \/ Heartbeat \/ Stop \/ Tick \/ UNCHANGED vars
    PROVE  Quiet
<1>1. ConnectionTypes
  BY DEF ConnectionInv
<1>2. ASSUME socket' = socket \/ \E cs \in SUBSET Connections : socket' = Closed(cs),
             stopping' \in BOOLEAN, UNCHANGED <<resumes, resumesIssued, held>>,
             resumesExpired' \in {resumesExpired, resumesExpired + 1},
             UNCHANGED <<states, session, approval, registry>>
      PROVE  Quiet
  BY <1>1, <1>2 DEF Quiet, Spares, ConnectionTypes, registry
<1>3. ASSUME NEW c \in Connections, NEW d \in Definitions, Invoke(c, d) PROVE Quiet
  <2>1. socket' = socket \/ socket' = Closed({c})
    BY <1>3 DEF Invoke
  <2>. QED  BY <1>1, <1>2, <1>3, <2>1 DEF Invoke, resuming, ConnectionTypes
<1>4. CASE (\E p \in Pages : IssuePairing(p.origin)) \/ TokenExpires
  BY <1>1, <1>2, <1>4 DEF IssuePairing, TokenExpires, sockets, resuming, ConnectionTypes
<1>5. CASE (\E i \in 1..MaxInvocations : GiveUp(i)) \/ Tick \/ UNCHANGED vars
  BY <1>1, <1>2, <1>5 DEF GiveUp, Tick, vars, sockets, resuming, ConnectionTypes
<1>6. CASE Heartbeat
  <2>1. {c \in states : TimedOut(c)} \in SUBSET Connections
    BY <1>1 DEF ConnectionTypes
  <2>. QED  BY <1>1, <1>2, <1>6, <2>1 DEF Heartbeat, resuming, ConnectionTypes
<1>7. CASE Stop
  BY <1>1, <1>2, <1>7 DEF Stop, resuming, ConnectionTypes
<1>. QED  BY <1>3, <1>4, <1>5, <1>6, <1>7

LEMMA StepKinds ==
    ASSUME ConnectionInv, TokensInv, [Next]_vars
    PROVE  \/ Quiet \/ Asks \/ Arrives \/ Leaves
           \/ (\E c \in Connections : Changes(c)) \/ EntersAny
<1>1. CASE UNCHANGED vars
  BY <1>1, OtherKinds
<1>2. CASE \/ \E p \in Pages : IssuePairing(p.origin)
           \/ \E i \in 1..MaxInvocations : GiveUp(i)
           \/ TokenExpires \/ Heartbeat \/ Stop \/ Tick
  BY <1>2, OtherKinds
<1>3. ASSUME NEW c \in Connections,
             \/ Accept(c) \/ MessageFrom(c) \/ PeerCloses(c) \/ OnClose(c)
             \/ HandshakeTimeout(c) \/ ApprovalOverdue(c) \/ ApprovalTimeout(c)
             \/ Approve(c) \/ Reject(c) \/ DecideLate(c)
             \/ \E d \in Definitions : Invoke(c, d)
      PROVE  \/ Quiet \/ Asks \/ Arrives \/ Leaves \/ Changes(c) \/ EntersAny
  <2>1. CASE MessageFrom(c)
    <3>1. CASE \/ \E token \in 1..MaxPairings : ConnectPairing(c, token)
               \/ \E page \in Pages : ConnectResume(c, held[page])
      BY <3>1, ConnectKinds DEF Shuts
    <3>2. CASE \/ Chat(c) \/ DisconnectMessage(c) \/ Violation(c)
               \/ \E d \in Definitions : RegisterMessage(c, d) \/ UnregisterMessage(c, d)
               \/ \E i \in 1..MaxInvocations : InvocationMessage(c, i)
      BY <3>2, SpeaksKinds
    <3>3. CASE RequestApproval(c)
      BY <3>3 DEF Asks
    <3>4. CASE Refuse(c) \/ RefuseApproval(c)
      BY <3>4, QuietKinds DEF Shuts
    <3>. QED  BY <2>1, <3>1, <3>2, <3>3, <3>4 DEF MessageFrom
  <2>2. CASE Accept(c) \/ OnClose(c)
    BY <2>2 DEF Arrives, Leaves
  <2>3. CASE \/ PeerCloses(c) \/ HandshakeTimeout(c)
             \/ ApprovalOverdue(c) \/ ApprovalTimeout(c) \/ Reject(c) \/ DecideLate(c)
    BY <2>3, QuietKinds DEF Shuts
  <2>4. CASE Approve(c)
    BY <2>4, ConnectKinds DEF Shuts
  <2>5. CASE \E d \in Definitions : Invoke(c, d)
    BY <2>5, OtherKinds
  <2>. QED  BY <1>3, <2>1, <2>2, <2>3, <2>4, <2>5
<1>. QED  BY <1>1, <1>2, <1>3 DEF Next

-----------------------------------------------------------------------------
(* Connections: each kind of step keeps ConnectionInv and TokensInv.     *)

\* A resume retires at most one connection, and it has the session.
LEMMA OldIsOne ==
    ASSUME ConnectionInv, NEW c, NEW s, NEW old, NEW tokens, Admitted(c, s, old, tokens)
    PROVE  old \subseteq Acting /\ \A d, e \in old : d = e
<1>1. old \subseteq Acting
  BY GatewayAssumption DEF Admitted, Acting, ConnectionInv, ConnectionTypes, GatewayAssumption
<1>2. \A d, e \in old : SameRuntime(d, e)
  BY DEF Admitted, SameRuntime
<1>. QED  BY <1>1, <1>2 DEF ConnectionInv

\* What an admission does to the connections and the registry.
LEMMA Entering ==
    ASSUME ConnectionInv, NEW c, NEW s, NEW old, NEW tokens, Enters(c, s, old, tokens)
    PROVE  /\ c \in Connections /\ c \in states' /\ c \notin Acting
           /\ states' = states \ old
           /\ Acting' = (Acting \ old) \cup {c}
           /\ session'[c] = s /\ sessions'[c] = PageOf[c]
           /\ \A x \in Connections \ (old \cup {c}) :
                session'[x] = session[x] /\ sessions'[x] = sessions[x]
           /\ \A x \in old : session'[x] = None /\ sessions'[x] = None
           /\ session' \in [Connections -> Connections \cup {None}]
           /\ sessions' \in [Connections -> Pages \cup {None}]
           /\ \A x \in Acting \ old : ~SameRuntime(x, c)
<1>1. /\ c \in states \ Acting /\ s \in Connections /\ old \subseteq states \ {c}
      /\ states \subseteq Connections
      /\ states' = states \ old
      /\ sessions' = [Left(sessions, old) EXCEPT ![c] = PageOf[c]]
      /\ session' = [Left(session, old) EXCEPT ![c] = s]
      /\ ~R!Conflicts(Left(sessions, old), PageOf[c])
  BY DEF Enters, Admitted, Establish, Retire, ConnectionInv, ConnectionTypes
<1>2. PageOf[c] \in Pages /\ s # None /\ PageOf[c] # None
  BY <1>1, GatewayAssumption DEF GatewayAssumption
<1>3. /\ session' = [x \in Connections |-> IF x = c THEN s
                                           ELSE IF x \in old THEN None ELSE session[x]]
      /\ sessions' = [x \in Connections |-> IF x = c THEN PageOf[c]
                                            ELSE IF x \in old THEN None ELSE sessions[x]]
  BY <1>1 DEF Left
<1>4. /\ session' \in [Connections -> Connections \cup {None}]
      /\ sessions' \in [Connections -> Pages \cup {None}]
  <2>1. \A x \in Connections : /\ session[x] \in Connections \cup {None}
                               /\ sessions[x] \in Pages \cup {None}
    BY DEF ConnectionInv, ConnectionTypes
  <2>2. session' \in [Connections -> Connections \cup {None}]
    BY <1>1, <1>3, <2>1
  <2>3. sessions' \in [Connections -> Pages \cup {None}]
    BY <1>2, <1>3, <2>1
  <2>. QED  BY <2>2, <2>3
<1>5. Acting' = (Acting \ old) \cup {c}
  BY <1>1, <1>2, <1>3 DEF Acting
<1>6. ASSUME NEW x \in Acting \ old PROVE ~SameRuntime(x, c)
  <2>1. Left(sessions, old)[x] = PageOf[x] /\ x \in Connections
    BY DEF Left, ConnectionInv, Acting
  <2>2. PageOf[x] # None
    BY <2>1, GatewayAssumption DEF GatewayAssumption
  <2>. QED  BY <1>1, <2>1, <2>2 DEF R!Conflicts, SameRuntime
<1>. QED  BY <1>1, <1>3, <1>4, <1>5, <1>6

LEMMA EntersConnectionInv ==
    ASSUME ConnectionInv, NEW c, NEW s, NEW old, NEW tokens, Enters(c, s, old, tokens)
    PROVE  ConnectionInv'
<1>1. /\ c \in Connections /\ c \in states' /\ c \notin Acting
      /\ states' = states \ old
      /\ Acting' = (Acting \ old) \cup {c}
      /\ session'[c] = s /\ sessions'[c] = PageOf[c]
      /\ \A x \in Connections \ (old \cup {c}) :
            session'[x] = session[x] /\ sessions'[x] = sessions[x]
      /\ \A x \in old : session'[x] = None /\ sessions'[x] = None
      /\ session' \in [Connections -> Connections \cup {None}]
      /\ sessions' \in [Connections -> Pages \cup {None}]
      /\ \A x \in Acting \ old : ~SameRuntime(x, c)
  BY Entering
<1>2. old \subseteq Acting /\ \A d, e \in old : d = e
  BY OldIsOne DEF Enters
<1>3. /\ socket' = Closed(old)
      /\ approval' = [approval EXCEPT ![c] = "none"]
      /\ stopping' = stopping /\ PageOf[s] = PageOf[c] /\ s \in Connections
  BY DEF Enters, Admitted, Establish
<1>4. /\ registrations' \in [Connections -> SUBSET Definitions]
      /\ \A x \in Connections : registrations'[x] = IF x \in old THEN {} ELSE registrations[x]
  <2>1. CASE old = {} /\ registrations' = registrations
    BY <2>1 DEF ConnectionInv, ConnectionTypes
  <2>2. ASSUME NEW d \in old, registrations' = [registrations EXCEPT ![d] = {}]
        PROVE  /\ registrations' \in [Connections -> SUBSET Definitions]
               /\ \A x \in Connections : registrations'[x] = IF x \in old THEN {} ELSE registrations[x]
    BY <1>2, <2>2 DEF ConnectionInv, ConnectionTypes
  <2>. QED  BY <2>1, <2>2 DEF Enters, Establish, Retire, R!Forget
<1>5. ConnectionTypes'
  BY <1>1, <1>3, <1>4 DEF ConnectionInv, ConnectionTypes, Closed
<1>6. \A x \in states' : socket'[x] \in {"open", "closing"}
  BY <1>1, <1>3 DEF ConnectionInv, ConnectionTypes, Closed
<1>7. Acting' \subseteq states'
  BY <1>1 DEF ConnectionInv
<1>8. ASSUME NEW x \in Connections, approval'[x] # "none" PROVE x \in states' \ Acting'
  <2>1. x # c /\ approval[x] # "none"
    BY <1>1, <1>3, <1>8 DEF ConnectionInv, ConnectionTypes
  <2>2. x \in states \ Acting
    BY <2>1 DEF ConnectionInv
  <2>. QED  BY <1>1, <1>2, <2>1, <2>2
<1>9. ASSUME NEW x \in Connections
      PROVE  sessions'[x] = IF x \in Acting' THEN PageOf[x] ELSE None
  <2>1. CASE x = c
    BY <1>1, <2>1
  <2>2. CASE x \in old
    BY <1>1, <1>2, <2>2
  <2>3. CASE x \notin old \cup {c}
    BY <1>1, <2>3 DEF ConnectionInv
  <2>. QED  BY <2>1, <2>2, <2>3
<1>10. \A x \in Connections : registrations'[x] # {} => x \in Acting'
  BY <1>1, <1>4 DEF ConnectionInv
<1>11. ASSUME NEW x \in Acting' PROVE PageOf[session'[x]] = PageOf[x]
  <2>1. CASE x = c
    BY <1>1, <1>3, <2>1
  <2>2. CASE x # c
    <3>1. x \in Acting /\ x \in Connections \ (old \cup {c})
      BY <1>1, <2>2 DEF Acting
    <3>. QED  BY <1>1, <3>1 DEF ConnectionInv
  <2>. QED  BY <2>1, <2>2
<1>12. \A x, y \in Acting' : SameRuntime(x, y) => x = y
  <2>1. \A x, y : SameRuntime(x, y) => SameRuntime(y, x)
    BY DEF SameRuntime
  <2>. QED  BY <1>1, <2>1 DEF ConnectionInv
<1>. QED
  BY <1>5, <1>6, <1>7, <1>8, <1>9, <1>10, <1>11, <1>12 DEF ConnectionInv

LEMMA QuietConnectionInv ==
    ASSUME ConnectionInv, Quiet
    PROVE  ConnectionInv'
<1>1. UNCHANGED <<states, session, sessions, registrations>> /\ Acting' = Acting
  BY DEF Quiet, Acting
<1>2. /\ socket' \in [Connections -> {"new", "open", "closing", "closed"}]
      /\ \A c \in states : socket'[c] \in {"open", "closing"}
  BY DEF Quiet, Closed, ConnectionInv, ConnectionTypes
<1>3. ConnectionTypes'
  BY <1>1, <1>2 DEF Quiet, ConnectionInv, ConnectionTypes
<1>4. \A c \in Connections : approval'[c] # "none" => c \in states \ Acting
  BY DEF Quiet, ConnectionInv
<1>. QED  BY <1>1, <1>2, <1>3, <1>4 DEF ConnectionInv

LEMMA ArrivesConnectionInv ==
    ASSUME ConnectionInv, NEW c \in Connections, Accept(c) \/ RequestApproval(c)
    PROVE  ConnectionInv'
<1>1. UNCHANGED <<session, sessions, registrations, stopping>> /\ Acting' = Acting
  BY DEF Accept, RequestApproval, Acting, registry
<1>2. /\ states \subseteq states' /\ states' \subseteq Connections
      /\ socket' \in [Connections -> {"new", "open", "closing", "closed"}]
      /\ \A x \in states' : socket'[x] \in {"open", "closing"}
  BY DEF Accept, RequestApproval, ConnectionInv, ConnectionTypes
<1>3. /\ approval' \in [Connections -> {"none", "pending", "overdue"}]
      /\ \A x \in Connections : approval'[x] # "none" => x \in states' \ Acting
  <2>1. CASE Accept(c)
    BY <1>2, <2>1 DEF Accept, ConnectionInv, ConnectionTypes
  <2>2. CASE RequestApproval(c)
    <3>1. c \in states' \ Acting /\ approval' = [approval EXCEPT ![c] = "pending"]
      BY <1>2, <2>2 DEF RequestApproval, Connects, Reads, Acting
    <3>. QED  BY <1>2, <3>1 DEF ConnectionInv, ConnectionTypes
  <2>. QED  BY <2>1, <2>2
<1>4. ConnectionTypes'
  BY <1>1, <1>2, <1>3 DEF ConnectionInv, ConnectionTypes
<1>. QED  BY <1>1, <1>2, <1>3, <1>4 DEF ConnectionInv

LEMMA LeavesConnectionInv ==
    ASSUME ConnectionInv, NEW c \in Connections, OnClose(c)
    PROVE  ConnectionInv'
<1>1. /\ socket' = [socket EXCEPT ![c] = "closed"]
      /\ states' = states \ {c}
      /\ session' = [session EXCEPT ![c] = None]
      /\ approval' = [approval EXCEPT ![c] = "none"]
      /\ sessions' = [sessions EXCEPT ![c] = None]
      /\ registrations' = [registrations EXCEPT ![c] = {}]
      /\ stopping' = stopping
  BY DEF OnClose, R!RemoveSession, R!Forget
<1>2. Acting' = Acting \ {c}
  BY <1>1 DEF Acting, ConnectionInv, ConnectionTypes
<1>3. ConnectionTypes'
  BY <1>1 DEF ConnectionInv, ConnectionTypes
<1>4. \A x \in states' : socket'[x] \in {"open", "closing"}
  BY <1>1 DEF ConnectionInv, ConnectionTypes
<1>5. \A x \in Connections : approval'[x] # "none" => x \in states' \ Acting'
  BY <1>1, <1>2 DEF ConnectionInv, ConnectionTypes
<1>6. \A x \in Connections : sessions'[x] = IF x \in Acting' THEN PageOf[x] ELSE None
  BY <1>1, <1>2 DEF ConnectionInv, ConnectionTypes
<1>7. \A x \in Connections : registrations'[x] # {} => x \in Acting'
  BY <1>1, <1>2 DEF ConnectionInv, ConnectionTypes
<1>8. \A x \in Acting' : session'[x] = session[x] /\ x \in Acting
  BY <1>1, <1>2 DEF ConnectionInv, ConnectionTypes, Acting
<1>. QED  BY <1>1, <1>2, <1>3, <1>4, <1>5, <1>6, <1>7, <1>8 DEF ConnectionInv

LEMMA ChangesConnectionInv ==
    ASSUME ConnectionInv, NEW c \in Connections, Changes(c)
    PROVE  ConnectionInv'
<1>1. UNCHANGED <<socket, states, session, approval, stopping, sessions>> /\ Acting' = Acting
  BY DEF Changes, Acting
<1>2. \A x \in Connections : registrations'[x] # {} => x \in Acting
  BY DEF Changes, ConnectionInv
<1>3. ConnectionTypes'
  BY <1>1 DEF Changes, ConnectionInv, ConnectionTypes
<1>. QED  BY <1>1, <1>2, <1>3 DEF ConnectionInv

\* The functions of a store do the same for the gateway's resume tokens.
LEMMA SameTokens ==
    /\ TP!TokensAssumption
    /\ \A es, n, t, g : T!Issued(es, n, t, g) = TP!Issued(es, n, t, g)
  BY GatewayAssumption DEF GatewayAssumption, TP!TokensAssumption, T!Issued, TP!Issued,
     T!Newest, TP!Newest, T!Fresh, TP!Fresh, T!Cardinality, TP!Cardinality

\* A new session's token is issued after those of the session have been revoked.
LEMMA Rotating ==
    ASSUME TokensInv, NEW c, NEW s, NEW tokens \in SUBSET resumes,
           resumes' = Rotated(tokens, s, c)
    PROVE  LET new == [token |-> resumesIssued + 1, grant |-> Grant(s, c)]
           IN  /\ TP!Numbered(resumes', resumesIssued + 1)
               /\ resumes' \subseteq resumes \cup {new} /\ new \in resumes'
               /\ \A e \in tokens :
                    \/ e \in resumes' \/ e.grant \in GrantsOf(s)
                    \/ e.token <= resumesExpired
                    \/ resumesIssued + 1 >= e.token + MaxEntries
<1> DEFINE left == T!Revoked(tokens, GrantsOf(s))
           new == [token |-> resumesIssued + 1, grant |-> Grant(s, c)]
<1>1. /\ left \subseteq resumes /\ left \subseteq tokens
      /\ \A e \in tokens \ left : e.grant \in GrantsOf(s)
  BY DEF T!Revoked
<1>2. resumes' = TP!Issued(left, resumesExpired, resumesIssued + 1, Grant(s, c))
  BY SameTokens DEF Rotated
<1>3. resumesIssued \in Nat /\ resumesExpired \in Nat /\ TP!Numbered(left, resumesIssued)
  BY <1>1 DEF TokensInv, TP!Numbered
<1>. HIDE DEF left
<1>4. /\ TP!Numbered(resumes', resumesIssued + 1)
      /\ resumes' \subseteq left \cup {new} /\ new \in resumes'
      /\ \A e \in left : \/ e \in resumes' \/ e.token <= resumesExpired
                         \/ resumesIssued + 1 >= e.token + MaxEntries
  BY <1>2, <1>3, SameTokens, TP!Issuing
<1>. QED  BY <1>1, <1>4

LEMMA EntersTokensInv ==
    ASSUME TokensInv, NEW c \in Connections, NEW s, NEW old, NEW tokens, Enters(c, s, old, tokens)
    PROVE  TokensInv'
<1> DEFINE new == [token |-> resumesIssued + 1, grant |-> Grant(s, c)]
<1>1. /\ tokens \in SUBSET resumes /\ PageOf[s] = PageOf[c]
      /\ resumes' = Rotated(tokens, s, c)
      /\ resumesIssued' = resumesIssued + 1 /\ resumesExpired' = resumesExpired
      /\ held' = held \/ held' = [held EXCEPT ![PageOf[c]] = resumesIssued + 1]
  BY DEF Enters, Admitted, Establish
<1>2. TP!Numbered(resumes', resumesIssued') /\ resumes' \subseteq resumes \cup {new}
  BY <1>1, Rotating
<1>3. new.grant.session = s /\ new.grant.page = PageOf[c]
  BY DEF Grant
<1>. HIDE DEF new
<1>4. held' \in [Pages -> Nat] /\ resumesIssued' \in Nat /\ resumesExpired' \in Nat
  BY <1>1 DEF TokensInv
<1>. QED  BY <1>1, <1>2, <1>3, <1>4 DEF TokensInv

LEMMA OthersTokensInv ==
    ASSUME TokensInv,
           Quiet \/ Asks \/ Arrives \/ Leaves \/ (\E c \in Connections : Changes(c))
    PROVE  TokensInv'
<1>1. /\ resumes' \subseteq resumes /\ UNCHANGED <<held, resumesIssued>>
      /\ resumesExpired' \in {resumesExpired, resumesExpired + 1}
  BY DEF Quiet, Asks, Arrives, Leaves, Changes, RequestApproval, Accept, OnClose, resuming
<1>. QED  BY <1>1 DEF TokensInv, TP!Numbered

LEMMA InitConnectionInv == GatewayAssumption /\ Init => ConnectionInv /\ TokensInv
<1>. SUFFICES ASSUME GatewayAssumption, Init PROVE ConnectionInv /\ TokensInv
  OBVIOUS
<1>1. Acting = {} /\ ConnectionTypes
  BY DEF Init, Acting, ConnectionTypes
<1>. QED  BY <1>1 DEF Init, ConnectionInv, TokensInv, TP!Numbered

LEMMA NextConnectionInv ==
    ConnectionInv /\ TokensInv /\ [Next]_vars => ConnectionInv' /\ TokensInv'
<1>. SUFFICES ASSUME ConnectionInv, TokensInv, [Next]_vars
              PROVE  ConnectionInv' /\ TokensInv'
  OBVIOUS
<1>1. CASE Quiet
  BY <1>1, QuietConnectionInv, OthersTokensInv
<1>2. CASE Asks \/ Arrives
  BY <1>2, ArrivesConnectionInv, OthersTokensInv DEF Asks, Arrives
<1>3. CASE Leaves
  BY <1>3, LeavesConnectionInv, OthersTokensInv DEF Leaves
<1>4. CASE \E c \in Connections : Changes(c)
  BY <1>4, ChangesConnectionInv, OthersTokensInv
<1>5. CASE EntersAny
  BY <1>5, EntersConnectionInv, EntersTokensInv DEF EntersAny
<1>. QED  BY <1>1, <1>2, <1>3, <1>4, <1>5, StepKinds

\* Sessions, sockets, the registry and the resume tokens stay consistent.
THEOREM ConnectionInvariance == Spec => [](ConnectionInv /\ TokensInv)
  BY InitConnectionInv, NextConnectionInv, GatewayAssumption, PTL DEF Spec

-----------------------------------------------------------------------------
(* Approvals. *)

WaitingOf(origin) == {c \in Waiting : PageOf[c].origin = origin}

ApprovalInv == IsFiniteSet(states) /\ ApprovalsBounded

LEMMA MaxPendingType == MaxPending \in Nat
  BY GatewayAssumption DEF GatewayAssumption, MaxPending

\* The sets that the limits are about are finite.
LEMMA WaitingFinite ==
    ASSUME IsFiniteSet(states)
    PROVE  /\ IsFiniteSet(Waiting) /\ Cardinality(Waiting) \in Nat
           /\ \A o : IsFiniteSet(WaitingOf(o)) /\ Cardinality(WaitingOf(o)) \in Nat
<1>1. IsFiniteSet(Waiting)
  BY FS_Subset DEF Waiting
<1>2. ASSUME NEW o PROVE IsFiniteSet(WaitingOf(o)) /\ Cardinality(WaitingOf(o)) \in Nat
  BY <1>1, FS_Subset, FS_CardinalityType DEF WaitingOf
<1>. QED  BY <1>1, <1>2, FS_CardinalityType

\* Fewer waiting connections are within the limits.
LEMMA FewerWaiting ==
    ASSUME ApprovalInv, IsFiniteSet(states'), Waiting' \subseteq Waiting
    PROVE  ApprovalInv'
<1>1. /\ Cardinality(Waiting) \in Nat /\ IsFiniteSet(Waiting)
      /\ Cardinality(Waiting') \in Nat /\ Cardinality(Waiting') <= Cardinality(Waiting)
  <2>1. Cardinality(Waiting) \in Nat /\ IsFiniteSet(Waiting)
    BY WaitingFinite DEF ApprovalInv
  <2>. QED  BY <2>1, FS_Subset, FS_CardinalityType
<1>2. Cardinality(Waiting') <= MaxPending
  BY <1>1, MaxPendingType DEF ApprovalInv, ApprovalsBounded
<1>3. ASSUME NEW p \in Pages PROVE Cardinality(WaitingOf(p.origin)') <= MaxPerOrigin
  <2>1. IsFiniteSet(WaitingOf(p.origin)) /\ Cardinality(WaitingOf(p.origin)) \in Nat
    BY WaitingFinite DEF ApprovalInv
  <2>2. WaitingOf(p.origin)' \subseteq WaitingOf(p.origin)
    BY DEF WaitingOf
  <2>3. Cardinality(WaitingOf(p.origin)') \in Nat
        /\ Cardinality(WaitingOf(p.origin)') <= Cardinality(WaitingOf(p.origin))
    BY <2>1, <2>2, FS_Subset, FS_CardinalityType
  <2>4. Cardinality(WaitingOf(p.origin)) <= MaxPerOrigin
    BY DEF ApprovalInv, ApprovalsBounded, WaitingOf
  <2>. QED  BY <2>1, <2>3, <2>4, GatewayAssumption DEF GatewayAssumption
<1>4. \A c, d \in Waiting' : PageOf[c] = PageOf[d] => c = d
  BY DEF ApprovalInv, ApprovalsBounded
<1>. QED  BY <1>2, <1>3, <1>4 DEF ApprovalInv, ApprovalsBounded, WaitingOf

\* The three checks of requestPairingApproval are enough for the three limits.
LEMMA AsksApprovalInv ==
    ASSUME ConnectionInv, ApprovalInv, NEW c \in Connections, RequestApproval(c)
    PROVE  ApprovalInv'
<1>1. /\ c \in states /\ approval[c] = "none" /\ states' = states
      /\ approval' = [approval EXCEPT ![c] = "pending"]
      /\ ~Crowded(c)
  BY DEF RequestApproval, Connects, Reads
<1>2. Waiting' = Waiting \cup {c} /\ c \notin Waiting
  BY <1>1 DEF Waiting, ConnectionInv, ConnectionTypes
<1>3. IsFiniteSet(Waiting) /\ Cardinality(Waiting) \in Nat
  BY WaitingFinite DEF ApprovalInv
<1>4. Cardinality(Waiting') <= MaxPending
  <2>1. ~(Cardinality(Waiting) >= MaxPending)
    BY <1>1 DEF Crowded
  <2>2. Cardinality(Waiting') = Cardinality(Waiting) + 1
    BY <1>2, <1>3, FS_AddElement
  <2>. QED  BY <1>3, <2>1, <2>2, MaxPendingType
<1>5. ASSUME NEW p \in Pages PROVE Cardinality(WaitingOf(p.origin)') <= MaxPerOrigin
  <2>1. IsFiniteSet(WaitingOf(p.origin)) /\ Cardinality(WaitingOf(p.origin)) \in Nat
    BY WaitingFinite DEF ApprovalInv
  <2>2. CASE PageOf[c].origin = p.origin
    <3>1. ~(Cardinality(WaitingOf(p.origin)) >= MaxPerOrigin)
      BY <1>1, <2>2 DEF Crowded, WaitingOf
    <3>2. WaitingOf(p.origin)' = WaitingOf(p.origin) \cup {c} /\ c \notin WaitingOf(p.origin)
      BY <1>2, <2>2 DEF WaitingOf
    <3>3. Cardinality(WaitingOf(p.origin)') = Cardinality(WaitingOf(p.origin)) + 1
      BY <2>1, <3>2, FS_AddElement
    <3>. QED  BY <2>1, <3>1, <3>3, GatewayAssumption DEF GatewayAssumption
  <2>3. CASE PageOf[c].origin # p.origin
    <3>1. WaitingOf(p.origin)' = WaitingOf(p.origin)
      BY <1>2, <2>3 DEF WaitingOf
    <3>. QED  BY <3>1 DEF ApprovalInv, ApprovalsBounded, WaitingOf
  <2>. QED  BY <2>2, <2>3
<1>6. \A x, y \in Waiting' : PageOf[x] = PageOf[y] => x = y
  BY <1>1, <1>2 DEF Crowded, ApprovalInv, ApprovalsBounded
<1>. QED  BY <1>1, <1>4, <1>5, <1>6 DEF ApprovalInv, ApprovalsBounded, WaitingOf

LEMMA NextApprovalInv ==
    ConnectionInv /\ TokensInv /\ ApprovalInv /\ [Next]_vars => ApprovalInv'
<1>. SUFFICES ASSUME ConnectionInv, TokensInv, ApprovalInv, [Next]_vars
              PROVE  ApprovalInv'
  OBVIOUS
<1>1. IsFiniteSet(states)
  BY DEF ApprovalInv
<1>2. ASSUME states' \subseteq states,
             \A c \in states' : approval'[c] # "none" => approval[c] # "none"
      PROVE  ApprovalInv'
  <2>1. Waiting' \subseteq Waiting
    BY <1>2 DEF Waiting
  <2>2. IsFiniteSet(states')
    BY <1>1, <1>2, FS_Subset
  <2>. QED  BY <2>1, <2>2, FewerWaiting
<1>3. CASE Quiet
  BY <1>2, <1>3 DEF Quiet, ConnectionInv, ConnectionTypes
<1>4. CASE Asks
  BY <1>4, AsksApprovalInv DEF Asks
<1>5. ASSUME NEW c \in Connections, Accept(c) PROVE ApprovalInv'
  <2>1. states' = states \cup {c} /\ approval' = approval /\ c \notin states
    BY <1>5 DEF Accept, ConnectionInv
  <2>2. Waiting' \subseteq Waiting
    BY <2>1 DEF Waiting, ConnectionInv
  <2>3. IsFiniteSet(states')
    BY <1>1, <2>1, FS_AddElement
  <2>. QED  BY <2>2, <2>3, FewerWaiting
<1>6. ASSUME NEW c \in Connections, OnClose(c) PROVE ApprovalInv'
  <2>1. states' = states \ {c} /\ approval' = [approval EXCEPT ![c] = "none"]
    BY <1>6 DEF OnClose
  <2>. QED  BY <1>2, <2>1 DEF ConnectionInv, ConnectionTypes
<1>7. ASSUME NEW c \in Connections, Changes(c) PROVE ApprovalInv'
  BY <1>2, <1>7 DEF Changes
<1>8. ASSUME NEW c, NEW s, NEW old, NEW tokens, Enters(c, s, old, tokens) PROVE ApprovalInv'
  <2>1. states' = states \ old /\ approval' = [approval EXCEPT ![c] = "none"]
    BY <1>8 DEF Enters, Admitted, Establish, Retire
  <2>. QED  BY <1>2, <2>1 DEF ConnectionInv, ConnectionTypes
<1>. QED
  BY <1>3, <1>4, <1>5, <1>6, <1>7, <1>8, StepKinds DEF Arrives, Leaves, EntersAny

LEMMA InitApprovalInv == Init => ApprovalInv
<1>. SUFFICES ASSUME Init PROVE ApprovalInv
  OBVIOUS
<1>1. IsFiniteSet({}) /\ Cardinality({}) = 0
  BY FS_EmptySet
<1>2. states = {} /\ Waiting = {} /\ \A o : WaitingOf(o) = {}
  BY DEF Init, Waiting, WaitingOf
<1>3. 0 <= MaxPending /\ 0 <= MaxPerOrigin
  BY MaxPendingType, GatewayAssumption DEF GatewayAssumption
<1>. QED  BY <1>1, <1>2, <1>3 DEF ApprovalInv, ApprovalsBounded, WaitingOf

\* The limits on pending approvals hold of the approvals, for any limits: in all, of an
\* Origin, of a runtime.
THEOREM ApprovalsLimited == Spec => []ApprovalsBounded
<1>1. ApprovalInv => ApprovalsBounded
  BY DEF ApprovalInv
<1>. QED
  BY <1>1, InitApprovalInv, NextApprovalInv, ConnectionInvariance, PTL DEF Spec

\* A connection is retired by a resume only, and by one that has taken over its session.
THEOREM RetirementReplaces == Spec => RetiredIsReplaced
<1>1. ASSUME ConnectionInv, TokensInv, [Next]_vars,
             NEW x \in states \ states', socket'[x] # "closed"
      PROVE  \E c \in states' : session'[c] = session[x]
  <2>1. CASE Quiet \/ Asks \/ Arrives \/ \E c \in Connections : Changes(c)
    BY <1>1, <2>1 DEF Quiet, Asks, Arrives, Changes, RequestApproval, Accept
  <2>2. ASSUME NEW c \in Connections, OnClose(c) PROVE FALSE
    <3>1. states' = states \ {c} /\ socket' = [socket EXCEPT ![c] = "closed"]
      BY <2>2 DEF OnClose
    <3>. QED  BY <1>1, <3>1 DEF ConnectionInv, ConnectionTypes
  <2>3. ASSUME NEW c, NEW s, NEW old, NEW tokens, Enters(c, s, old, tokens)
        PROVE  \E d \in states' : session'[d] = session[x]
    <3>1. c \in states' /\ states' = states \ old /\ session'[c] = s
      BY <1>1, <2>3, Entering
    <3>2. session[x] = s
      BY <1>1, <2>3, <3>1 DEF Enters, Admitted
    <3>. QED  BY <3>1, <3>2
  <2>. QED  BY <1>1, <2>1, <2>2, <2>3, StepKinds DEF Leaves, EntersAny
<1> DEFINE Replaced == \A old \in states \ states' :
                         socket'[old] # "closed" => \E c \in states' : session'[c] = session[old]
<1>2. ConnectionInv /\ TokensInv /\ [Next]_vars => [Replaced]_vars
  BY <1>1
<1>3. Spec => [][Replaced]_vars
  <2>. HIDE DEF Replaced
  <2>. QED  BY <1>2, ConnectionInvariance, PTL DEF Spec
<1>. QED  BY <1>3 DEF RetiredIsReplaced

-----------------------------------------------------------------------------
(* Resumption. *)

\* What the bridge holds for a connection: the token that its tab received last, unless
\* that one has expired or been followed by a capful of newer ones.
LastToken(c) == [token |-> held[PageOf[c]], grant |-> Grant(session[c], c)]
Ready(c) ==
    \/ LastToken(c) \in resumes
    \/ held[PageOf[c]] \in 1..resumesExpired
    \/ resumesIssued >= held[PageOf[c]] + MaxEntries
ReadyInv == \A c \in Acting : socket[c] = "open" => Ready(c)

\* A step that leaves the session and the last token alone and spares the token.
LEMMA StaysReady ==
    ASSUME TokensInv, NEW c \in Acting, Ready(c), socket'[c] = "open",
           session'[c] = session[c], held'[PageOf[c]] = held[PageOf[c]],
           resumesExpired' \in {resumesExpired, resumesExpired + 1},
           resumesIssued' \in {resumesIssued, resumesIssued + 1},
           NEW tokens, Spares(tokens),
           \A e \in tokens :
              \/ e \in resumes' \/ e.grant # Grant(session[c], c)
              \/ e.token <= resumesExpired
              \/ resumesIssued' >= e.token + MaxEntries
    PROVE  Ready(c)'
<1>1. LastToken(c)' = LastToken(c) /\ PageOf[c] \in Pages
  BY GatewayAssumption DEF LastToken, Grant, GatewayAssumption, Acting
<1>2. /\ held[PageOf[c]] \in Nat /\ MaxEntries \in Nat
      /\ resumesExpired \in Nat /\ resumesIssued \in Nat
  BY <1>1, GatewayAssumption DEF GatewayAssumption, TokensInv
<1>3. CASE LastToken(c) \in resumes
  <2>1. /\ LastToken(c).token = held[PageOf[c]]
        /\ LastToken(c).grant = Grant(session[c], c)
    BY DEF LastToken
  <2>2. held[PageOf[c]] >= 1
    BY <1>3, <2>1 DEF TokensInv, TP!Numbered
  <2>3. CASE LastToken(c) \in tokens
    BY <1>1, <1>2, <2>1, <2>2, <2>3 DEF Ready
  <2>4. CASE LastToken(c) \notin tokens
    <3>1. LastToken(c).token <= resumesExpired
      BY <1>3, <2>1, <2>4 DEF Spares
    <3>. QED  BY <1>1, <1>2, <2>1, <2>2, <3>1 DEF Ready
  <2>. QED  BY <2>3, <2>4
<1>4. CASE held[PageOf[c]] \in 1..resumesExpired
  BY <1>1, <1>2, <1>4 DEF Ready
<1>5. CASE resumesIssued >= held[PageOf[c]] + MaxEntries
  BY <1>1, <1>2, <1>5 DEF Ready
<1>. QED  BY <1>3, <1>4, <1>5 DEF Ready

LEMMA OthersReady ==
    ASSUME ConnectionInv, TokensInv, ReadyInv,
           Quiet \/ Asks \/ Arrives \/ Leaves \/ (\E c \in Connections : Changes(c))
    PROVE  ReadyInv'
<1>. SUFFICES ASSUME NEW c \in Acting', socket'[c] = "open" PROVE Ready(c)'
  BY DEF ReadyInv
<1>1. CASE Quiet
  <2>1. /\ c \in Acting /\ session'[c] = session[c] /\ UNCHANGED <<held, resumesIssued>>
        /\ resumes' \subseteq resumes /\ Spares(resumes')
        /\ resumesExpired' \in {resumesExpired, resumesExpired + 1}
    BY <1>1 DEF Quiet, Acting
  <2>2. socket[c] = "open"
    BY <1>1, <2>1 DEF Quiet, Closed, Acting
  <2>. QED  BY <2>1, <2>2, StaysReady DEF ReadyInv
<1>2. CASE Asks \/ Arrives \/ Leaves \/ \E d \in Connections : Changes(d)
  <2>1. UNCHANGED <<resumes, resumesExpired, resumesIssued, held>>
    BY <1>2 DEF Asks, Arrives, Leaves, Changes, RequestApproval, Accept, OnClose, resuming
  <2>2. c \in Acting /\ session'[c] = session[c] /\ socket[c] = "open"
    <3>1. CASE Asks \/ \E d \in Connections : Changes(d)
      BY <3>1 DEF Asks, Changes, RequestApproval, Acting
    <3>2. ASSUME NEW d \in Connections, Accept(d) PROVE c \in Acting /\ session'[c] = session[c] /\ socket[c] = "open"
      <4>1. c \in Acting /\ session'[c] = session[c] /\ socket' = [socket EXCEPT ![d] = "open"]
        BY <3>2 DEF Accept, Acting
      <4>2. c # d
        BY <3>2, <4>1 DEF Accept, ConnectionInv
      <4>. QED  BY <4>1, <4>2 DEF ConnectionInv, ConnectionTypes
    <3>3. ASSUME NEW d \in Connections, OnClose(d) PROVE c \in Acting /\ session'[c] = session[c] /\ socket[c] = "open"
      <4>1. session' = [session EXCEPT ![d] = None] /\ socket' = [socket EXCEPT ![d] = "closed"]
        BY <3>3 DEF OnClose
      <4>2. c # d /\ c \in Connections
        BY <4>1 DEF Acting, ConnectionInv, ConnectionTypes
      <4>. QED  BY <4>1, <4>2 DEF ConnectionInv, ConnectionTypes, Acting
    <3>. QED  BY <1>2, <3>1, <3>2, <3>3 DEF Arrives, Leaves
  <2>3. Ready(c)
    BY <2>2 DEF ReadyInv
  <2>. QED  BY <2>1, <2>2, <2>3 DEF Ready, LastToken, Grant
<1>. QED  BY <1>1, <1>2

\* An admission hands the newcomer a token that it has just issued, and costs no other
\* connection its own: the revoked ones are those of the session that moves.
LEMMA EntersReady ==
    ASSUME ConnectionInv, TokensInv, ReadyInv,
           NEW c, NEW s, NEW old, NEW tokens, Enters(c, s, old, tokens)
    PROVE  ReadyInv'
<1>1. /\ c \in Connections /\ c \notin Acting
      /\ Acting' = (Acting \ old) \cup {c}
      /\ session'[c] = s
      /\ \A x \in Connections \ (old \cup {c}) : session'[x] = session[x]
      /\ \A x \in Acting \ old : ~SameRuntime(x, c)
  BY Entering
<1>2. /\ tokens \in SUBSET resumes /\ PageOf[s] = PageOf[c] /\ Spares(tokens)
      /\ resumes' = Rotated(tokens, s, c) /\ socket' = Closed(old)
      /\ resumesIssued' = resumesIssued + 1 /\ resumesExpired' = resumesExpired
      /\ held' = IF socket[c] = "open"
                 THEN [held EXCEPT ![PageOf[c]] = resumesIssued + 1] ELSE held
  BY DEF Enters, Admitted, Establish
<1> DEFINE new == [token |-> resumesIssued + 1, grant |-> Grant(s, c)]
<1>3. /\ new \in resumes'
      /\ \A e \in tokens : \/ e \in resumes' \/ e.grant \in GrantsOf(s)
                           \/ e.token <= resumesExpired
                           \/ resumesIssued + 1 >= e.token + MaxEntries
  BY <1>2, Rotating
<1>4. ASSUME socket'[c] = "open" PROVE Ready(c)'
  <2>1. socket[c] = "open"
    BY <1>1, <1>2, <1>4 DEF Closed
  <2>2. held'[PageOf[c]] = resumesIssued + 1
    BY <1>1, <1>2, <2>1, GatewayAssumption DEF GatewayAssumption, TokensInv
  <2>3. LastToken(c)' = new
    BY <1>1, <2>2 DEF LastToken, Grant
  <2>. QED  BY <1>3, <2>3 DEF Ready
<1>5. ASSUME NEW x \in Acting \ old, socket'[x] = "open" PROVE Ready(x)'
  <2>1. x \in Connections /\ x \in Acting /\ session'[x] = session[x] /\ socket[x] = "open"
    BY <1>1, <1>2, <1>5 DEF Closed, Acting
  <2>2. PageOf[x] # PageOf[c]
    BY <1>1 DEF SameRuntime
  <2>3. held'[PageOf[x]] = held[PageOf[x]]
    BY <1>2, <2>2 DEF TokensInv
  <2>4. Grant(session[x], x) \notin GrantsOf(s)
    <3>1. session[x] # s
      BY <1>2, <2>1, <2>2 DEF ConnectionInv
    <3>2. \A d : Grant(session[x], x).session = session[x] /\ Grant(s, d).session = s
      BY DEF Grant
    <3>. QED  BY <3>1, <3>2 DEF GrantsOf
  <2>5. Ready(x)
    BY <2>1 DEF ReadyInv
  <2>. HIDE DEF new
  <2>. QED  BY <1>2, <1>3, <1>5, <2>1, <2>3, <2>4, <2>5, StaysReady
<1>. QED  BY <1>1, <1>4, <1>5 DEF ReadyInv

LEMMA NextReadyInv ==
    ConnectionInv /\ TokensInv /\ ReadyInv /\ [Next]_vars => ReadyInv'
<1>. SUFFICES ASSUME ConnectionInv, TokensInv, ReadyInv, [Next]_vars PROVE ReadyInv'
  OBVIOUS
<1>. QED  BY OthersReady, EntersReady, StepKinds DEF EntersAny

\* A connected tab can resume, whatever credentials have been presented, rotated and
\* revoked before; and no two connections have one session.
THEOREM ResumptionReady == Spec => []ResumeReady
<1>1. Init => ReadyInv
  BY DEF Init, ReadyInv, Acting
<1>2. ConnectionInv /\ ReadyInv => ResumeReady
  <2>. SUFFICES ASSUME ConnectionInv, ReadyInv PROVE ResumeReady
    OBVIOUS
  <2>1. ASSUME NEW c \in states, session[c] # None, socket[c] = "open" PROVE Ready(c)
    BY <2>1 DEF ReadyInv, Acting, ConnectionInv, ConnectionTypes
  <2>2. ASSUME NEW c \in Connections, NEW d \in Connections,
               session[c] # None, session[c] = session[d]
        PROVE  c = d
    <3>1. c \in Acting /\ d \in Acting /\ PageOf[c] = PageOf[d]
      BY <2>2 DEF Acting, ConnectionInv
    <3>. QED  BY <3>1 DEF SameRuntime, ConnectionInv
  <2>. QED  BY <2>1, <2>2 DEF ResumeReady, Ready, LastToken
<1>. QED  BY <1>1, <1>2, NextReadyInv, ConnectionInvariance, PTL DEF Spec

-----------------------------------------------------------------------------
(* The broker. *)

\* How the broker reaches a connection, by cases.
ReachOf(c) ==
    IF socket[c] = "new" THEN IF stopping THEN "closing" ELSE "open"
    ELSE IF c \in states THEN socket[c] ELSE "closed"

LEMMA ReachIs ==
    /\ Reach = [c \in Connections |-> ReachOf(c)]
    /\ Reach' = [c \in Connections |-> ReachOf(c)']
  BY DEF Reach, ReachOf

\* A step that the broker does not see.
Unseen == UNCHANGED <<Reach, broker, now>>
BrokerStep == [B!Next]_(B!vars)

LEMMA UnseenSteps == Unseen => BrokerStep
  BY DEF Unseen, BrokerStep, broker, B!vars, B!requests, B!tombstones

\* Sockets that are shut are seen as such where they were open.
LEMMA ShutReach ==
    ASSUME ConnectionInv, NEW cs, socket' = Closed(cs), UNCHANGED <<states, stopping>>
    PROVE  LET shut == {c \in cs \cap states : socket[c] = "open"}
           IN  /\ Reach' = B!Closing(shut)
               /\ shut = {} => Reach' = Reach
               /\ \A c \in shut : c \in Connections /\ Reach[c] = "open"
<1> DEFINE shut == {c \in cs \cap states : socket[c] = "open"}
<1>1. ASSUME NEW c \in Connections
      PROVE  ReachOf(c)' = IF c \in shut THEN "closing" ELSE ReachOf(c)
  BY DEF Closed, ReachOf
<1>2. ASSUME NEW c \in shut PROVE c \in Connections /\ ReachOf(c) = "open"
  BY DEF ReachOf, ConnectionInv, ConnectionTypes
<1>3. \A c \in Connections : Reach[c] = ReachOf(c)
  BY ReachIs
<1>. HIDE DEF shut
<1>4. Reach' = [c \in Connections |-> IF c \in shut THEN "closing" ELSE ReachOf(c)]
  BY <1>1, ReachIs
<1>5. B!Closing(shut) = [c \in Connections |-> IF c \in shut THEN "closing" ELSE ReachOf(c)]
  BY <1>2, <1>3 DEF B!Closing
<1>6. shut = {} => Reach' = Reach
  BY <1>4, ReachIs
<1>. QED  BY <1>2, <1>3, <1>4, <1>5, <1>6 DEF shut

LEMMA ShutSteps ==
    ASSUME ConnectionInv, socket' = socket \/ \E cs \in SUBSET Connections : socket' = Closed(cs),
           UNCHANGED <<states, stopping, broker, now>>
    PROVE  BrokerStep
<1>1. CASE socket' = socket
  <2>1. Reach' = Reach
    BY <1>1, ReachIs DEF ReachOf
  <2>. QED  BY <2>1, UnseenSteps DEF Unseen
<1>2. ASSUME NEW cs \in SUBSET Connections, socket' = Closed(cs) PROVE BrokerStep
  <2> DEFINE shut == {c \in cs \cap states : socket[c] = "open"}
  <2>1. /\ Reach' = B!Closing(shut)
        /\ shut = {} => Reach' = Reach
        /\ \A c \in shut : c \in Connections /\ Reach[c] = "open"
    BY <1>2, ShutReach
  <2>. HIDE DEF shut
  <2>2. CASE shut = {}
    BY <2>1, <2>2, UnseenSteps DEF Unseen
  <2>3. CASE shut # {}
    <3>1. B!SocketsClose(shut) /\ shut \in SUBSET Connections
      BY <2>1, <2>3 DEF B!SocketsClose, broker, B!requests, B!tombstones
    <3>. QED  BY <3>1 DEF BrokerStep, B!Next
  <2>. QED  BY <2>2, <2>3
<1>. QED  BY <1>1, <1>2

\* What is proved of the broker is about the same definitions.
LEMMA SameInit == B!Init = BP!Init
  BY DEF B!Init, BP!Init

LEMMA SameVars == B!vars = BP!vars
  BY DEF B!vars, BP!vars, B!requests, BP!requests, B!tombstones, BP!tombstones

LEMMA SameDisconnect == \A c : B!Disconnect(c) = BP!Disconnect(c)
  BY DEF B!Disconnect, BP!Disconnect, B!Settle, BP!Settle, B!Released, BP!Released,
     B!Finished, BP!Finished, B!OutcomeFor, BP!OutcomeFor, B!Owned, BP!Owned,
     B!TombstonesWithout, BP!TombstonesWithout, B!Cardinality, BP!Cardinality

LEMMA SameNext == B!Next = BP!Next
  BY DEF B!Next, BP!Next, B!Tick, BP!Tick, B!Invoke, BP!Invoke, B!GiveUp, BP!GiveUp,
     B!Message, BP!Message, B!SocketsClose, BP!SocketsClose, B!SocketClosed, BP!SocketClosed,
     B!BridgeStops, BP!BridgeStops, B!InvokeSent, BP!InvokeSent, B!InvokeUnsent, BP!InvokeUnsent,
     B!HasCapacity, BP!HasCapacity, B!NewCall, BP!NewCall, B!Started, BP!Started,
     B!tombstones, BP!tombstones, B!requests, BP!requests, B!Settle, BP!Settle,
     B!Released, BP!Released, B!Finished, BP!Finished, B!OutcomeFor, BP!OutcomeFor,
     B!TimerFires, BP!TimerFires, B!Abort, BP!Abort, B!TimerDue, BP!TimerDue,
     B!FailAndNotify, BP!FailAndNotify, B!Fail, BP!Fail, B!Newest, BP!Newest,
     B!Swept, BP!Swept, B!Result, BP!Result, B!Error, BP!Error,
     B!CancelFromBrowser, BP!CancelFromBrowser, B!LateMessage, BP!LateMessage,
     B!Mine, BP!Mine, B!ErrorFromBrowser, BP!ErrorFromBrowser,
     B!Disconnect, BP!Disconnect, B!Close, BP!Close, B!TombstonesWithout, BP!TombstonesWithout,
     B!Closing, BP!Closing, B!Owned, BP!Owned, B!Invocations, BP!Invocations,
     B!Cardinality, BP!Cardinality

LEMMA BrokerLimits == BP!BrokerAssumption
  BY GatewayAssumption DEF GatewayAssumption, BP!BrokerAssumption

BrokerInv == BP!IInv /\ BP!RecordInv /\ BP!RecentIsMap

LEMMA BrokerStepInv == BrokerInv /\ BrokerStep => BrokerInv'
<1>. SUFFICES ASSUME BrokerInv, BrokerStep PROVE BrokerInv'
  OBVIOUS
<1>1. B!Next \/ B!vars' = B!vars
  BY DEF BrokerStep
<1>2. B!Next => BP!Next
  BY SameNext
<1>3. B!vars' = B!vars => BP!vars' = BP!vars
  BY DEF B!vars, BP!vars, B!requests, BP!requests, B!tombstones, BP!tombstones
<1>4. [BP!Next]_(BP!vars)
  BY <1>1, <1>2, <1>3
<1>5. BP!IInv'
  BY <1>4, BrokerLimits, BP!NextIInv DEF BrokerInv
<1>6. BP!RecordInv'
  BY <1>4, BrokerLimits, BP!NextRecordInv DEF BrokerInv
<1>7. BP!RecentIsMap'
  BY <1>4, BrokerLimits, BP!NextRecentIsMap DEF BrokerInv
<1>. QED  BY <1>5, <1>6, <1>7 DEF BrokerInv

\* A connection goes for good, its socket closed or its session retired; for one that
\* the gateway has dropped already nothing is left to disconnect.
LEMMA GoneSteps ==
    ASSUME ConnectionInv, BrokerInv, NEW c \in Connections, B!Disconnect(c),
           ReachOf(c)' = "closed", \A d \in Connections \ {c} : ReachOf(d)' = ReachOf(d),
           now' = now
    PROVE  BrokerStep
<1>1. Reach' = [Reach EXCEPT ![c] = "closed"] /\ Reach[c] = ReachOf(c)
  BY ReachIs
<1>2. CASE ReachOf(c) # "closed"
  <2>1. B!SocketClosed(c)
    BY <1>1, <1>2 DEF B!SocketClosed
  <2>. QED  BY <2>1 DEF BrokerStep, B!Next
<1>3. CASE ReachOf(c) = "closed"
  <2>1. Reach[c] = "closed" /\ BP!Disconnect(c)
    BY <1>1, <1>3, SameDisconnect
  <2>2. UNCHANGED <<BP!requests, BP!tombstones>>
    BY <2>1, BrokerLimits, BP!DisconnectAgain DEF BrokerInv
  <2>3. Reach' = Reach
    BY <1>1, <1>3, ReachIs
  <2>. QED  BY <2>2, <2>3, UnseenSteps DEF Unseen, broker, BP!requests, BP!tombstones
<1>. QED  BY <1>2, <1>3

\* An admission is a step of the broker when it retires a connection.
LEMMA EntersBroker ==
    ASSUME ConnectionInv, BrokerInv,
           NEW c, NEW s, NEW old, NEW tokens, Enters(c, s, old, tokens)
    PROVE  BrokerStep
<1>1. /\ states' = states \ old /\ socket' = Closed(old) /\ UNCHANGED <<stopping, now>>
      /\ \/ old = {} /\ UNCHANGED broker
         \/ \E d \in old : B!Disconnect(d)
  BY DEF Enters, Admitted, Establish, Retire
<1>2. old \subseteq Acting /\ \A d, e \in old : d = e
  BY OldIsOne DEF Enters
<1>3. CASE old = {} /\ UNCHANGED broker
  <2>1. states' = states /\ {} \in SUBSET Connections /\ socket' = Closed({})
    BY <1>1, <1>3
  <2>. QED  BY <1>1, <1>3, <2>1, ShutSteps
<1>4. ASSUME NEW d \in old, B!Disconnect(d) PROVE BrokerStep
  <2>1. d \in Connections /\ d \in states /\ old = {d}
    BY <1>2, <1>4 DEF ConnectionInv, Acting
  <2>2. socket[d] # "new" /\ socket'[d] # "new"
    BY <1>1, <2>1 DEF Closed, ConnectionInv
  <2>3. ReachOf(d)' = "closed"
    BY <1>1, <2>1, <2>2 DEF ReachOf
  <2>4. \A x \in Connections \ {d} : ReachOf(x)' = ReachOf(x)
    BY <1>1, <2>1 DEF ReachOf, Closed
  <2>. QED  BY <1>1, <1>4, <2>1, <2>3, <2>4, GoneSteps
<1>. QED  BY <1>1, <1>3, <1>4

\* A caller's request and a tab's answer.
LEMMA InvokeBroker ==
    ASSUME ConnectionInv, NEW c \in Connections, NEW d \in Definitions, Invoke(c, d)
    PROVE  d.kind \in Kinds /\ B!Invoke(c, d.kind)
<1>1. c \in states /\ d.kind \in Kinds
  BY GatewayAssumption DEF Invoke, ConnectionInv, GatewayAssumption
<1>2. UNCHANGED <<states, stopping, now>>
  BY DEF Invoke
<1>3. CASE B!InvokeSent(c, d.kind) /\ UNCHANGED socket
  <2>1. Reach' = Reach
    BY <1>2, <1>3, ReachIs DEF ReachOf
  <2>2. B!Invoke(c, d.kind)
    BY <1>2, <1>3, <2>1 DEF B!Invoke
  <2>. QED  BY <1>1, <2>2
<1>4. CASE B!InvokeUnsent(c, d.kind) /\ socket' \in {socket, Closed({c})}
  <2>1. Reach' \in {Reach, B!Closing({c})}
    <3>1. CASE socket' = socket
      BY <1>2, <3>1, ReachIs DEF ReachOf
    <3>2. CASE socket' = Closed({c})
      <4> DEFINE shut == {x \in {c} \cap states : socket[x] = "open"}
      <4>1. Reach' = B!Closing(shut) /\ (shut = {} => Reach' = Reach)
        BY <1>2, <3>2, ShutReach
      <4>2. shut = {} \/ shut = {c}
        OBVIOUS
      <4>. HIDE DEF shut
      <4>. QED  BY <4>1, <4>2
    <3>. QED  BY <1>4, <3>1, <3>2
  <2>2. B!Invoke(c, d.kind)
    BY <1>2, <1>4, <2>1 DEF B!Invoke
  <2>. QED  BY <1>1, <2>2
<1>. QED  BY <1>3, <1>4 DEF Invoke

LEMMA AnswerBroker ==
    ASSUME ConnectionInv, NEW c \in Connections, NEW i \in 1..MaxInvocations,
           InvocationMessage(c, i)
    PROVE  B!Message(c, i)
<1>1. /\ c \in states /\ socket[c] \in {"open", "closing"}
      /\ UNCHANGED <<socket, states, stopping, now>>
  BY DEF InvocationMessage, Speaks, Reads
<1>2. Reach' = Reach /\ Reach[c] # "closed"
  BY <1>1, ReachIs DEF ReachOf
<1>. QED  BY <1>1, <1>2 DEF B!Message, InvocationMessage

\* The timer and the caller's abort signal.
LEMMA GiveUpBroker ==
    ASSUME NEW i, GiveUp(i)
    PROVE  B!GiveUp(i)
<1>1. Reach' = Reach
  BY ReachIs DEF GiveUp, sockets, ReachOf
<1>. QED  BY <1>1 DEF GiveUp, B!GiveUp

\* The bridge stops; a socket that has not been opened will not be.
LEMMA StopBroker ==
    ASSUME ConnectionInv, Stop
    PROVE  BrokerStep
<1>1. /\ stopping = FALSE /\ stopping' = TRUE /\ socket' = Closed(states)
      /\ states' = states /\ now' = now /\ B!Close
  BY DEF Stop, ConnectionInv, ConnectionTypes
<1>2. \A c \in Connections : ReachOf(c)' = IF ReachOf(c) = "open" THEN "closing" ELSE ReachOf(c)
  BY <1>1 DEF ReachOf, Closed
<1>3. Reach' = B!Closing(Connections)
  BY <1>2, ReachIs DEF B!Closing
<1>4. B!BridgeStops
  BY <1>1, <1>3 DEF B!BridgeStops
<1>. QED  BY <1>4 DEF BrokerStep, B!Next

\* A connection is accepted as the broker has known it, and ends with a disconnect.
LEMMA SocketBroker ==
    ASSUME ConnectionInv, BrokerInv, NEW c \in Connections, Accept(c) \/ OnClose(c)
    PROVE  BrokerStep
<1>1. CASE Accept(c)
  <2>1. /\ socket[c] = "new" /\ stopping = FALSE
        /\ socket' = [socket EXCEPT ![c] = "open"] /\ states' = states \cup {c}
        /\ UNCHANGED <<stopping, broker, now>>
    BY <1>1 DEF Accept, ConnectionInv, ConnectionTypes
  <2>2. \A d \in Connections : ReachOf(d)' = ReachOf(d)
    BY <2>1 DEF ReachOf, ConnectionInv, ConnectionTypes
  <2>3. Reach' = Reach
    BY <2>2, ReachIs
  <2>. QED  BY <2>1, <2>3, UnseenSteps DEF Unseen
<1>2. CASE OnClose(c)
  <2>1. /\ socket' = [socket EXCEPT ![c] = "closed"] /\ states' = states \ {c}
        /\ UNCHANGED <<stopping, now>> /\ B!Disconnect(c)
    BY <1>2 DEF OnClose
  <2>2. ReachOf(c)' = "closed" /\ \A d \in Connections \ {c} : ReachOf(d)' = ReachOf(d)
    BY <2>1 DEF ReachOf, ConnectionInv, ConnectionTypes
  <2>. QED  BY <2>1, <2>2, GoneSteps
<1>. QED  BY <1>1, <1>2

\* The steps of one connection.
LEMMA ConnectionBroker ==
    ASSUME ConnectionInv, TokensInv, BrokerInv, NEW c \in Connections,
           \/ Accept(c) \/ MessageFrom(c) \/ PeerCloses(c) \/ OnClose(c)
           \/ HandshakeTimeout(c) \/ ApprovalOverdue(c) \/ ApprovalTimeout(c)
           \/ Approve(c) \/ Reject(c) \/ DecideLate(c)
    PROVE  BrokerStep
<1>1. {c} \in SUBSET Connections
  OBVIOUS
<1>2. ASSUME Shuts PROVE BrokerStep
  BY <1>2, ShutSteps DEF Shuts, Quiet
<1>3. CASE Accept(c) \/ OnClose(c)
  BY <1>3, SocketBroker
<1>4. CASE \/ Refuse(c) \/ RefuseApproval(c) \/ PeerCloses(c) \/ HandshakeTimeout(c)
           \/ ApprovalOverdue(c) \/ ApprovalTimeout(c) \/ Reject(c) \/ DecideLate(c)
  BY <1>2, <1>4, QuietKinds
<1>5. CASE \/ \E token \in 1..MaxPairings : ConnectPairing(c, token)
           \/ \E page \in Pages : ConnectResume(c, held[page])
           \/ Approve(c)
  BY <1>2, <1>5, ConnectKinds, EntersBroker DEF EntersAny
<1>6. CASE RequestApproval(c) \/ Chat(c) \/ DisconnectMessage(c) \/ Violation(c)
  BY <1>1, <1>6, ShutSteps DEF RequestApproval, Chat, DisconnectMessage, Violation
<1>7. ASSUME NEW d \in Definitions, RegisterMessage(c, d) \/ UnregisterMessage(c, d)
      PROVE  BrokerStep
  BY <1>7, ShutSteps DEF RegisterMessage, UnregisterMessage
<1>8. ASSUME NEW i \in 1..MaxInvocations, InvocationMessage(c, i) PROVE BrokerStep
  BY <1>8, AnswerBroker DEF BrokerStep, B!Next, B!Invocations
<1>. QED  BY <1>3, <1>4, <1>5, <1>6, <1>7, <1>8 DEF MessageFrom

LEMMA NextBroker ==
    ConnectionInv /\ TokensInv /\ BrokerInv /\ [Next]_vars => BrokerStep
<1>. SUFFICES ASSUME ConnectionInv, TokensInv, BrokerInv, [Next]_vars PROVE BrokerStep
  OBVIOUS
<1>1. CASE UNCHANGED vars
  BY <1>1, ShutSteps DEF vars, sockets
<1>2. CASE (\E p \in Pages : IssuePairing(p.origin)) \/ TokenExpires
  BY <1>2, ShutSteps DEF IssuePairing, TokenExpires, sockets
<1>3. CASE Heartbeat
  <2>1. {c \in states : TimedOut(c)} \in SUBSET Connections
    BY DEF ConnectionInv, ConnectionTypes
  <2>. QED  BY <1>3, <2>1, ShutSteps DEF Heartbeat
<1>4. CASE Tick
  <2>1. Reach' = Reach
    BY <1>4, ReachIs DEF Tick, sockets, ReachOf
  <2>2. B!Tick
    BY <1>4, <2>1 DEF Tick, B!Tick, broker, B!requests, B!tombstones
  <2>. QED  BY <2>2 DEF BrokerStep, B!Next
<1>5. ASSUME NEW i \in 1..MaxInvocations, GiveUp(i) PROVE BrokerStep
  BY <1>5, GiveUpBroker DEF BrokerStep, B!Next, B!Invocations
<1>6. CASE Stop
  BY <1>6, StopBroker
<1>7. ASSUME NEW c \in Connections, NEW d \in Definitions, Invoke(c, d) PROVE BrokerStep
  BY <1>7, InvokeBroker DEF BrokerStep, B!Next
<1>. QED
  BY <1>1, <1>2, <1>3, <1>4, <1>5, <1>6, <1>7, ConnectionBroker DEF Next

LEMMA InitBroker == Init => B!Init /\ BrokerInv
<1>. SUFFICES ASSUME Init PROVE B!Init /\ BrokerInv
  OBVIOUS
<1>1. Reach = [c \in Connections |-> "open"]
  BY ReachIs DEF Init, ReachOf
<1>2. B!Init
  BY <1>1 DEF Init, B!Init
<1>3. BP!Init
  BY <1>2, SameInit
<1>. QED
  BY <1>2, <1>3, BrokerLimits, BP!InitIInv, BP!InitRecordInv, BP!InitRecentIsMap DEF BrokerInv

LEMMA BrokerInvariance == Spec => []BrokerInv
<1>1. ConnectionInv /\ TokensInv /\ BrokerInv /\ [Next]_vars => BrokerInv'
  BY NextBroker, BrokerStepInv
<1>. QED  BY <1>1, InitBroker, ConnectionInvariance, PTL DEF Spec

\* Every callback of the gateway is at most one step of the broker as Broker.tla has it.
THEOREM GatewayUsesBroker == Spec => ImplementsBroker
<1>1. ConnectionInv /\ TokensInv /\ BrokerInv /\ [Next]_vars => [B!Next]_(B!vars)
  BY NextBroker DEF BrokerStep
<1>2. Spec => B!Init /\ [][B!Next]_(B!vars)
  BY <1>1, InitBroker, ConnectionInvariance, BrokerInvariance, PTL DEF Spec
<1>. QED  BY <1>2 DEF ImplementsBroker, B!Spec

\* What the broker promises, it promises in the bridge: the limits hold, a caller's
\* answer comes from the connection that it was sent to, nobody waits without an entry,
\* and a connection the gateway has dropped has nothing left in the broker.
THEOREM BrokerPromisesKept ==
    Spec => [](/\ B!CapacityRespected /\ B!AnswerIsOwners
               /\ B!PendingIffUnsettled /\ B!TombstonesSound)
<1>1. BrokerInv => /\ BP!CapacityRespected /\ BP!AnswerIsOwners
                   /\ BP!PendingIffUnsettled /\ BP!TombstonesSound
  BY DEF BrokerInv, BP!IInv, BP!RequestInv, BP!RecordInv
<1>2. /\ BP!CapacityRespected => B!CapacityRespected
      /\ BP!AnswerIsOwners => B!AnswerIsOwners
      /\ BP!PendingIffUnsettled => B!PendingIffUnsettled
      /\ BP!TombstonesSound => B!TombstonesSound
  BY DEF B!CapacityRespected, BP!CapacityRespected, B!AnswerIsOwners, BP!AnswerIsOwners,
         B!PendingIffUnsettled, BP!PendingIffUnsettled, B!TombstonesSound, BP!TombstonesSound,
         B!Owned, BP!Owned, B!Cardinality, BP!Cardinality
<1>. QED  BY <1>1, <1>2, BrokerInvariance, PTL

-----------------------------------------------------------------------------
(* The kinds of step again, with what each does to the requests in progress. *)

\* Whose requests go: those of the connections in cs.
Loses(cs) == BP!OwnersKept /\ pending' = {i \in pending : calls[i].connection \notin cs}

\* Nobody begins, ends or comes to own anything.
Rests == (Quiet \/ Asks \/ Arrives) /\ BP!OwnersKept /\ pending' \subseteq pending

\* An MCP client calls a capability of the connection.
Calls(c) ==
    /\ Quiet /\ c \in Acting
    /\ BP!OwnersKept /\ pending \subseteq pending'
    /\ \A i \in pending' \ pending : calls'[i].connection = c

LEMMA SameActions ==
    /\ \A i : B!GiveUp(i) => BP!GiveUp(i)
    /\ \A c, i : B!Message(c, i) => BP!Message(c, i)
    /\ \A c, k : B!Invoke(c, k) => BP!Invoke(c, k)
    /\ B!Close => BP!Close
<1>1. \A ids, code, answer : B!Settle(ids, code, answer) = BP!Settle(ids, code, answer)
  BY DEF B!Settle, BP!Settle, B!Released, BP!Released, B!Finished, BP!Finished,
         B!OutcomeFor, BP!OutcomeFor, B!Cardinality, BP!Cardinality
<1>2. \A i, code : B!FailAndNotify(i, code) <=> BP!FailAndNotify(i, code)
  BY <1>1 DEF B!FailAndNotify, BP!FailAndNotify, B!Newest, BP!Newest, B!Swept, BP!Swept,
              B!Cardinality, BP!Cardinality
<1>3. \A i, code : B!Fail(i, code) <=> BP!Fail(i, code)
  BY <1>1 DEF B!Fail, BP!Fail, B!tombstones, BP!tombstones
<1>4. \A i : B!GiveUp(i) => BP!GiveUp(i)
  BY <1>2 DEF B!GiveUp, BP!GiveUp, B!TimerFires, BP!TimerFires, B!Abort, BP!Abort,
              B!TimerDue, BP!TimerDue
<1>5. ASSUME NEW c, NEW i, B!Message(c, i) PROVE BP!Message(c, i)
  <2>1. \A k : B!Result(c, i, k) => BP!Result(c, i, k)
    BY <1>1, <1>3 DEF B!Result, BP!Result, B!Mine, BP!Mine, B!tombstones, BP!tombstones
  <2>2. /\ \A code : B!Error(c, i, code) => BP!Error(c, i, code)
        /\ B!CancelFromBrowser(c, i) => BP!CancelFromBrowser(c, i)
    BY <1>3 DEF B!Error, BP!Error, B!CancelFromBrowser, BP!CancelFromBrowser, B!Mine, BP!Mine,
                B!ErrorFromBrowser, BP!ErrorFromBrowser
  <2>3. B!LateMessage(c, i) => BP!LateMessage(c, i)
    BY DEF B!LateMessage, BP!LateMessage, B!Swept, BP!Swept, B!requests, BP!requests
  <2>. QED  BY <1>5, <2>1, <2>2, <2>3 DEF B!Message, BP!Message
<1>6. \A c, k : B!Invoke(c, k) => BP!Invoke(c, k)
  BY DEF B!Invoke, BP!Invoke, B!InvokeSent, BP!InvokeSent, B!InvokeUnsent, BP!InvokeUnsent,
         B!HasCapacity, BP!HasCapacity, B!NewCall, BP!NewCall, B!Started, BP!Started,
         B!OutcomeFor, BP!OutcomeFor, B!tombstones, BP!tombstones, B!Closing, BP!Closing,
         B!Cardinality, BP!Cardinality
<1>7. B!Close => BP!Close
  BY <1>1 DEF B!Close, BP!Close
<1>. QED  BY <1>4, <1>5, <1>6, <1>7

LEMMA SameWork == UNCHANGED broker => BP!OwnersKept /\ pending' = pending
  BY DEF broker, BP!OwnersKept

LEMMA DisconnectLoses ==
    ASSUME BrokerInv, NEW c, B!Disconnect(c)
    PROVE  Loses({c})
<1>1. BP!Disconnect(c)
  BY SameDisconnect
<1>2. BP!OwnersKept /\ pending' = pending \ BP!Owned(c)
  BY <1>1, BrokerLimits, BP!DisconnectOwners DEF BrokerInv
<1>. QED  BY <1>2 DEF Loses, BP!Owned

LEMMA EntersLoses ==
    ASSUME ConnectionInv, BrokerInv,
           NEW c, NEW s, NEW old, NEW tokens, Enters(c, s, old, tokens)
    PROVE  Loses(old)
<1>1. \/ old = {} /\ UNCHANGED broker
      \/ \E d \in old : B!Disconnect(d)
  BY DEF Enters, Establish, Retire
<1>2. \A d, e \in old : d = e
  BY OldIsOne DEF Enters
<1>3. CASE old = {} /\ UNCHANGED broker
  BY <1>3, SameWork DEF Loses
<1>4. ASSUME NEW d \in old, B!Disconnect(d) PROVE Loses(old)
  <2>1. old = {d}
    BY <1>2
  <2>. QED  BY <1>4, <2>1, DisconnectLoses
<1>. QED  BY <1>1, <1>3, <1>4

LEMMA WorkKinds ==
    ASSUME ConnectionInv, TokensInv, BrokerInv, [Next]_vars
    PROVE  \/ Rests
           \/ \E c \in Connections : Calls(c) \/ Changes(c) \/ (OnClose(c) /\ Loses({c}))
           \/ \E c, s \in Connections : \E old \in SUBSET states, tokens \in SUBSET resumes :
                Enters(c, s, old, tokens) /\ Loses(old)
<1>1. ASSUME Shuts PROVE Rests
  BY <1>1, SameWork DEF Shuts, Rests
<1>2. CASE \/ \E p \in Pages : IssuePairing(p.origin)
           \/ TokenExpires \/ Heartbeat \/ Tick \/ UNCHANGED vars
  <2>1. UNCHANGED broker
    BY <1>2 DEF IssuePairing, TokenExpires, Heartbeat, Tick, vars
  <2>. QED  BY <1>2, <2>1, OtherKinds, SameWork DEF Rests
<1>3. ASSUME NEW i \in 1..MaxInvocations, GiveUp(i) PROVE Rests
  <2>1. BP!GiveUp(i)
    BY <1>3, GiveUpBroker, SameActions
  <2>2. BP!OwnersKept /\ pending' \subseteq pending
    BY <2>1, BrokerLimits, BP!SettlingOwners DEF BrokerInv
  <2>. QED  BY <1>3, <2>2, OtherKinds DEF Rests
<1>4. CASE Stop
  <2>1. BP!Close
    BY <1>4, SameActions DEF Stop
  <2>2. BP!OwnersKept /\ pending' = {}
    BY <2>1, BrokerLimits, BP!DisconnectOwners DEF BrokerInv
  <2>. QED  BY <1>4, <2>2, OtherKinds DEF Rests
<1>5. ASSUME NEW c \in Connections, NEW d \in Definitions, Invoke(c, d) PROVE Calls(c)
  <2>1. d.kind \in Kinds /\ BP!Invoke(c, d.kind)
    BY <1>5, InvokeBroker, SameActions
  <2>2. /\ BP!OwnersKept /\ pending \subseteq pending'
        /\ \A i \in pending' \ pending : calls'[i].connection = c
    BY <2>1, BrokerLimits, BP!InvokeOwners DEF BrokerInv
  <2>3. c \in Acting
    BY <1>5 DEF Invoke, ConnectionInv
  <2>. QED  BY <1>5, <2>2, <2>3, OtherKinds DEF Calls
<1>6. ASSUME NEW c \in Connections,
             \/ Accept(c) \/ MessageFrom(c) \/ PeerCloses(c) \/ OnClose(c)
             \/ HandshakeTimeout(c) \/ ApprovalOverdue(c) \/ ApprovalTimeout(c)
             \/ Approve(c) \/ Reject(c) \/ DecideLate(c)
      PROVE  \/ Rests \/ Calls(c) \/ Changes(c) \/ (OnClose(c) /\ Loses({c}))
             \/ \E a, s \in Connections : \E old \in SUBSET states, tokens \in SUBSET resumes :
                  Enters(a, s, old, tokens) /\ Loses(old)
  <2>1. CASE \/ Refuse(c) \/ RefuseApproval(c) \/ PeerCloses(c) \/ HandshakeTimeout(c)
             \/ ApprovalOverdue(c) \/ ApprovalTimeout(c) \/ Reject(c) \/ DecideLate(c)
    BY <1>1, <2>1, QuietKinds
  <2>2. CASE \/ \E token \in 1..MaxPairings : ConnectPairing(c, token)
             \/ \E page \in Pages : ConnectResume(c, held[page])
             \/ Approve(c)
    BY <1>1, <2>2, ConnectKinds, EntersLoses DEF EntersAny
  <2>3. CASE RequestApproval(c) \/ Accept(c)
    BY <2>3, SameWork DEF RequestApproval, Accept, Asks, Arrives, Rests
  <2>4. CASE OnClose(c)
    BY <2>4, DisconnectLoses DEF OnClose
  <2>5. ASSUME NEW i \in 1..MaxInvocations, InvocationMessage(c, i) PROVE Rests \/ Changes(c)
    <3>1. BP!Message(c, i)
      BY <2>5, AnswerBroker, SameActions
    <3>2. BP!OwnersKept /\ pending' \subseteq pending
      BY <3>1, BrokerLimits, BP!SettlingOwners DEF BrokerInv
    <3>. QED  BY <2>5, <3>2, SpeaksKinds DEF Rests
  <2>6. CASE \/ Chat(c) \/ DisconnectMessage(c) \/ Violation(c)
             \/ \E d \in Definitions : RegisterMessage(c, d) \/ UnregisterMessage(c, d)
    <3>1. UNCHANGED broker
      BY <2>6 DEF Chat, DisconnectMessage, Violation, RegisterMessage, UnregisterMessage
    <3>. QED  BY <2>6, <3>1, SpeaksKinds, SameWork DEF Rests
  <2>. QED  BY <1>6, <2>1, <2>2, <2>3, <2>4, <2>5, <2>6 DEF MessageFrom
<1>. QED  BY <1>2, <1>3, <1>4, <1>5, <1>6 DEF Next

-----------------------------------------------------------------------------
(* Requests in progress are of connections that act. *)

WorkInv == \A i \in pending : calls[i].connection \in Acting

\* Connections that stay in a kind of step.
LEMMA ActingKept ==
    /\ Quiet \/ Asks \/ Arrives \/ (\E c \in Connections : Changes(c)) => Acting' = Acting
    /\ \A c \in Connections : ConnectionInv /\ OnClose(c) => Acting' = Acting \ {c}
<1>1. ASSUME Quiet \/ Asks \/ Arrives \/ \E c \in Connections : Changes(c)
      PROVE  Acting' = Acting
  BY <1>1 DEF Quiet, Asks, Arrives, Changes, RequestApproval, Accept, Acting
<1>2. ASSUME NEW c \in Connections, ConnectionInv, OnClose(c) PROVE Acting' = Acting \ {c}
  BY <1>2 DEF OnClose, Acting, ConnectionInv, ConnectionTypes
<1>. QED  BY <1>1, <1>2

LEMMA NextWorkInv ==
    ConnectionInv /\ TokensInv /\ BrokerInv /\ WorkInv /\ [Next]_vars => WorkInv'
<1>. SUFFICES ASSUME ConnectionInv, TokensInv, BrokerInv, WorkInv, [Next]_vars
              PROVE  WorkInv'
  OBVIOUS
<1>1. pending \subseteq DOMAIN calls
  BY DEF BrokerInv, BP!IInv, BP!RequestInv, BP!RequestTypes
<1>2. CASE Rests
  BY <1>1, <1>2, ActingKept DEF Rests, WorkInv, BP!OwnersKept
<1>3. ASSUME NEW c \in Connections, Calls(c) PROVE WorkInv'
  BY <1>1, <1>3, ActingKept DEF Calls, WorkInv, BP!OwnersKept
<1>4. ASSUME NEW c \in Connections, Changes(c) PROVE WorkInv'
  BY <1>4, ActingKept DEF Changes, broker, WorkInv
<1>5. ASSUME NEW c \in Connections, OnClose(c), Loses({c}) PROVE WorkInv'
  BY <1>1, <1>5, ActingKept DEF Loses, WorkInv, BP!OwnersKept
<1>6. ASSUME NEW c, NEW s, NEW old, NEW tokens, Enters(c, s, old, tokens), Loses(old)
      PROVE  WorkInv'
  <2>1. Acting' = (Acting \ old) \cup {c}
    BY <1>6, Entering
  <2>. QED  BY <1>1, <1>6, <2>1 DEF Loses, WorkInv, BP!OwnersKept
<1>. QED  BY <1>2, <1>3, <1>4, <1>5, <1>6, WorkKinds

\* The gateway, the registry and the broker agree on who is connected.
THEOREM MapsNeverDisagree == Spec => []MapsAgree
<1>1. Init => WorkInv
  BY DEF Init, WorkInv
<1>2. ConnectionInv /\ WorkInv => MapsAgree
  <2>. SUFFICES ASSUME ConnectionInv, WorkInv PROVE MapsAgree
    OBVIOUS
  <2>1. \A c \in Connections : c \in Acting <=> c \in states /\ session[c] # None
    BY DEF ConnectionInv, Acting
  <2>2. \A c \in Connections : session[c] # None => c \in states
    BY DEF ConnectionInv, Acting
  <2>3. \A c \in Connections : sessions[c] = IF c \in states /\ session[c] # None
                                             THEN PageOf[c] ELSE None
    BY <2>1 DEF ConnectionInv
  <2>4. \A c \in Acting : sessions[c] # None
    BY GatewayAssumption DEF GatewayAssumption, ConnectionInv, Acting
  <2>. QED  BY <2>2, <2>3, <2>4 DEF MapsAgree, WorkInv
<1>3. Spec => []WorkInv
  BY <1>1, NextWorkInv, ConnectionInvariance, BrokerInvariance, PTL DEF Spec
<1>. QED  BY <1>2, <1>3, ConnectionInvariance, PTL

-----------------------------------------------------------------------------
(* The gateway implements RuntimeOwnership.  Its views of the gateway by name: *)

ActingView == {c \in Connections : sessions[c] # None}
EndedView == {c \in Connections : socket[c] # "new" /\ c \notin states}
Requests == {<<<<"request", i>>, calls[i].connection>> : i \in pending}
Capabilities == UNION {{<<<<"capability", d>>, c>> : d \in registrations[c]} : c \in Connections}
OwnedView == Requests \cup Capabilities

OwnershipStep == [Ownership!Next]_(Ownership!vars)

\* What is owned by others than the connections in cs.
OwnedApart(cs) == {o \in OwnedView : o[2] \notin cs}

LEMMA ActingViewIs == ConnectionInv => ActingView = Acting
  BY GatewayAssumption DEF ActingView, Acting, ConnectionInv, GatewayAssumption

\* Requests and registrations that go, go from the view.
LEMMA RequestsLost ==
    ASSUME BrokerInv, NEW cs, Loses(cs)
    PROVE  Requests' = {o \in Requests : o[2] \notin cs}
<1>1. pending \subseteq DOMAIN calls
  BY DEF BrokerInv, BP!IInv, BP!RequestInv, BP!RequestTypes
<1>2. /\ pending' = {i \in pending : calls[i].connection \notin cs}
      /\ \A i \in pending : calls'[i].connection = calls[i].connection
  BY <1>1 DEF Loses, BP!OwnersKept
<1>3. ASSUME NEW o \in Requests' PROVE o \in Requests /\ o[2] \notin cs
  <2>1. PICK i \in pending' : o = <<<<"request", i>>, calls'[i].connection>>
    BY DEF Requests
  <2>2. i \in pending /\ o = <<<<"request", i>>, calls[i].connection>> /\ calls[i].connection \notin cs
    BY <1>2, <2>1
  <2>. QED  BY <2>2 DEF Requests
<1>4. ASSUME NEW o \in Requests, o[2] \notin cs PROVE o \in Requests'
  <2>1. PICK i \in pending : o = <<<<"request", i>>, calls[i].connection>>
    BY DEF Requests
  <2>2. i \in pending' /\ o = <<<<"request", i>>, calls'[i].connection>>
    BY <1>2, <1>4, <2>1
  <2>. QED  BY <2>2 DEF Requests
<1>. QED  BY <1>3, <1>4

LEMMA CapabilitiesLost ==
    ASSUME NEW cs,
           \A c \in Connections : registrations'[c] = IF c \in cs THEN {} ELSE registrations[c]
    PROVE  Capabilities' = {o \in Capabilities : o[2] \notin cs}
<1>1. ASSUME NEW o \in Capabilities' PROVE o \in Capabilities /\ o[2] \notin cs
  <2>0. PICK c \in Connections : \E d \in registrations'[c] : o = <<<<"capability", d>>, c>>
    BY DEF Capabilities
  <2>1. PICK d \in registrations'[c] : o = <<<<"capability", d>>, c>>
    BY <2>0
  <2>2. c \notin cs /\ d \in registrations[c] /\ o[2] = c
    BY <2>1
  <2>. QED  BY <2>1, <2>2 DEF Capabilities
<1>2. ASSUME NEW o \in Capabilities, o[2] \notin cs PROVE o \in Capabilities'
  <2>0. PICK c \in Connections : \E d \in registrations[c] : o = <<<<"capability", d>>, c>>
    BY DEF Capabilities
  <2>1. PICK d \in registrations[c] : o = <<<<"capability", d>>, c>>
    BY <2>0
  <2>2. c \notin cs /\ d \in registrations'[c]
    BY <1>2, <2>1
  <2>. QED  BY <2>1, <2>2 DEF Capabilities
<1>. QED  BY <1>1, <1>2

LEMMA OwnedLost ==
    ASSUME BrokerInv, NEW cs, Loses(cs),
           \A c \in Connections : registrations'[c] = IF c \in cs THEN {} ELSE registrations[c]
    PROVE  OwnedView' = OwnedApart(cs)
  BY RequestsLost, CapabilitiesLost DEF OwnedView, OwnedApart

\* What is taken on is the connection's, and nothing is lost by it.
LEMMA OwnedGained ==
    ASSUME BrokerInv, NEW c \in Connections, Calls(c) \/ (ConnectionInv /\ Changes(c)),
           registrations[c] \subseteq registrations'[c]
    PROVE  /\ OwnedView \subseteq OwnedView'
           /\ \A o \in OwnedView' \ OwnedView : o[2] = c
<1>1. /\ pending \subseteq DOMAIN calls /\ pending \subseteq pending'
      /\ \A i \in pending : calls'[i].connection = calls[i].connection
      /\ \A i \in pending' \ pending : calls'[i].connection = c
  BY DEF BrokerInv, BP!IInv, BP!RequestInv, BP!RequestTypes, Calls, Changes, BP!OwnersKept, broker
<1>2. \A d \in Connections : /\ registrations[d] \subseteq registrations'[d]
                             /\ d # c => registrations'[d] = registrations[d]
  BY DEF Calls, Quiet, Changes
<1>3. ASSUME NEW o \in OwnedView PROVE o \in OwnedView'
  BY <1>1, <1>2 DEF OwnedView, Requests, Capabilities
<1>4. ASSUME NEW o \in OwnedView', o \notin OwnedView PROVE o[2] = c
  <2>1. CASE o \in Requests'
    <3>1. PICK i \in pending' : o = <<<<"request", i>>, calls'[i].connection>>
      BY <2>1 DEF Requests
    <3>2. i \notin pending
      BY <1>1, <1>4, <3>1 DEF OwnedView, Requests
    <3>. QED  BY <1>1, <3>1, <3>2
  <2>2. CASE o \in Capabilities'
    <3>1. PICK d \in Connections : \E e \in registrations'[d] : o = <<<<"capability", e>>, d>>
      BY <2>2 DEF Capabilities
    <3>2. d = c
      BY <1>2, <1>4, <3>1 DEF OwnedView, Capabilities
    <3>. QED  BY <3>1, <3>2
  <2>. QED  BY <1>4, <2>1, <2>2 DEF OwnedView
<1>. QED  BY <1>3, <1>4

\* Otherwise nothing is taken on.
LEMMA OwnedFewer ==
    ASSUME BrokerInv, BP!OwnersKept, pending' \subseteq pending,
           \A c \in Connections : registrations'[c] \subseteq registrations[c]
    PROVE  OwnedView' \subseteq OwnedView
<1>1. \A i \in pending : calls'[i].connection = calls[i].connection
  BY DEF BrokerInv, BP!IInv, BP!RequestInv, BP!RequestTypes, BP!OwnersKept
<1>. QED  BY <1>1 DEF OwnedView, Requests, Capabilities

\* Whoever has been dropped stays so, and nobody else is until its connection ends.
LEMMA EndedKept ==
    ASSUME ConnectionInv,
           Quiet \/ Asks \/ Arrives \/ \E c \in Connections : Changes(c)
    PROVE  EndedView' = EndedView
<1>1. CASE Asks \/ \E c \in Connections : Changes(c)
  BY <1>1 DEF Asks, RequestApproval, Changes, EndedView
<1>2. CASE Quiet
  BY <1>2 DEF Quiet, Closed, EndedView
<1>3. ASSUME NEW c \in Connections, Accept(c) PROVE EndedView' = EndedView
  <2>1. /\ socket' = [socket EXCEPT ![c] = "open"] /\ states' = states \cup {c}
        /\ socket[c] = "new"
    BY <1>3 DEF Accept
  <2>2. \A d \in Connections : socket'[d] # "new" /\ d \notin states'
                               <=> socket[d] # "new" /\ d \notin states
    BY <2>1 DEF ConnectionInv, ConnectionTypes
  <2>. QED  BY <2>2 DEF EndedView
<1>. QED  BY <1>1, <1>2, <1>3 DEF Arrives

\* Nothing begins or ends: something is taken on, or let go.
LEMMA KeepsOwnership ==
    ASSUME ConnectionInv, ConnectionInv', BrokerInv,
           Rests \/ \E c \in Connections : Calls(c) \/ Changes(c)
    PROVE  OwnershipStep
<1>1. ActingView = Acting /\ ActingView' = Acting
  <2>1. Acting' = Acting
    BY ActingKept DEF Rests, Calls
  <2>2. ActingView' = Acting'
    BY ActingViewIs, GatewayAssumption DEF ActingView, Acting, ConnectionInv, GatewayAssumption
  <2>. QED  BY <2>1, <2>2, ActingViewIs
<1>2. EndedView' = EndedView
  BY EndedKept DEF Rests, Calls
<1>3. ASSUME OwnedView' \subseteq OwnedView PROVE OwnershipStep
  <2>1. Ownership!Release
    BY <1>1, <1>2, <1>3 DEF Ownership!Release, ActingView, EndedView, OwnedView, Requests,
                            Capabilities
  <2>. QED  BY <2>1 DEF OwnershipStep, Ownership!Next
<1>4. ASSUME NEW c \in Acting, OwnedView \subseteq OwnedView',
             \A o \in OwnedView' \ OwnedView : o[2] = c
      PROVE  OwnershipStep
  <2>1. c \in Connections
    BY DEF Acting
  <2>2. Ownership!Acquire(c)
    BY <1>1, <1>2, <1>4 DEF Ownership!Acquire, ActingView, EndedView, OwnedView, Requests,
                            Capabilities
  <2>. QED  BY <2>1, <2>2 DEF OwnershipStep, Ownership!Next
<1>5. CASE Rests
  <2>1. registrations' = registrations
    BY <1>5 DEF Rests, Quiet, Asks, Arrives, RequestApproval, Accept, registry
  <2>2. OwnedView' \subseteq OwnedView
    BY <1>5, <2>1, OwnedFewer DEF Rests
  <2>. QED  BY <1>3, <2>2
<1>6. ASSUME NEW c \in Connections, Calls(c) PROVE OwnershipStep
  <2>1. c \in Acting /\ registrations' = registrations
    BY <1>6 DEF Calls, Quiet
  <2>. QED  BY <1>4, <1>6, <2>1, OwnedGained
<1>7. ASSUME NEW c \in Connections, Changes(c) PROVE OwnershipStep
  <2>1. CASE registrations[c] \subseteq registrations'[c]
    <3>1. c \in Acting
      BY <1>7 DEF Changes
    <3>. QED  BY <1>4, <1>7, <2>1, <3>1, OwnedGained
  <2>2. CASE registrations'[c] \subseteq registrations[c]
    <3>1. \A d \in Connections : registrations'[d] \subseteq registrations[d]
      BY <1>7, <2>2 DEF Changes
    <3>2. BP!OwnersKept /\ pending' = pending
      BY <1>7, SameWork DEF Changes
    <3>3. OwnedView' \subseteq OwnedView
      BY <3>1, <3>2, OwnedFewer
    <3>. QED  BY <1>3, <3>3
  <2>. QED  BY <1>7, <2>1, <2>2 DEF Changes
<1>. QED  BY <1>5, <1>6, <1>7

\* A connection that ends loses all that it owned.
LEMMA EndsOwnership ==
    ASSUME ConnectionInv, ConnectionInv', BrokerInv,
           NEW c \in Connections, OnClose(c), Loses({c})
    PROVE  OwnershipStep
<1>1. /\ socket' = [socket EXCEPT ![c] = "closed"] /\ states' = states \ {c}
      /\ registrations' = [registrations EXCEPT ![c] = {}]
  BY DEF OnClose, R!RemoveSession, R!Forget
<1>2. Acting' = Acting \ {c} /\ ActingView = Acting /\ ActingView' = Acting'
  BY ActingKept, GatewayAssumption DEF ActingView, Acting, ConnectionInv, GatewayAssumption
<1>3. EndedView' = EndedView \cup {c}
  <2>1. \A d \in Connections : socket'[d] # "new" /\ d \notin states'
                               <=> d = c \/ (socket[d] # "new" /\ d \notin states)
    BY <1>1 DEF ConnectionInv, ConnectionTypes
  <2>. QED  BY <2>1 DEF EndedView
<1>4. OwnedView' = OwnedApart({c})
  <2>1. \A d \in Connections : registrations'[d] = IF d \in {c} THEN {} ELSE registrations[d]
    BY <1>1 DEF ConnectionInv, ConnectionTypes
  <2>. QED  BY <2>1, OwnedLost
<1>5. ActingView' = ActingView \ {c} /\ OwnedView' = OwnedView \ {o \in OwnedView : o[2] = c}
  BY <1>2, <1>4 DEF OwnedApart
<1>6. Ownership!End(c)
  BY <1>3, <1>5 DEF Ownership!End, Ownership!Of, ActingView, EndedView, OwnedView, Requests,
                    Capabilities
<1>. QED  BY <1>6 DEF OwnershipStep, Ownership!Next

\* What an admission does to the views.
LEMMA EntersViews ==
    ASSUME ConnectionInv, ConnectionInv', BrokerInv,
           NEW c, NEW s, NEW old, NEW tokens, Enters(c, s, old, tokens), Loses(old)
    PROVE  /\ c \in Connections /\ c \notin ActingView /\ c \notin EndedView
           /\ old \subseteq ActingView /\ \A d, e \in old : d = e
           /\ \A d \in ActingView : SameRuntime(d, c) <=> d \in old
           /\ ActingView' = (ActingView \ old) \cup {c}
           /\ EndedView' = EndedView \cup old
           /\ OwnedView' = OwnedApart(old)
<1>1. /\ c \in Connections /\ c \notin Acting /\ states' = states \ old
      /\ Acting' = (Acting \ old) \cup {c}
      /\ \A x \in Acting \ old : ~SameRuntime(x, c)
  BY Entering
<1>2. ActingView = Acting /\ ActingView' = Acting'
  BY GatewayAssumption DEF ActingView, Acting, ConnectionInv, GatewayAssumption
<1>3. /\ c \in states /\ \A d \in old : PageOf[d] = PageOf[c]
      /\ socket' = Closed(old)
      /\ \/ old = {} /\ registrations' = registrations
         \/ \E d \in old : registrations' = [registrations EXCEPT ![d] = {}]
  BY DEF Enters, Admitted, Establish, Retire, R!Forget
<1>4. old \subseteq Acting /\ \A d, e \in old : d = e
  BY OldIsOne DEF Enters
<1>5. \A d \in Connections : registrations'[d] = IF d \in old THEN {} ELSE registrations[d]
  BY <1>3, <1>4 DEF ConnectionInv, ConnectionTypes
<1>6. OwnedView' = OwnedApart(old)
  BY <1>5, OwnedLost
<1>7. EndedView' = EndedView \cup old
  <2>1. \A d \in Connections : socket'[d] = "new" <=> socket[d] = "new"
    BY <1>3 DEF Closed
  <2>2. \A d \in old : d \in Connections /\ socket[d] # "new"
    BY <1>4 DEF Acting, ConnectionInv
  <2>. QED  BY <1>1, <2>1, <2>2 DEF EndedView
<1>8. \A d \in Acting : SameRuntime(d, c) <=> d \in old
  BY <1>1, <1>3 DEF SameRuntime
<1>. QED  BY <1>1, <1>2, <1>3, <1>4, <1>6, <1>7, <1>8 DEF EndedView

\* An admission is a beginning, or the takeover of the one connection it resumes.
LEMMA EntersOwnership ==
    ASSUME ConnectionInv, ConnectionInv', BrokerInv,
           NEW c, NEW s, NEW old, NEW tokens, Enters(c, s, old, tokens), Loses(old)
    PROVE  OwnershipStep
<1>1. /\ c \in Connections /\ c \notin ActingView /\ c \notin EndedView
      /\ old \subseteq ActingView /\ \A d, e \in old : d = e
      /\ \A d \in ActingView : SameRuntime(d, c) <=> d \in old
      /\ ActingView' = (ActingView \ old) \cup {c}
      /\ EndedView' = EndedView \cup old
      /\ OwnedView' = OwnedApart(old)
  BY EntersViews
<1>2. Ownership!Rivals(c) = old
  <2>1. \A d : SameRuntime(d, c) <=> SameRuntime(c, d)
    BY DEF SameRuntime
  <2>2. Ownership!Rivals(c) = {d \in ActingView : SameRuntime(c, d)}
    BY DEF Ownership!Rivals, ActingView, SameRuntime
  <2>. QED  BY <1>1, <2>1, <2>2
<1>3. CASE old = {}
  <2>1. ActingView' = ActingView \cup {c} /\ EndedView' = EndedView /\ OwnedView' = OwnedView
    BY <1>1, <1>3 DEF OwnedApart
  <2>2. Ownership!Begin(c)
    BY <1>1, <1>2, <1>3, <2>1 DEF Ownership!Begin, ActingView, EndedView, OwnedView, Requests,
                                  Capabilities
  <2>. QED  BY <1>1, <2>2 DEF OwnershipStep, Ownership!Next
<1>4. ASSUME NEW d \in old PROVE OwnershipStep
  <2>1. old = {d} /\ d \in Connections
    BY <1>1 DEF ActingView
  <2>2. /\ ActingView' = (ActingView \ {d}) \cup {c} /\ EndedView' = EndedView \cup {d}
        /\ OwnedView' = OwnedView \ {o \in OwnedView : o[2] = d}
    BY <1>1, <2>1 DEF OwnedApart
  <2>3. Ownership!TakeOver(d, c)
    BY <1>1, <1>2, <2>1, <2>2 DEF Ownership!TakeOver, Ownership!Of, ActingView, EndedView,
                                  OwnedView, Requests, Capabilities
  <2>. QED  BY <1>1, <2>1, <2>3 DEF OwnershipStep, Ownership!Next
<1>. QED  BY <1>3, <1>4

LEMMA NextOwnership ==
    ConnectionInv /\ ConnectionInv' /\ TokensInv /\ BrokerInv /\ [Next]_vars => OwnershipStep
<1>. SUFFICES ASSUME ConnectionInv, ConnectionInv', TokensInv, BrokerInv, [Next]_vars
              PROVE  OwnershipStep
  OBVIOUS
<1>. QED  BY KeepsOwnership, EndsOwnership, EntersOwnership, WorkKinds

\* One connection acts for a runtime; a resume takes over in one step, in which the old
\* connection loses all it owns, as one does that ends; and an ended one never acts again.
THEOREM OneOwnerPerRuntime == Spec => ImplementsOwnership
<1>1. Init => Ownership!Init
  <2>. SUFFICES ASSUME Init PROVE Ownership!Init
    OBVIOUS
  <2>1. ActingView = {} /\ EndedView = {} /\ Requests = {} /\ Capabilities = {}
    BY DEF Init, ActingView, EndedView, Requests, Capabilities
  <2>. QED  BY <2>1 DEF Ownership!Init, ActingView, EndedView, Requests, Capabilities
<1>2. ConnectionInv /\ ConnectionInv' /\ TokensInv /\ BrokerInv /\ [Next]_vars
        => [Ownership!Next]_(Ownership!vars)
  BY NextOwnership DEF OwnershipStep
<1>3. Spec => Ownership!Init /\ [][Ownership!Next]_(Ownership!vars)
  BY <1>1, <1>2, ConnectionInvariance, BrokerInvariance, PTL DEF Spec
<1>. QED  BY <1>3 DEF ImplementsOwnership, Ownership!Spec
=============================================================================
