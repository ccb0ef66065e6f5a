--------------------------- MODULE WebConnection ---------------------------
(***************************************************************************)
(* The connection life cycle of the web runtime, one BrowserMCP object of  *)
(* packages/web/src/browser-mcp.ts: connect, disconnect, reconnect, the    *)
(* attempts they start, the handshake on a WebSocket, the session store    *)
(* that is awaited in the middle of it, and the automatic reconnection.    *)
(*                                                                         *)
(* JavaScript runs a callback to its end and then every promise            *)
(* continuation that has become ready, before the next callback.  So an    *)
(* action is either an event (a call of the application, a socket event, a *)
(* timer, a store operation that ends), possible when no continuation is   *)
(* ready (Quiet), or the continuation of one asynchronous function.        *)
(*                                                                         *)
(* An attempt is an activation of #connectAttempt; it creates at most one  *)
(* socket, which has its number, and #connectionGeneration changes with    *)
(* #socket, so that comparing sockets compares generations.  The bridge, a *)
(* session's expiry and the network are the environment.                   *)
(***************************************************************************)
EXTENDS Naturals, Sequences, FiniteSets

CONSTANTS MaxConnects,    \* bound: attempts of one behaviour
          MaxAttempts,    \* reconnect.maxAttempts
          AutoReconnect,  \* FALSE: the option reconnect is false
          PreparesLNA,    \* TRUE: local network access is prepared first
          Eager           \* TRUE: connect may be called while a socket closes

ASSUME WebConnectionAssumption ==
    /\ MaxConnects \in Nat \ {0}
    /\ MaxAttempts \in Nat
    /\ {AutoReconnect, PreparesLNA, Eager} \subseteq BOOLEAN

None == 0
Attempts == 1..MaxConnects

VARIABLES
    rt,       \* the fields of the object, and the handshakes' outcomes (hs)
    attempts, \* where each activation of #connectAttempt is
    disc,     \* the activation behind #disconnectPromise
    rec,      \* the activation behind #reconnectPromise
    queued,   \* a connect waits for #disconnectPromise
    ws,       \* the readyState of each attempt's WebSocket
    bridge,   \* what the bridge has answered on each socket
    queue,    \* the operations behind #sessionStoreTail, first the running one
    stored    \* the session in the store: the attempt that was welcomed, or None

vars == <<rt, attempts, disc, rec, queued, ws, bridge, queue, stored>>

\* The outcome of a handshake is "none", "pending", "ok", or an error, that is
\* "retryable" or "final".

Unused == [pc |-> "unused", auto |-> FALSE, fresh |-> FALSE, aborted |-> FALSE,
           auth |-> "none"]
Idle == [pc |-> "idle", sock |-> None, active |-> None, waited |-> FALSE,
         preserve |-> FALSE]

Init ==
    /\ rt = [state |-> "idle", socket |-> None, connecting |-> None,
             abort |-> None, handshake |-> None, connectId |-> None,
             connectTimer |-> None, approval |-> FALSE, timer |-> FALSE,
             tries |-> 0, manual |-> FALSE, suppress |-> FALSE,
             session |-> None, hs |-> [a \in Attempts |-> "none"]]
    /\ attempts = [a \in Attempts |-> Unused]
    /\ disc = Idle
    /\ rec = Idle
    /\ queued = FALSE
    /\ ws = [a \in Attempts |-> "none"]
    /\ bridge = [a \in Attempts |-> "silent"]
    /\ queue = <<>>
    /\ stored = None

Active(a) == attempts[a].pc \notin {"unused", "ended"}
Used == {a \in Attempts : attempts[a].pc # "unused"}

\* A new attempt is left for those who have been promised one.
Spare == MaxConnects - Cardinality(Used)
           - (IF rec.pc \in {"entered", "closing", "attempt"} THEN 1 ELSE 0)
           - (IF queued THEN 1 ELSE 0)
Next1 == Cardinality(Used) + 1

-----------------------------------------------------------------------------
(* Synchronous parts, as functions of the object's fields.                  *)

\* Settling a handshake that is settled already has no effect.
Rejected(r, outcome) ==
    IF r.handshake # None /\ r.hs[r.handshake] = "pending"
    THEN [r EXCEPT !.hs[r.handshake] = outcome]
    ELSE r

Failed(r, outcome) ==
    [Rejected(r, outcome) EXCEPT !.approval = FALSE, !.state = "error"]

CancelReconnect(r) == [r EXCEPT !.timer = FALSE, !.tries = 0]

Scheduled(r) ==
    IF ~AutoReconnect \/ r.timer \/ r.tries >= MaxAttempts
    THEN r
    ELSE [r EXCEPT !.timer = TRUE, !.tries = @ + 1, !.state = "reconnecting"]

ClearSession(r) == [r EXCEPT !.session = None, !.approval = FALSE]

Closed(w, a) ==
    IF a # None /\ w[a] \in {"connecting", "open"}
    THEN [w EXCEPT ![a] = "closing"]
    ELSE w

FailedForGood(r) == [Failed(r, "final") EXCEPT !.suppress = TRUE]

\* onAbort of an attempt in its handshake; before that only the signal is set.
Abort(r, a) ==
    IF a = None \/ attempts[a].pc # "handshake" THEN r
    ELSE LET s == [r EXCEPT !.suppress = TRUE]
         IN IF s.manual THEN Rejected(s, "final") ELSE Failed(s, "final")
Aborted(a) ==
    IF a = None THEN attempts ELSE [attempts EXCEPT ![a].aborted = TRUE]
AbortCloses(w, a) ==
    IF a # None /\ attempts[a].pc = "handshake" THEN Closed(w, a) ELSE w

\* The socket is given up: what waits for it is rejected.
Dropped(r, a) ==
    IF r.socket = a
    THEN [Rejected(r, "retryable") EXCEPT !.socket = None]
    ELSE r

\* Slip: the save of an old connection is taken for the current one's.
IsPendingHandshake_AnySocket(a, handshake) ==
    rt.state \in {"connecting", "reconnecting", "awaiting-approval"}

IsPendingHandshake(a, handshake) ==
    /\ rt.socket = a
    /\ rt.handshake = handshake
    /\ rt.connectId = a
    /\ rt.state \in {"connecting", "reconnecting", "awaiting-approval"}

-----------------------------------------------------------------------------
(* Attempts.                                                                *)

\* #beginConnect: the attempt runs to its first await.
Begun(r, a, reconnecting) ==
    [r EXCEPT !.connecting = a, !.abort = a,
              !.state = IF reconnecting THEN "reconnecting" ELSE "connecting"]
BeginAttempt(a, auto, fresh) ==
    attempts' = [attempts EXCEPT
        ![a] = [Unused EXCEPT !.pc = IF PreparesLNA THEN "prepare" ELSE "auth",
                              !.auto = auto, !.fresh = fresh]]

\* The end of an attempt, to the last handler of its promise.  An aborted
\* one ends with the reason of the abort.
Ended(r, a, outcome) ==
    LET final == attempts[a].aborted \/ outcome = "final"
        left  == [r EXCEPT !.connectTimer = IF @ = a THEN None ELSE @,
                           !.handshake = IF @ = a THEN None ELSE @,
                           !.abort = IF @ = a THEN None ELSE @,
                           !.connecting = IF @ = a THEN None ELSE @,
                           !.hs[a] = "none"]
        told  == IF ~left.manual /\ left.state # "disconnected"
                 THEN Failed(left, IF final THEN "final" ELSE "retryable")
                 ELSE left
    IN IF outcome = "ok" THEN left
       ELSE IF attempts[a].auto /\ ~final /\ told.socket = None
            THEN Scheduled(told)
            ELSE told
End(a) == attempts' = [attempts EXCEPT ![a] = [Unused EXCEPT !.pc = "ended"]]

\* With the credential decided, a cancelled attempt ends, the factory
\* throws, or the handshake begins on a new socket.
OpenSocket(a, r, auth) ==
    \/ /\ attempts[a].aborted
       /\ rt' = Ended(r, a, "final")
       /\ End(a)
       /\ UNCHANGED ws
    \/ /\ ~attempts[a].aborted
       /\ \/ /\ rt' = Ended(r, a, "retryable")
             /\ End(a)
             /\ UNCHANGED ws
          \/ /\ rt' = [r EXCEPT !.handshake = a, !.hs[a] = "pending",
                                !.socket = a, !.manual = FALSE,
                                !.suppress = FALSE, !.connectTimer = a]
             /\ attempts' = [attempts EXCEPT ![a].pc = "handshake",
                                             ![a].auth = auth]
             /\ ws' = [ws EXCEPT ![a] = "connecting"]

Fails(a, r) == rt' = Ended(r, a, "final") /\ End(a) /\ UNCHANGED ws

\* prepareLocalNetworkAccess ends; it fails when it is aborted.
Prepared(a) ==
    /\ attempts[a].pc = "prepare"
    /\ \/ /\ ~attempts[a].aborted
          /\ attempts' = [attempts EXCEPT ![a].pc = "auth"]
          /\ UNCHANGED <<rt, ws>>
       \/ Fails(a, rt)
    /\ UNCHANGED <<disc, rec, queued, bridge, queue, stored>>

Operation(op, a, handshake, for) ==
    [op |-> op, a |-> a, handshake |-> handshake, for |-> for]

\* #connectionAuth with a session: resume, or clear an expired one first.
WithSession(a, s, q) ==
    \/ /\ OpenSocket(a, [rt EXCEPT !.session = s], "resume")
       /\ queue' = q
    \/ /\ rt' = ClearSession(rt)
       /\ attempts' = [attempts EXCEPT ![a].pc = "clear"]
       /\ queue' = Append(q, Operation("clear", a, None, "attempt"))
       /\ UNCHANGED ws

\* Continuation: #connectionAuth begins, with the session in memory or by
\* asking the store for one.
Authenticates(a) ==
    /\ attempts[a].pc = "auth"
    /\ IF rt.session # None
       THEN WithSession(a, rt.session, queue)
       ELSE /\ attempts' = [attempts EXCEPT ![a].pc = "load"]
            /\ queue' = Append(queue, Operation("load", a, None, "attempt"))
            /\ UNCHANGED <<rt, ws>>
    /\ UNCHANGED <<disc, rec, queued, bridge, stored>>

\* getToken answers with a token or none, or fails; without a token only an
\* attempt that may ask the operator goes on.
TokenGiven(a) ==
    /\ attempts[a].pc = "token"
    /\ \/ OpenSocket(a, rt, "pairing")
       \/ attempts[a].fresh /\ OpenSocket(a, rt, "approval")
       \/ Fails(a, rt)
    /\ UNCHANGED <<disc, rec, queued, bridge, queue, stored>>

\* Continuation: the handshake of an attempt has been settled.
Settles(a) ==
    /\ attempts[a].pc = "handshake"
    /\ rt.hs[a] # "pending"
    /\ rt' = Ended(rt, a, rt.hs[a])
    /\ End(a)
    /\ UNCHANGED <<disc, rec, queued, ws, bridge, queue, stored>>

-----------------------------------------------------------------------------
(* disconnect and reconnect.                                                *)

SocketReleased(d) ==
    d.waited \/ d.sock \in {None} \cup {a \in Attempts : ws[a] = "closed"}
\* Slip: the aborted attempt is not awaited.
AttemptOver_Unasked(d) == TRUE
AttemptOver(d) == d.active \in {None} \cup {a \in Attempts : ~Active(a)}

\* The part both begin with: no automatic reconnection, the attempt in
\* progress is aborted, the socket is closed and awaited.
TakeDown(r) ==
    /\ rt' = Abort([CancelReconnect(r) EXCEPT !.manual = TRUE], r.abort)
    /\ attempts' = Aborted(r.abort)
    /\ ws' = Closed(AbortCloses(ws, r.abort), r.socket)
Taken(preserve) ==
    [pc |-> "closing", sock |-> rt.socket, active |-> rt.connecting,
     waited |-> FALSE, preserve |-> preserve]

DisconnectStarts(preserve) ==
    /\ TakeDown([rt EXCEPT !.state = "disconnecting"])
    /\ disc' = Taken(preserve)
    /\ UNCHANGED <<rec, queued, bridge, queue, stored>>

Disconnected(r) ==
    LET dropped == Dropped(r, disc.sock)
        cleared == IF disc.preserve THEN dropped ELSE ClearSession(dropped)
    IN [cleared EXCEPT !.state = "disconnected", !.manual = FALSE]

\* Continuation: the socket has closed, or its second has passed, and the
\* aborted attempt has ended.
DisconnectCloses ==
    /\ disc.pc = "closing"
    /\ SocketReleased(disc) /\ AttemptOver(disc)
    /\ IF disc.preserve
       THEN /\ rt' = Disconnected(rt)
            /\ disc' = Idle
            /\ UNCHANGED queue
       ELSE /\ rt' = ClearSession(rt)
            /\ disc' = [disc EXCEPT !.pc = "clearing"]
            /\ queue' = Append(queue, Operation("clear", None, None, "disconnect"))
    /\ UNCHANGED <<attempts, rec, queued, ws, bridge, stored>>

\* Continuation: a disconnect that waited for the reconnect begins.
DisconnectFollows ==
    /\ disc.pc = "waiting" /\ rec.pc = "idle"
    /\ DisconnectStarts(disc.preserve)

\* Continuation: reconnect has waited for the disconnect in progress, if any.
ReconnectStarts ==
    /\ rec.pc = "entered" /\ disc.pc = "idle"
    /\ TakeDown(rt)
    /\ rec' = Taken(TRUE)
    /\ UNCHANGED <<disc, queued, bridge, queue, stored>>

ReconnectDrops ==
    /\ rec.pc = "closing" /\ SocketReleased(rec)
    /\ rt' = Dropped(rt, rec.sock)
    /\ rec' = [rec EXCEPT !.pc = "attempt"]
    /\ UNCHANGED <<attempts, disc, queued, ws, bridge, queue, stored>>

ReconnectConnects ==
    /\ rec.pc = "attempt" /\ AttemptOver(rec)
    /\ rt' = Begun([rt EXCEPT !.manual = FALSE], Next1, TRUE)
    /\ BeginAttempt(Next1, FALSE, TRUE)
    /\ rec' = [Idle EXCEPT !.pc = "connecting", !.active = Next1]
    /\ UNCHANGED <<disc, queued, ws, bridge, queue, stored>>

ReconnectEnds ==
    /\ rec.pc = "connecting" /\ AttemptOver(rec)
    /\ rec' = Idle
    /\ UNCHANGED <<rt, attempts, disc, queued, ws, bridge, queue, stored>>

\* Slip: an attempt in progress is not joined.
MayBegin_Again ==
    /\ disc.pc = "idle" /\ rec.pc = "idle"
    /\ ~(rt.session # None /\ rt.state = "connected")
\* The call of connect when nothing is in the way: there is no attempt and
\* no session to join.
MayBegin ==
    /\ disc.pc = "idle" /\ rec.pc = "idle" /\ rt.connecting = None
    /\ ~(rt.session # None /\ rt.state = "connected")

ConnectBegins(fresh) ==
    /\ rt' = Begun(CancelReconnect(rt), Next1, FALSE)
    /\ BeginAttempt(Next1, FALSE, fresh)

\* Continuation: a connect that waited for the disconnect is made again.
QueuedConnect ==
    /\ queued /\ disc.pc = "idle"
    /\ queued' = FALSE
    /\ IF MayBegin
       THEN ConnectBegins(TRUE)
       ELSE UNCHANGED <<rt, attempts>>
    /\ UNCHANGED <<disc, rec, ws, bridge, queue, stored>>

Continuation ==
    \/ \E a \in Attempts : Authenticates(a) \/ Settles(a)
    \/ DisconnectFollows \/ DisconnectCloses
    \/ ReconnectStarts \/ ReconnectDrops \/ ReconnectConnects \/ ReconnectEnds
    \/ QueuedConnect

\* No continuation is ready.
Quiet ==
    /\ \A a \in Attempts : /\ attempts[a].pc # "auth"
                           /\ attempts[a].pc = "handshake" => rt.hs[a] = "pending"
    /\ ~(disc.pc = "waiting" /\ rec.pc = "idle")
    /\ ~(disc.pc = "closing" /\ SocketReleased(disc) /\ AttemptOver(disc))
    /\ ~(rec.pc = "entered" /\ disc.pc = "idle")
    /\ ~(rec.pc = "closing" /\ SocketReleased(rec))
    /\ ~(rec.pc \in {"attempt", "connecting"} /\ AttemptOver(rec))
    /\ ~(queued /\ disc.pc = "idle")

-----------------------------------------------------------------------------
(* The application.                                                         *)

\* Without Eager the application leaves a socket the time to close.
Connect ==
    /\ Spare > 0
    /\ Eager \/ rt.socket = None \/ disc.pc # "idle"
    /\ \/ /\ disc.pc # "idle" /\ ~queued
          /\ queued' = TRUE
          /\ UNCHANGED <<rt, attempts>>
       \/ /\ MayBegin
          /\ \E fresh \in BOOLEAN : ConnectBegins(fresh)
          /\ UNCHANGED queued
    /\ UNCHANGED <<disc, rec, ws, bridge, queue, stored>>

Disconnect ==
    \E preserve \in BOOLEAN :
        /\ disc.pc = "idle"
        /\ \/ /\ rec.pc = "idle"
              /\ DisconnectStarts(preserve)
           \/ /\ rec.pc # "idle"
              /\ disc' = [Idle EXCEPT !.pc = "waiting", !.preserve = preserve]
              /\ UNCHANGED <<rt, attempts, rec, queued, ws, bridge, queue, stored>>

Reconnect ==
    /\ rec.pc = "idle" /\ Spare > 0
    /\ rec' = [Idle EXCEPT !.pc = "entered"]
    /\ UNCHANGED <<rt, attempts, disc, queued, ws, bridge, queue, stored>>

\* The signal given to connect is aborted.
CallerAborts(a) ==
    /\ Active(a) /\ ~attempts[a].auto /\ ~attempts[a].aborted
    /\ rec.active # a
    /\ rt' = Abort(rt, a)
    /\ attempts' = Aborted(a)
    /\ ws' = AbortCloses(ws, a)
    /\ UNCHANGED <<disc, rec, queued, bridge, queue, stored>>

-----------------------------------------------------------------------------
(* Timers.                                                                  *)

ReconnectTimerFires ==
    /\ rt.timer /\ Spare > 0
    /\ rt' = Begun([rt EXCEPT !.timer = FALSE], Next1, TRUE)
    /\ BeginAttempt(Next1, TRUE, FALSE)
    /\ UNCHANGED <<disc, rec, queued, ws, bridge, queue, stored>>

ConnectTimesOut ==
    /\ rt.connectTimer # None
    /\ LET a == rt.connectTimer
           r == [rt EXCEPT !.connectTimer = None]
       IN IF rt.socket = a
          THEN /\ rt' = Failed(r, "retryable")
               /\ ws' = Closed(ws, a)
          ELSE rt' = r /\ UNCHANGED ws
    /\ UNCHANGED <<attempts, disc, rec, queued, bridge, queue, stored>>

\* #closeAndWait gives up on the close event after a second.
Overdue(d) == /\ d.pc = "closing" /\ ~d.waited
              /\ d.sock # None /\ ws[d.sock] # "closed"
CloseWaitExpires ==
    \/ /\ Overdue(disc)
       /\ disc' = [disc EXCEPT !.waited = TRUE]
       /\ UNCHANGED <<rt, attempts, rec, queued, ws, bridge, queue, stored>>
    \/ /\ Overdue(rec)
       /\ rec' = [rec EXCEPT !.waited = TRUE]
       /\ UNCHANGED <<rt, attempts, disc, queued, ws, bridge, queue, stored>>

-----------------------------------------------------------------------------
(* The socket and the bridge.                                               *)

\* onOpen: the connect message goes out on the current socket.
SocketOpens(a) ==
    /\ ws[a] = "connecting"
    /\ LET opened == [ws EXCEPT ![a] = "open"]
           named  == [rt EXCEPT !.connectId = a]
       IN IF rt.socket # None /\ opened[rt.socket] = "open"
          THEN /\ rt' = named
               /\ ws' = opened
               /\ bridge' = [bridge EXCEPT ![rt.socket] = "asked"]
          ELSE /\ rt' = FailedForGood(named)
               /\ ws' = Closed(opened, a)
               /\ UNCHANGED bridge
    /\ UNCHANGED <<attempts, disc, rec, queued, queue, stored>>

\* Slips: a rejection does not suppress the reconnection; the handshake in
\* progress is left alone.
SocketClosed_Reconnects(r, a) ==
    LET left == [Rejected(r, "retryable") EXCEPT !.socket = None,
                                                 !.approval = FALSE]
    IN IF r.socket # a THEN r
       ELSE IF r.manual THEN [left EXCEPT !.state = "disconnected"]
       ELSE Scheduled([left EXCEPT !.state = "disconnected"])
SocketClosed_KeepsHandshake(r, a) ==
    LET left == [r EXCEPT !.socket = None, !.approval = FALSE]
    IN IF r.socket # a THEN r
       ELSE IF r.manual THEN [left EXCEPT !.state = "disconnected"]
       ELSE IF r.suppress
       THEN [left EXCEPT !.suppress = FALSE, !.state = "error"]
       ELSE Scheduled([left EXCEPT !.state = "disconnected"])

\* What the close of the current socket does; another's is ignored.
SocketClosed(r, a) ==
    LET left == [Rejected(r, "retryable") EXCEPT !.socket = None,
                                                 !.approval = FALSE]
    IN IF r.socket # a THEN r
       ELSE IF r.manual THEN [left EXCEPT !.state = "disconnected"]
       ELSE IF r.suppress
       THEN [left EXCEPT !.suppress = FALSE, !.state = "error"]
       ELSE Scheduled([left EXCEPT !.state = "disconnected"])

SocketCloses(a) ==
    /\ ws[a] \in {"connecting", "open", "closing"}
    /\ ws' = [ws EXCEPT ![a] = "closed"]
    /\ rt' = SocketClosed(rt, a)
    /\ UNCHANGED <<attempts, disc, rec, queued, bridge, queue, stored>>

\* A message is heard on the current socket as long as it is open.
Delivers(a) == ws[a] = "open" /\ rt.socket = a

ProtocolFailure(a) == rt' = FailedForGood(rt) /\ ws' = Closed(ws, a)

ApprovalRequired(a) ==
    /\ Delivers(a)
    /\ bridge[a] = "asked" /\ attempts[a].auth = "approval"
    /\ bridge' = [bridge EXCEPT ![a] = "approval"]
    /\ IF /\ rt.handshake # None /\ rt.connectId = a /\ ~rt.approval
          /\ rt.state \in {"connecting", "reconnecting"}
       THEN /\ rt' = [rt EXCEPT !.approval = TRUE, !.connectTimer = a,
                               !.state = "awaiting-approval"]
            /\ UNCHANGED ws
       ELSE ProtocolFailure(a)
    /\ UNCHANGED <<attempts, disc, rec, queued, queue, stored>>

\* The welcome is not taken before its session has been saved.
Welcome(a) ==
    /\ Delivers(a)
    /\ bridge[a] \in {"asked", "approval"}
    /\ bridge' = [bridge EXCEPT ![a] = "welcomed"]
    /\ IF rt.handshake # None /\ rt.connectId = a
       THEN /\ queue' = Append(queue, Operation("save", a, rt.handshake, "welcome"))
            /\ UNCHANGED <<rt, ws>>
       ELSE ProtocolFailure(a) /\ UNCHANGED queue
    /\ UNCHANGED <<attempts, disc, rec, queued, stored>>

\* An error that answers the connect message: a refused resume is
\* forgotten, a refused credential suppresses the reconnection, any other
\* error may be retried.  The bridge closes the socket then.
Refused(a, code) ==
    /\ Delivers(a)
    /\ bridge[a] \in {"asked", "approval"}
    /\ code = "SESSION_RESUME_REJECTED" => attempts[a].auth = "resume"
    /\ bridge' = [bridge EXCEPT ![a] = IF code = "RATE_LIMITED" THEN "refused" ELSE "rejected"]
    /\ IF rt.handshake = None \/ rt.connectId # a
       THEN UNCHANGED <<rt, queue>>
       ELSE CASE code = "SESSION_RESUME_REJECTED" ->
                   /\ rt' = ClearSession(FailedForGood(rt))
                   /\ queue' = Append(queue, Operation("clear", a, None, "refusal"))
              [] code = "AUTH_INVALID" ->
                   rt' = FailedForGood(rt) /\ UNCHANGED queue
              [] OTHER ->
                   rt' = Failed(rt, "retryable") /\ UNCHANGED queue
    /\ UNCHANGED <<attempts, disc, rec, queued, ws, stored>>

\* A message that is no message, that comes before the session (a ping
\* while the session is being saved is one), or that matches nothing.
Unexpected(a) ==
    /\ Delivers(a)
    /\ ProtocolFailure(a)
    /\ UNCHANGED <<attempts, disc, rec, queued, bridge, queue, stored>>

\* The bridge takes its leave, and may take back the session.
BridgeDisconnects(a, canResume) ==
    /\ Delivers(a)
    /\ bridge[a] = "welcomed"
    /\ rt.session # None /\ rt.state = "connected"
    /\ bridge' = [bridge EXCEPT ![a] = IF canResume THEN "left" ELSE "revoked"]
    /\ IF canResume
       THEN ws' = Closed(ws, rt.socket) /\ UNCHANGED <<rt, queue>>
       ELSE /\ rt' = [ClearSession(rt) EXCEPT !.suppress = TRUE]
            /\ queue' = Append(queue, Operation("clear", a, None, "leave"))
            /\ UNCHANGED ws
    /\ UNCHANGED <<attempts, disc, rec, queued, stored>>

\* Every registration has been answered: the handshake is complete.
RegistrationsSettle ==
    /\ rt.handshake # None /\ rt.state = "connected"
    /\ rt.socket # None /\ rt.session = rt.socket
    /\ rt' = [rt EXCEPT !.hs[rt.handshake] = "ok"]
    /\ UNCHANGED <<attempts, disc, rec, queued, ws, bridge, queue, stored>>

-----------------------------------------------------------------------------
(* The session store ends its operation, well or not; what awaited it goes  *)
(* on.                                                                      *)

Loaded(h, ok) ==
    LET a == h.a
    IN /\ IF ~ok
          THEN Fails(a, ClearSession(rt)) /\ queue' = Tail(queue)
          ELSE IF stored # None
          THEN WithSession(a, stored, Tail(queue))
          ELSE /\ attempts' = [attempts EXCEPT ![a].pc = "token"]
               /\ queue' = Tail(queue)
               /\ UNCHANGED <<rt, ws>>
       /\ UNCHANGED <<disc, stored>>

Saved(h, ok) ==
    LET a == h.a
    IN /\ stored' = IF ok THEN a ELSE stored
       /\ IF ~IsPendingHandshake(a, h.handshake)
          THEN queue' = Tail(queue) /\ UNCHANGED <<rt, ws>>
          ELSE IF ok
          THEN /\ rt' = [rt EXCEPT !.approval = FALSE, !.session = a,
                                   !.tries = 0, !.state = "connected"]
               /\ queue' = Tail(queue)
               /\ UNCHANGED ws
          ELSE /\ rt' = FailedForGood(ClearSession(rt))
               /\ ws' = Closed(ws, a)
               /\ queue' = Append(Tail(queue), Operation("clear", a, None, "cleanup"))
       /\ UNCHANGED <<attempts, disc>>

Cleared(h, ok) ==
    /\ stored' = IF ok THEN None ELSE stored
    /\ queue' = Tail(queue)
    /\ CASE h.for = "attempt" ->
              /\ IF ok
                 THEN /\ attempts' = [attempts EXCEPT ![h.a].pc = "token"]
                      /\ UNCHANGED <<rt, ws>>
                 ELSE Fails(h.a, rt)
              /\ UNCHANGED disc
         [] h.for = "disconnect" ->
              /\ rt' = Disconnected(rt)
              /\ disc' = Idle
              /\ UNCHANGED <<attempts, ws>>
         [] h.for = "leave" ->
              /\ rt' = IF ok THEN rt ELSE Failed(rt, "final")
              /\ ws' = Closed(ws, rt.socket)
              /\ UNCHANGED <<attempts, disc>>
         [] h.for = "refusal" /\ ~ok ->
              /\ ProtocolFailure(rt.socket)
              /\ UNCHANGED <<attempts, disc>>
         [] OTHER -> UNCHANGED <<rt, ws, attempts, disc>>

StoreEnds ==
    /\ queue # <<>>
    /\ \E ok \in BOOLEAN :
           CASE Head(queue).op = "load" -> Loaded(Head(queue), ok)
             [] Head(queue).op = "save" -> Saved(Head(queue), ok)
             [] OTHER -> Cleared(Head(queue), ok)
    /\ UNCHANGED <<rec, queued, bridge>>

-----------------------------------------------------------------------------
RefusalCodes == {"SESSION_RESUME_REJECTED", "AUTH_INVALID", "RATE_LIMITED"}

Message(a) ==
    \/ ApprovalRequired(a) \/ Welcome(a) \/ Unexpected(a)
    \/ \E code \in RefusalCodes : Refused(a, code)
    \/ \E canResume \in BOOLEAN : BridgeDisconnects(a, canResume)

Application == Connect \/ Disconnect \/ Reconnect
               \/ \E a \in Attempts : CallerAborts(a)
Timers == ReconnectTimerFires \/ ConnectTimesOut \/ CloseWaitExpires
Awaited == StoreEnds \/ \E a \in Attempts : Prepared(a) \/ TokenGiven(a)

Next ==
    \/ Continuation
    \/ /\ Quiet
       /\ \/ Application
          \/ Timers
          \/ Awaited
          \/ RegistrationsSettle
          \/ \E a \in Attempts : SocketOpens(a) \/ SocketCloses(a) \/ Message(a)

Spec == Init /\ [][Next]_vars

\* What is awaited ends: the store, getToken, the local network request; the
\* timers fire; a socket that is closing closes; registrations are answered
\* or time out.  Nothing is assumed of the bridge or of the application.
Fairness ==
    /\ WF_vars(Continuation)
    /\ WF_vars(Quiet /\ StoreEnds)
    /\ \A a \in Attempts : /\ WF_vars(Quiet /\ Prepared(a))
                           /\ WF_vars(Quiet /\ TokenGiven(a))
                           /\ WF_vars(Quiet /\ ws[a] = "closing" /\ SocketCloses(a))
    /\ WF_vars(Quiet /\ ConnectTimesOut)
    /\ WF_vars(Quiet /\ CloseWaitExpires)

FairSpec == Spec /\ Fairness

-----------------------------------------------------------------------------
(* Properties.                                                              *)

\* connect, reconnect and the reconnection timer never have two attempts in
\* progress: what a second one overwrites (#connectPromise, #connectAbort,
\* #handshake, the connect timer) would leave the first without an end.
OneAttempt == Cardinality({a \in Attempts : Active(a)}) <= 1

\* While connected with the store at rest, the stored session, the session in
\* memory and the socket are those of one welcome, or the bridge has taken the
\* session back and the socket is closing: a reload resumes what the bridge
\* issued last, although saves and clears of several connections pass through
\* the store one after the other.
StoredIsCurrent ==
    rt.state = "connected" /\ queue = <<>> /\ Quiet
        => /\ stored = rt.session
           /\ rt.session # None => rt.session = rt.socket
           /\ rt.session = None => ws[rt.socket] = "closing"

\* After the bridge or its operator has rejected the credential, the runtime makes no
\* attempt of its own accord, although the close of the socket that follows is a
\* reason for one.
RejectionIsFinal ==
    [][\A a \in Attempts :
         attempts[a].pc = "unused" /\ attempts'[a].auto
             => a = 1 \/ bridge[a - 1] # "rejected"]_vars

\* Nor does it after the bridge has taken the session back (packages/web/README.md:105).
RevocationIsFinal ==
    [][\A a \in Attempts :
         attempts[a].pc = "unused" /\ attempts'[a].auto
             => a = 1 \/ bridge[a - 1] # "revoked"]_vars

\* When a disconnect that does not preserve the session has ended and the
\* store has obeyed, nothing is left: no session, no stored credential, no
\* attempt, no reconnection timer, no socket that is not closing.
DisconnectForgets ==
    [][(disc.pc = "clearing" /\ disc'.pc = "idle" /\ stored' = None)
         => /\ rt'.session = None /\ ~rt'.timer /\ rt'.socket = None
            /\ \A a \in Attempts : /\ attempts'[a].pc \in {"unused", "ended"}
                                   /\ ws'[a] \in {"none", "closing", "closed"}
            /\ queue' = <<>>]_vars

\* Every connect, disconnect and reconnect ends: none waits for another that
\* waits for it, and no handshake is forgotten.
OperationsEnd ==
    /\ (\E a \in Attempts : Active(a)) ~> (\A a \in Attempts : ~Active(a))
    /\ (disc.pc # "idle") ~> (disc.pc = "idle")
    /\ (rec.pc # "idle") ~> (rec.pc = "idle")

=============================================================================
