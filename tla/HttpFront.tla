----------------------------- MODULE HttpFront ------------------------------
(***************************************************************************)
(* What stands between an MCP client and the rest of the bridge: the       *)
(* routes and the slots of bridge/src/bridge.ts, the streamed answers and  *)
(* the coalesced notifications of bridge/src/mcp-endpoint.ts.              *)
(*                                                                         *)
(* The MCP SDK is external: fetch answers, and a stream ends, once the     *)
(* request has been aborted or the broker has settled it (Broker), and no  *)
(* chunk comes after the abort.                                            *)
(***************************************************************************)
EXTENDS Naturals, FiniteSets

CONSTANTS
    Exchanges,     \* HTTP requests of one behaviour
    Kinds,         \* of capabilities: the lists that change
    MaxConcurrent  \* maxConcurrentRequests

ASSUME FrontAssumption == MaxConcurrent \in Nat

VARIABLES
    exchange, \* each request: "none", "reading", "fetching", "streaming", "draining", "done"
    kind,     \* "call", "listen", or an operator's "decision"
    gone,     \* requests whose client has closed the connection
    slots,    \* activeHttpRequests
    queued,   \* pendingNotifications
    timer,    \* notificationTimer: "unset", "armed", or "fired" and not unset
    stale,    \* kinds that changed since the listeners were told
    closed    \* the endpoint's

http == <<exchange, kind, gone, slots>>
notes == <<queued, timer, stale>>
frontVars == <<http, notes, closed>>

FrontInit ==
    /\ exchange = [q \in Exchanges |-> "none"]
    /\ kind = [q \in Exchanges |-> "call"]
    /\ gone = {} /\ slots = 0
    /\ queued = {} /\ timer = "unset" /\ stale = {}
    /\ closed = FALSE

-----------------------------------------------------------------------------
(* Routes.                                                                  *)

\* A request as far as handleHttp tells it apart from another.
Targets == {"health", "mcp", "ui-session", "state", "pairing-requests", "pairing-tokens", "page"}
Heads == [host : BOOLEAN, form : BOOLEAN, target : Targets, method : {"GET", "POST", "OPTIONS"},
          origin : {"none", "self", "web", "opaque"}, bearer : BOOLEAN,
          cookie : {"none", "session", "csrf"}, oversize : BOOLEAN]

\* "session" is the cookie of a live session of the status page, "csrf" that
\* cookie with the session's CSRF token beside it.
Admin(h) == h.bearer \/ h.cookie # "none"
Mutation(h) == IF h.bearer \/ h.cookie = "csrf" THEN 200
               ELSE IF h.cookie = "none" THEN 401 ELSE 403
SelfOrigin(h) == h.origin \in {"none", "self"}

Health(h) ==
    CASE h.origin = "opaque" -> 403
      [] h.method = "OPTIONS" -> IF h.origin = "none" THEN 403 ELSE 204
      [] h.method = "GET" -> 200
      [] OTHER -> 405

\* The verdict on an MCP request before its body is read.
Mcp(h) ==
    CASE h.origin # "none" -> 403
      [] ~h.bearer -> 401
      [] h.method # "POST" -> 405
      [] h.oversize -> 413
      [] OTHER -> 200

Api(h) ==
    CASE h.target = "ui-session" /\ h.method = "POST" ->
            IF ~SelfOrigin(h) THEN 403 ELSE IF h.bearer THEN 200 ELSE 401
      [] h.target = "state" /\ h.method = "GET" ->
            IF ~SelfOrigin(h) THEN 403 ELSE IF Admin(h) THEN 200 ELSE 401
      [] h.target \in {"pairing-requests", "pairing-tokens"} /\ h.method = "POST" ->
            IF ~SelfOrigin(h) THEN 403 ELSE Mutation(h)
      [] h.target = "page" /\ h.method = "GET" -> 200
      [] OTHER -> 404

Route(h) ==
    CASE ~h.host -> 421
      [] ~h.form -> 400
      [] h.target = "health" -> Health(h)
      [] h.method = "OPTIONS" -> 403
      [] h.target = "mcp" -> Mcp(h)
      [] OTHER -> Api(h)

-----------------------------------------------------------------------------
(* Requests.                                                                *)

Goes(q, phase) == exchange' = [exchange EXCEPT ![q] = phase]

\* What the routes make of a request: its target and the status so far.
Verdicts == {[target |-> h.target, status |-> Route(h)] : h \in Heads}

\* What is answered at once keeps nothing; the others have a body to come.
Arrives(q, v) ==
    /\ exchange[q] = "none" /\ ~closed
    /\ IF v.status = 200 /\ v.target \in {"mcp", "pairing-requests", "pairing-tokens"}
       THEN /\ Goes(q, "reading")
            /\ kind' \in {[kind EXCEPT ![q] = k] :
                             k \in IF v.target = "mcp" THEN {"call", "listen"} ELSE {"decision"}}
       ELSE Goes(q, "done") /\ UNCHANGED kind
    /\ UNCHANGED <<gone, slots, notes, closed>>

\* Slip: the limit is looked at when the request arrives, and counted later.
HasRoom_Stale(q) == TRUE
HasRoom(q) == slots < MaxConcurrent
Counts(q) == kind[q] = "call"

\* Anything but "subscriptions/listen" takes a slot, in the step that looks
\* at the limit; a body that is too large or no JSON ends the request.
BodyRead(q, fits) ==
    /\ exchange[q] = "reading"
    /\ IF fits /\ kind[q] # "decision" /\ (Counts(q) => HasRoom(q))
       THEN Goes(q, "fetching") /\ slots' = IF Counts(q) THEN slots + 1 ELSE slots
       ELSE Goes(q, "done") /\ UNCHANGED slots
    /\ UNCHANGED <<kind, gone, notes, closed>>

\* handle's and handleMcp's finally.
Ended(q) ==
    /\ Goes(q, "done")
    /\ slots' = IF Counts(q) THEN slots - 1 ELSE slots

\* The SDK answers, with a body or without one; aborted, there is no reading.
Fetched(q, body) ==
    /\ exchange[q] = "fetching"
    /\ IF body /\ q \notin gone THEN Goes(q, "streaming") /\ UNCHANGED slots ELSE Ended(q)
    /\ UNCHANGED <<kind, gone, notes, closed>>

Chunk(q, accepted) ==
    /\ exchange[q] = "streaming" /\ q \notin gone
    /\ Goes(q, IF accepted THEN "streaming" ELSE "draining")
    /\ UNCHANGED <<kind, gone, slots, notes, closed>>

StreamEnds(q) ==
    /\ exchange[q] = "streaming"
    /\ Ended(q)
    /\ UNCHANGED <<kind, gone, notes, closed>>

\* The drain, or the close of the connection, ends the wait.
Drained(q) ==
    /\ exchange[q] = "draining"
    /\ IF q \in gone THEN Ended(q) ELSE Goes(q, "streaming") /\ UNCHANGED slots
    /\ UNCHANGED <<kind, gone, notes, closed>>

ClientCloses(q) ==
    /\ exchange[q] \notin {"none", "done"} /\ q \notin gone
    /\ gone' = gone \cup {q}
    /\ UNCHANGED <<exchange, kind, slots, notes, closed>>

-----------------------------------------------------------------------------
(* Notifications.                                                           *)

\* queueNotification, on an event of the registry (Registry's announced).
Changed(k) ==
    /\ stale' = stale \cup {k}
    /\ IF closed THEN UNCHANGED <<queued, timer>>
       ELSE /\ queued' = queued \cup {k}
            /\ timer' = IF timer = "unset" THEN "armed" ELSE timer
    /\ UNCHANGED <<http, closed>>

\* Slip: the timer that has fired stays set.
Afterwards_Set == "fired"
Afterwards == "unset"
NotificationTimer ==
    /\ timer = "armed" /\ timer' = Afterwards
    /\ queued' = {} /\ stale' = stale \ queued
    /\ UNCHANGED <<http, closed>>

\* close; the SDK ends its streams.
Close ==
    /\ ~closed /\ closed' = TRUE
    /\ queued' = {} /\ timer' = "unset"
    /\ UNCHANGED <<http, stale>>

-----------------------------------------------------------------------------
Serves(q) ==
    \/ \E body \in BOOLEAN : Fetched(q, body)
    \/ q \in gone /\ (Drained(q) \/ StreamEnds(q))

FrontNext ==
    \/ \E q \in Exchanges :
         \/ \E v \in Verdicts : Arrives(q, v)
         \/ \E fits \in BOOLEAN : BodyRead(q, fits)
         \/ \E accepted \in BOOLEAN : Chunk(q, accepted)
         \/ Serves(q) \/ StreamEnds(q) \/ Drained(q) \/ ClientCloses(q)
    \/ \E k \in Kinds : Changed(k)
    \/ NotificationTimer \/ Close

FrontSpec == FrontInit /\ [][FrontNext]_frontVars

\* The SDK ends what has been aborted; the timer fires.  A client that reads
\* nothing and stays keeps its slot (server.timeout is 0).
FrontFairness ==
    /\ \A q \in Exchanges : WF_frontVars(q \in gone /\ Serves(q))
    /\ WF_frontVars(NotificationTimer)

-----------------------------------------------------------------------------
(* Properties.                                                              *)

\* The counter of concurrent requests is exact and within its limit although
\* a body was awaited before, and whichever way the answer ends.
SlotsExact ==
    /\ slots = Cardinality({q \in Exchanges :
                              Counts(q) /\ exchange[q] \in {"fetching", "streaming", "draining"}})
    /\ slots <= MaxConcurrent

\* A client that has gone gives its slot back, even while its answer waits
\* for the socket to drain, and listeners are told of every change that they
\* have not been told of.
FrontProgress ==
    /\ \A q \in Exchanges :
         (q \in gone /\ exchange[q] \in {"fetching", "streaming", "draining"})
             ~> (exchange[q] = "done")
    /\ \A k \in Kinds : (k \in stale) ~> (k \notin stale \/ closed)

=============================================================================
