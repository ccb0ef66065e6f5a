------------------------------- MODULE Broker -------------------------------
(***************************************************************************)
(* The bridge's invocation broker (bridge/src/broker.ts) with the list of  *)
(* recent requests it keeps for the state page (recent-requests.ts).       *)
(*                                                                         *)
(* An MCP caller's request becomes an invocation: an entry of #pending, a  *)
(* slot of its connection's count in #activeByConnection, a timer, and an  *)
(* "invoke" message to the browser.  A result, an error, a cancellation by *)
(* either side, the timer, the loss of the connection and the stop of the  *)
(* bridge race to settle it.  When the bridge gives up first, it tells the *)
(* browser and leaves a tombstone that absorbs the one late answer.        *)
(*                                                                         *)
(* Each action is one run-to-completion callback of the event loop.        *)
(* An invocation's id is its position in "calls" (randomUUID is a fresh    *)
(* name).  An invocation that "invoke" refuses before it has an id changes *)
(* no state and is not a step.                                             *)
(***************************************************************************)
EXTENDS Integers, Sequences, FiniteSets

CONSTANTS
    Connections,      \* browser connections; an id is never used again
    Kinds,            \* "tool", "resource", "prompt"
    BrowserErrors,    \* error codes browsers report for an invocation
    MaxConcurrent,    \* limits.maxConcurrentRequests
    MaxPerRuntime,    \* limits.maxConcurrentRequestsPerRuntime
    MaxTombstones,    \* #maxCancelledTombstones
    RecentLimit,      \* RecentRequestStore's limit
    RequestTimeout,   \* limits.browserRequestTimeoutMs, in ticks of "now"
    MaxInvocations,   \* bound of the model: invocations in a behaviour
    MaxTime           \* bound of the model: ticks in a behaviour

ASSUME BrokerAssumption ==
    /\ MaxConcurrent \in Nat \ {0}
    /\ MaxPerRuntime \in Nat \ {0}
    /\ MaxTombstones \in Nat \ {0}
    /\ RecentLimit \in Nat \ {0}
    /\ RequestTimeout \in Nat \ {0}
    /\ MaxInvocations \in Nat
    /\ MaxTime \in Nat

VARIABLES
    now,        \* the clock
    link,       \* the sockets, as BrowserSender.send sees them
    calls,      \* every invocation made: its provider's connection, the kind its
                \* caller expects, its deadline, and what its promise settled to
    pending,    \* keys of #pending
    active,     \* #activeByConnection; an absent key is 0
    cancelled,  \* #cancelled: the tombstones
    cancels,    \* tombstones made so far: gives #cancelled its insertion order
    recent      \* RecentRequestStore: outcome of the newest requests

requests == <<calls, pending, active, recent>>
tombstones == <<cancelled, cancels>>
vars == <<now, link, requests, tombstones>>

Invocations == 1..MaxInvocations
Failures == {"BROWSER_DISCONNECTED", "BROWSER_ERROR", "CANCELLED",
             "CONCURRENCY_LIMIT", "INVALID_MESSAGE", "TIMEOUT"}
Outcomes == {"pending", "success"} \cup Failures
RequestOutcomes == {"cancelled", "error", "pending", "success", "timeout"}

Call == [connection : Connections, kind : Kinds, deadline : Nat,
         outcome : Outcomes, answer : SUBSET [from : Connections, kind : Kinds]]
TombstoneRecord == [id : Nat, connection : Connections, expiresAt : Nat, order : Nat]

\* The pending invocations of a connection.
Owned(c) == {i \in pending : calls[i].connection = c}

(***************************************************************************)
(* Conversions                                                             *)
(***************************************************************************)

\* The bridge's code for an error the browser reports.
ErrorFromBrowser(code) ==
    CASE code = "INVOCATION_TIMEOUT"   -> "TIMEOUT"
      [] code = "INVOCATION_CANCELLED" -> "CANCELLED"
      [] code = "RATE_LIMITED"         -> "CONCURRENCY_LIMIT"
      [] code \in {"CONNECTION_CLOSED", "SESSION_EXPIRED"} -> "BROWSER_DISCONNECTED"
      [] OTHER -> "BROWSER_ERROR"

\* How a settled promise is shown among the recent requests.
OutcomeFor(code) ==
    CASE code = "success"   -> "success"
      [] code = "CANCELLED" -> "cancelled"
      [] code = "TIMEOUT"   -> "timeout"
      [] OTHER -> "error"

(***************************************************************************)
(* Bounded, insertion-ordered maps                                         *)
(***************************************************************************)

\* The n newest tombstones of S: "while (size >= limit) delete the oldest".
Newest_KeepsOneTooMany(S, n) ==
    {t \in S : Cardinality({u \in S : u.order > t.order}) <= n}
Newest(S, n) == {t \in S : Cardinality({u \in S : u.order > t.order}) < n}

\* sweepCancellations: tombstones that have expired are dropped.
Swept == {t \in cancelled : t.expiresAt > now}

\* RecentRequestStore.start: the newest RecentLimit requests stay listed.
Started_KeepsPending(i, outcome) ==
    [j \in {k \in DOMAIN recent : k + RecentLimit > i} \cup {i} |->
        IF j = i THEN "pending" ELSE recent[j]]
Started(i, outcome) ==
    [j \in {k \in DOMAIN recent : k + RecentLimit > i} \cup {i} |->
        IF j = i THEN outcome ELSE recent[j]]

\* RecentRequestStore.finish: only an entry that is still pending is updated.
Finished(ids, outcome) ==
    [j \in DOMAIN recent |->
        IF j \in ids /\ recent[j] = "pending" THEN outcome ELSE recent[j]]

(***************************************************************************)
(* Settling                                                                *)
(***************************************************************************)

\* cleanup's decrement, once for each invocation of ids that c owns.
Released_AtMostOne(c, ids) ==
    IF active[c] > 0 /\ \E i \in ids : calls[i].connection = c
    THEN active[c] - 1 ELSE active[c]
Released(c, ids) ==
    LET left == active[c] - Cardinality({i \in ids : calls[i].connection = c})
    IN  IF left < 0 THEN 0 ELSE left

\* cleanup, recent.finish and the promise of every invocation of ids.
Settle(ids, code, answer) ==
    /\ calls' = [i \in DOMAIN calls |->
                    IF i \in ids
                    THEN [calls[i] EXCEPT !.outcome = code, !.answer = answer]
                    ELSE calls[i]]
    /\ pending' = pending \ ids
    /\ active' = [c \in Connections |-> Released(c, ids)]
    /\ recent' = Finished(ids, OutcomeFor(code))

\* fail without notice to the browser.
Fail(i, code) == Settle({i}, code, {}) /\ UNCHANGED tombstones

\* fail with notice: the tombstone first, then the same clean-up.
FailAndNotify(i, code) ==
    /\ cancelled' = Newest(Swept, MaxTombstones - 1)
                      \cup {[id |-> i, connection |-> calls[i].connection,
                             expiresAt |-> now + RequestTimeout,
                             order |-> cancels + 1]}
    /\ cancels' = cancels + 1
    /\ Settle({i}, code, {})

(***************************************************************************)
(* invoke                                                                  *)
(***************************************************************************)

\* The two limits, and the bounds of the model.
HasCapacity_GlobalOnly(c) ==
    /\ Cardinality(pending) < MaxConcurrent
    /\ Len(calls) < MaxInvocations /\ now + RequestTimeout <= MaxTime
HasCapacity(c) ==
    /\ Cardinality(pending) < MaxConcurrent
    /\ active[c] < MaxPerRuntime
    /\ Len(calls) < MaxInvocations /\ now + RequestTimeout <= MaxTime

NewCall(c, k, outcome) ==
    [connection |-> c, kind |-> k, deadline |-> now + RequestTimeout,
     outcome |-> outcome, answer |-> {}]

InvokeSent(c, k) ==
    /\ HasCapacity(c)
    /\ link[c] = "open"
    /\ calls' = Append(calls, NewCall(c, k, "pending"))
    /\ pending' = pending \cup {Len(calls) + 1}
    /\ active' = [active EXCEPT ![c] = @ + 1]
    /\ recent' = Started(Len(calls) + 1, "pending")
    /\ UNCHANGED tombstones

InvokeUnsent_KeepsEntry(c, k) ==
    /\ HasCapacity(c)
    /\ calls' = Append(calls, NewCall(c, k, "BROWSER_DISCONNECTED"))
    /\ pending' = pending \cup {Len(calls) + 1}
    /\ active' = [active EXCEPT ![c] = @ + 1]
    /\ recent' = Started(Len(calls) + 1, OutcomeFor("BROWSER_DISCONNECTED"))
    /\ UNCHANGED tombstones

\* The socket is not open, the message is too large for it (then send also closes
\* it), or send throws: the slot that was just taken is given back and the caller's
\* promise is rejected.
InvokeUnsent(c, k) ==
    /\ HasCapacity(c)
    /\ calls' = Append(calls, NewCall(c, k, "BROWSER_DISCONNECTED"))
    /\ recent' = Started(Len(calls) + 1, OutcomeFor("BROWSER_DISCONNECTED"))
    /\ UNCHANGED <<pending, active, tombstones>>

(***************************************************************************)
(* The timer and the caller's abort signal                                 *)
(***************************************************************************)

TimerDue_Never(i) == calls[i].deadline > MaxTime
TimerDue(i) == calls[i].deadline <= now

TimerFires(i) == i \in pending /\ TimerDue(i) /\ FailAndNotify(i, "TIMEOUT")

Abort(i) == i \in pending /\ FailAndNotify(i, "CANCELLED")

(***************************************************************************)
(* Messages of the browser on connection c about invocation i              *)
(***************************************************************************)

Mine_EvenSettled(c, i) == i \in DOMAIN calls /\ calls[i].connection = c
Mine_AnyConnection(c, i) == i \in pending
Mine(c, i) == i \in pending /\ calls[i].connection = c

Result(c, i, k) ==
    /\ Mine(c, i)
    /\ IF k = calls[i].kind
       THEN Settle({i}, "success", {[from |-> c, kind |-> k]}) /\ UNCHANGED tombstones
       ELSE Fail(i, "INVALID_MESSAGE")

Error_Notifies(c, i, code) == Mine(c, i) /\ FailAndNotify(i, ErrorFromBrowser(code))
Error(c, i, code) == Mine(c, i) /\ Fail(i, ErrorFromBrowser(code))

CancelFromBrowser(c, i) == Mine(c, i) /\ Fail(i, "CANCELLED")

\* consumeCancellation: any of the three messages for an invocation that is not
\* pending.  It is absorbed by a tombstone or answered with INVOCATION_NOT_FOUND.
LateMessage(c, i) ==
    /\ i \notin pending
    /\ cancelled' = {t \in Swept : ~(t.id = i /\ t.connection = c)}
    /\ UNCHANGED <<requests, cancels>>

(***************************************************************************)
(* disconnect and close                                                    *)
(***************************************************************************)

TombstonesWithout(c) == {t \in cancelled : t.connection # c}

Disconnect(c) ==
    /\ Settle(Owned(c), "BROWSER_DISCONNECTED", {})
    /\ cancelled' = TombstonesWithout(c)
    /\ UNCHANGED cancels

Close ==
    /\ Settle(pending, "BROWSER_DISCONNECTED", {})
    /\ cancelled' = {}
    /\ UNCHANGED cancels

(***************************************************************************)
(* The broker among its callers, its sockets and the clock.  A socket goes *)
(* from open to closing (send fails from then on) to closed, and still     *)
(* delivers messages while it is closing.                                  *)
(***************************************************************************)

Closing(cs) ==
    [c \in Connections |-> IF c \in cs /\ link[c] = "open" THEN "closing" ELSE link[c]]

Init ==
    /\ now = 0
    /\ link = [c \in Connections |-> "open"]
    /\ calls = <<>>
    /\ pending = {}
    /\ active = [c \in Connections |-> 0]
    /\ cancelled = {}
    /\ cancels = 0
    /\ recent = <<>>

Tick ==
    /\ now < MaxTime
    /\ now' = now + 1
    /\ UNCHANGED <<link, requests, tombstones>>

\* One callback may close several sockets: the heartbeat does.
SocketsClose(cs) ==
    /\ cs # {} /\ \A c \in cs : link[c] = "open"
    /\ link' = Closing(cs)
    /\ UNCHANGED <<now, requests, tombstones>>

SocketClosed(c) ==
    /\ link[c] # "closed"
    /\ link' = [link EXCEPT ![c] = "closed"]
    /\ Disconnect(c)
    /\ UNCHANGED now

BridgeStops ==
    /\ link' = Closing(Connections)
    /\ Close
    /\ UNCHANGED now

Invoke(c, k) ==
    /\ \/ InvokeSent(c, k) /\ UNCHANGED link
       \/ InvokeUnsent(c, k) /\ link' \in {link, Closing({c})}
    /\ UNCHANGED now

GiveUp(i) == (TimerFires(i) \/ Abort(i)) /\ UNCHANGED <<now, link>>

Message(c, i) ==
    /\ link[c] # "closed"
    /\ \/ \E k \in Kinds : Result(c, i, k)
       \/ \E code \in BrowserErrors : Error(c, i, code)
       \/ CancelFromBrowser(c, i)
       \/ LateMessage(c, i)
    /\ UNCHANGED <<now, link>>

Next ==
    \/ Tick
    \/ \E c \in Connections, k \in Kinds : Invoke(c, k)
    \/ \E i \in Invocations : GiveUp(i)
    \/ \E c \in Connections, i \in Invocations : Message(c, i)
    \/ \E cs \in SUBSET Connections : SocketsClose(cs)
    \/ \E c \in Connections : SocketClosed(c)
    \/ BridgeStops

Spec == Init /\ [][Next]_vars

\* Time passes and Node runs a timer that is due; callers, browsers and sockets
\* owe the broker nothing.
FairSpec ==
    /\ Spec
    /\ WF_vars(Tick)
    /\ \A i \in Invocations : WF_vars(TimerFires(i) /\ UNCHANGED <<now, link>>)

(***************************************************************************)
(* Properties                                                              *)
(***************************************************************************)

\* Every variable has its type, and the two bounded maps keep their bounds:
\* #cancelled stays within its cap, the recent list within its limit.
TypeOK ==
    /\ now \in Nat
    /\ link \in [Connections -> {"open", "closing", "closed"}]
    /\ calls \in Seq(Call)
    /\ pending \subseteq DOMAIN calls
    /\ active \in [Connections -> Nat]
    /\ cancelled \subseteq TombstoneRecord
    /\ Cardinality(cancelled) <= MaxTombstones
    /\ cancels \in Nat
    /\ DOMAIN recent \subseteq DOMAIN calls
    /\ Cardinality(DOMAIN recent) <= RecentLimit
    /\ \A i \in DOMAIN recent : recent[i] \in RequestOutcomes

\* The counter that enforces the per-runtime limit never drifts from the number
\* of requests that are really pending on the connection, whatever the order in
\* which results, timers, aborts and disconnects settle them.
ActiveMatchesPending == \A c \in Connections : active[c] = Cardinality(Owned(c))

\* The limits hold of the requests that are pending, not just of the counters.
CapacityRespected ==
    /\ Cardinality(pending) <= MaxConcurrent
    /\ \A c \in Connections : Cardinality(Owned(c)) <= MaxPerRuntime

\* No caller is left waiting on a promise that has no entry in #pending (nothing
\* would ever settle it), and no entry survives its promise.
PendingIffUnsettled ==
    pending = {i \in DOMAIN calls : calls[i].outcome = "pending"}

\* "A late, duplicate, cross-connection, or wrong-kind result ... cannot resolve
\* another caller's request" (docs/bridge-protocol.md): a call succeeds exactly
\* when it holds one answer, of the kind it waits for, from the connection that
\* it was sent to.
AnswerIsOwners ==
    \A i \in DOMAIN calls :
        calls[i].answer =
            IF calls[i].outcome = "success"
            THEN {[from |-> calls[i].connection, kind |-> calls[i].kind]}
            ELSE {}

\* A tombstone stands for one invocation that the bridge gave up: settled, on the
\* connection it was sent to, and never two for the same one.  It cannot swallow
\* the answer of a call that is still waiting, and a closed connection leaves none,
\* as it leaves no pending request and no slot taken.
TombstonesSound ==
    /\ \A t \in cancelled :
        /\ t.id \in DOMAIN calls
        /\ calls[t.id].outcome \in {"TIMEOUT", "CANCELLED"}
        /\ t.connection = calls[t.id].connection
    /\ \A t, u \in cancelled : t.id = u.id \/ t.order = u.order => t = u
    /\ \A c \in Connections :
        link[c] = "closed" =>
            Owned(c) = {} /\ active[c] = 0 /\ \A t \in cancelled : t.connection # c

\* The state page agrees with what callers were told, for the newest requests:
\* none of them is missing, and an entry reads "pending" only while its caller waits.
RecentAgrees ==
    /\ DOMAIN recent = {i \in DOMAIN calls : i + RecentLimit > Len(calls)}
    /\ \A i \in DOMAIN recent :
        recent[i] = IF i \in pending THEN "pending" ELSE OutcomeFor(calls[i].outcome)

\* The broker implements the ledger: one owner, one terminal state, and only the
\* owner's lines lost with it.
LedgerView ==
    [i \in DOMAIN calls |->
        [connection |-> calls[i].connection, kind |-> calls[i].kind,
         outcome |-> calls[i].outcome, answer |-> calls[i].answer]]
Ledger == INSTANCE InvocationLedger WITH ledger <- LedgerView
ImplementsLedger == Ledger!Spec

\* Every invocation settles, even if its browser and its caller do nothing more.
EveryCallSettles == \A i \in Invocations : (i \in pending) ~> (i \notin pending)
=============================================================================
