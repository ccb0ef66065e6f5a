-------------------------- MODULE InvocationLedger --------------------------
(***************************************************************************)
(* What the bridge promises the MCP callers: "each forwarded request has   *)
(* one owner and one terminal state: result, error, cancellation, timeout, *)
(* or disconnect" (docs/architecture.md).  A ledger has one line per       *)
(* invocation.  A line is opened with its owner and the kind of result its *)
(* caller waits for, it is settled at most once, and it can be settled as  *)
(* a success only with an answer of the owner and of the awaited kind.     *)
(*                                                                         *)
(* Broker.tla is shown to implement this module.                           *)
(***************************************************************************)
EXTENDS Naturals, Sequences

CONSTANTS
    Connections,  \* browser connections, the owners of invocations
    Kinds         \* kinds of capability: tool, resource, prompt

VARIABLE
    ledger        \* the invocations, in the order they were forwarded

Failures == {"BROWSER_DISCONNECTED", "BROWSER_ERROR", "CANCELLED",
             "CONCURRENCY_LIMIT", "INVALID_MESSAGE", "TIMEOUT"}

Line(c, k, o) == [connection |-> c, kind |-> k, outcome |-> o, answer |-> {}]

Open == {i \in DOMAIN ledger : ledger[i].outcome = "pending"}

Init == ledger = <<>>

\* The only way a line changes: open lines become settled, all with one outcome.
Close(lines, outcome) ==
    /\ lines \subseteq Open
    /\ ledger' = [i \in DOMAIN ledger |->
                    IF i \in lines THEN [ledger[i] EXCEPT !.outcome = outcome]
                                   ELSE ledger[i]]

Forward(c, k) == ledger' = Append(ledger, Line(c, k, "pending"))

\* The browser could not be reached: the line is settled as it is opened.
Unreachable(c, k) == ledger' = Append(ledger, Line(c, k, "BROWSER_DISCONNECTED"))

Succeed(i) ==
    /\ i \in Open
    /\ ledger' = [ledger EXCEPT
                    ![i].outcome = "success",
                    ![i].answer = {[from |-> ledger[i].connection,
                                    kind |-> ledger[i].kind]}]

GiveUp(i, code) == i \in Open /\ Close({i}, code)

\* A lost owner takes all its open lines with it, and nobody else's.
LoseOwner(c) ==
    Close({i \in Open : ledger[i].connection = c}, "BROWSER_DISCONNECTED")

Stop == Close(Open, "BROWSER_DISCONNECTED")

Next ==
    \/ \E c \in Connections, k \in Kinds : Forward(c, k) \/ Unreachable(c, k)
    \/ \E i \in DOMAIN ledger : Succeed(i) \/ \E code \in Failures : GiveUp(i, code)
    \/ \E c \in Connections : LoseOwner(c)
    \/ Stop

Spec == Init /\ [][Next]_ledger
=============================================================================
