------------------------------- MODULE Tokens -------------------------------
(***************************************************************************)
(* The methods of OneTimeTokenStore (bridge/src/security.ts) as functions  *)
(* of its entries.  The gateway calls several of them in one callback.     *)
(*                                                                         *)
(* A token is named by the order in which it was issued (its random bytes  *)
(* and their digest are a fresh name).  All tokens of a store live equally *)
(* long, so they expire in that order, and the clock is "expired": the     *)
(* tokens 1..expired have reached their expiresAt.                         *)
(***************************************************************************)
EXTENDS Integers, FiniteSets

CONSTANT MaxEntries  \* #maxEntries

ASSUME TokensAssumption == MaxEntries \in Nat \ {0}

\* sweep
Fresh(es, expired) == {e \in es : e.token > expired}

Newest(es, n) == {e \in es : Cardinality({f \in es : f.token > e.token}) < n}

\* issue: sweep, evict down to one below the cap, then insert.
Issued(es, expired, token, grant) ==
    Newest(Fresh(es, expired), MaxEntries - 1) \cup {[token |-> token, grant |-> grant]}

\* consumeIf's answer: whether there is an entry for the token, it has not expired,
\* and its grant is among those that the predicate accepts.
Admits(es, expired, token, fitting) ==
    \E e \in Fresh(es, expired) : e.token = token /\ e.grant \in fitting

\* consumeIf's effect: a token goes when it admits or has expired.  A grant that
\* does not fit leaves it.
Consumed_OnMismatch(es, expired, token, fitting) == {e \in es : e.token # token}
Consumed_Peeks(es, expired, token, fitting) == Fresh(es, expired)
Consumed(es, expired, token, fitting) ==
    IF token <= expired \/ Admits(es, expired, token, fitting)
    THEN {e \in es : e.token # token}
    ELSE es

\* revokeAll
Revoked(es, grants) == {e \in es : e.grant \notin grants}
=============================================================================
