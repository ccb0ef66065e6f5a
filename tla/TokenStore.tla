----------------------------- MODULE TokenStore -----------------------------
(***************************************************************************)
(* A OneTimeTokenStore among callers who issue, present and revoke tokens  *)
(* in any order while they expire: what the pairing tokens and the resume  *)
(* tokens of the bridge rely on.  "admissions" and "revoked" record what   *)
(* the callers did and were answered.                                      *)
(***************************************************************************)
EXTENDS Tokens

CONSTANTS
    Grants,      \* what a token may stand for
    MaxIssued    \* bound of the model: tokens in a behaviour

ASSUME TokenStoreAssumption == MaxIssued \in Nat

VARIABLES
    entries,     \* #entries
    issued,      \* tokens issued so far
    expired,     \* the tokens 1..expired have expired
    admissions,  \* how often each token has admitted its holder
    revoked      \* tokens taken by revokeAll

storeVars == <<entries, issued, expired, admissions, revoked>>

StoreInit ==
    /\ entries = {} /\ issued = 0 /\ expired = 0
    /\ admissions = [t \in 1..MaxIssued |-> 0]
    /\ revoked = {}

Issue(grant) ==
    /\ issued < MaxIssued
    /\ entries' = Issued(entries, expired, issued + 1, grant)
    /\ issued' = issued + 1
    /\ UNCHANGED <<expired, admissions, revoked>>

\* consumeIf, with the grants that its predicate accepts.
Present(token, fitting) ==
    /\ entries' = Consumed(entries, expired, token, fitting)
    /\ admissions' = IF Admits(entries, expired, token, fitting)
                     THEN [admissions EXCEPT ![token] = @ + 1] ELSE admissions
    /\ UNCHANGED <<issued, expired, revoked>>

RevokeAll(grants) ==
    /\ entries' = Revoked(entries, grants)
    /\ revoked' = revoked \cup {e.token : e \in {x \in entries : x.grant \in grants}}
    /\ UNCHANGED <<issued, expired, admissions>>

Expires ==
    /\ expired < issued
    /\ expired' = expired + 1
    /\ UNCHANGED <<entries, issued, admissions, revoked>>

StoreNext ==
    \/ \E grant \in Grants : Issue(grant)
    \/ \E token \in 1..MaxIssued, fitting \in SUBSET Grants : Present(token, fitting)
    \/ \E grants \in SUBSET Grants : RevokeAll(grants)
    \/ Expires

StoreSpec == StoreInit /\ [][StoreNext]_storeVars

-----------------------------------------------------------------------------
(* Properties *)

\* "Expiring, and consumed once" (docs/bridge-protocol.md): no token ever admits two
\* holders, and none that was revoked admits anybody afterwards.
ConsumedOnce ==
    \A t \in 1..issued :
        /\ admissions[t] <= 1
        /\ admissions[t] = 1 \/ t \in revoked => \A e \in entries : e.token # t

\* A live token is never lost for another reason than use, revocation, expiry or the
\* issue of a capful of newer ones: presenting it with the wrong identity does not
\* spend it.
NoTokenLost ==
    \A t \in 1..issued :
        \/ \E e \in entries : e.token = t
        \/ admissions[t] = 1
        \/ t \in revoked
        \/ t <= expired
        \/ issued >= t + MaxEntries
=============================================================================
