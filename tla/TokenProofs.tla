----------------------------- MODULE TokenProofs -----------------------------
(***************************************************************************)
(* Proofs about Tokens and TokenStore.  The first part is about the        *)
(* methods of one store as functions of its entries: which entries each    *)
(* of them leaves, and why the cap only ever costs the oldest.  The second *)
(* is about a store among its callers.                                     *)
(***************************************************************************)
EXTENDS TokenStore, FiniteSetTheorems, TLAPS

\* What the entries of a store look like: tokens up to the last one issued, each once.
Numbered(es, last) ==
    /\ \A e \in es : e.token \in 1..last
    /\ \A e, f \in es : e.token = f.token => e = f

\* There are at most as many entries newer than a token as tokens issued after it.
LEMMA NewerBound ==
    ASSUME NEW es, NEW last \in Nat, Numbered(es, last), NEW t \in Nat, t <= last
    PROVE  LET newer == {f \in es : f.token > t}
           IN  /\ IsFiniteSet(newer)
               /\ Cardinality(newer) \in Nat
               /\ Cardinality(newer) <= last - t
<1> DEFINE newer == {f \in es : f.token > t}
           tokens == (t + 1)..last
           token == [f \in newer |-> f.token]
<1>1. IsFiniteSet(tokens) /\ Cardinality(tokens) = last - t
  <2>1. t + 1 \in Int /\ last \in Int
    OBVIOUS
  <2>2. IsFiniteSet(tokens)
        /\ Cardinality(tokens) = IF t + 1 > last THEN 0 ELSE last - (t + 1) + 1
    BY <2>1, FS_Interval
  <2>. QED  BY <2>2
<1>2. token \in Injection(newer, tokens)
  <2>1. \A f \in newer : f.token \in tokens
    BY DEF Numbered
  <2>2. \A e, f \in newer : token[e] = token[f] => e = f
    BY DEF Numbered
  <2>. QED  BY <2>1, <2>2 DEF Injection, IsInjective
<1>. HIDE DEF newer, tokens, token
<1>3. IsFiniteSet(newer) /\ Cardinality(newer) <= Cardinality(tokens)
  BY <1>1, <1>2, FS_Injection
<1>. QED  BY <1>1, <1>3, FS_CardinalityType DEF newer
\* issue adds the token and keeps the store numbered.  What it drops has expired, or
\* has been followed by a capful of tokens.
LEMMA Issuing ==
    ASSUME TokensAssumption, NEW es, NEW last \in Nat, Numbered(es, last),
           NEW now \in Nat, NEW grant
    PROVE  LET left == Issued(es, now, last + 1, grant)
           IN  /\ Numbered(left, last + 1)
               /\ left \subseteq es \cup {[token |-> last + 1, grant |-> grant]}
               /\ [token |-> last + 1, grant |-> grant] \in left
               /\ \A e \in es : e \in left \/ e.token <= now \/ last + 1 >= e.token + MaxEntries
<1> DEFINE left == Issued(es, now, last + 1, grant)
           new == [token |-> last + 1, grant |-> grant]
           kept == Newest(Fresh(es, now), MaxEntries - 1)
<1>1. left = kept \cup {new} /\ kept \subseteq es
  BY DEF Issued, Newest, Fresh
<1>2. new.token = last + 1
  OBVIOUS
<1>3. ASSUME NEW e \in es
      PROVE  e \in kept \/ e.token <= now \/ last + 1 >= e.token + MaxEntries
  <2> DEFINE fresh == Fresh(es, now)
             newer == {f \in fresh : f.token > e.token}
  <2>1. e.token \in Nat /\ e.token <= last
    BY DEF Numbered
  <2>2. CASE ~(e.token > now)
    BY <2>1, <2>2
  <2>3. CASE e.token > now
    <3>1. e \in fresh
      BY <2>3 DEF Fresh
    <3>2. Numbered(fresh, last)
      BY DEF Numbered, Fresh
    <3>. HIDE DEF fresh
    <3>3. Cardinality(newer) \in Nat /\ Cardinality(newer) <= last - e.token
      BY <2>1, <3>2, NewerBound
    <3>4. e \in kept <=> Cardinality(newer) < MaxEntries - 1
      BY <3>1 DEF Newest, fresh
    <3>. HIDE DEF newer, kept
    <3>. QED  BY <2>1, <3>3, <3>4 DEF TokensAssumption
  <2>. QED  BY <2>2, <2>3
<1>. HIDE DEF kept, new
<1>4. Numbered(left, last + 1)
  BY <1>1, <1>2 DEF Numbered
<1>. HIDE DEF left
<1>5. \A e \in es : e \in left \/ e.token <= now \/ last + 1 >= e.token + MaxEntries
  BY <1>1, <1>3
<1>. QED  BY <1>1, <1>4, <1>5 DEF left, new

\* Fewer entries are still numbered.
LEMMA FewerNumbered ==
    ASSUME NEW es, NEW last, Numbered(es, last), NEW left, left \subseteq es
    PROVE  Numbered(left, last)
  BY DEF Numbered

\* consumeIf takes at most the token that was presented, and only when it has expired
\* or its grant fits.
LEMMA Consuming ==
    ASSUME NEW es, NEW last \in Nat, Numbered(es, last),
           NEW now \in Nat, NEW token, NEW fitting
    PROVE  /\ Consumed(es, now, token, fitting) \subseteq es
           /\ \A e \in es \ Consumed(es, now, token, fitting) :
                e.token = token /\ (token <= now \/ e.grant \in fitting)
           /\ Admits(es, now, token, fitting) =>
                \A e \in Consumed(es, now, token, fitting) : e.token # token
  BY DEF Consumed, Admits, Fresh, Numbered

-----------------------------------------------------------------------------
(* A store among its callers. *)

\* The store is numbered by what has been issued, and nothing is known of a token
\* before it is issued.
StoreInv ==
    /\ issued \in 0..MaxIssued
    /\ expired \in 0..issued
    /\ Numbered(entries, issued)
    /\ admissions \in [1..MaxIssued -> Nat]
    /\ revoked \subseteq 1..issued
    /\ \A t \in 1..MaxIssued : t > issued => admissions[t] = 0
    /\ ConsumedOnce
    /\ NoTokenLost

LEMMA InitStoreInv == TokenStoreAssumption /\ StoreInit => StoreInv
  BY DEF TokenStoreAssumption, StoreInit, StoreInv, Numbered, ConsumedOnce, NoTokenLost

LEMMA IssueStep ==
    ASSUME TokensAssumption, TokenStoreAssumption, StoreInv, NEW grant, Issue(grant)
    PROVE  StoreInv'
<1>1. /\ issued \in Nat /\ issued < MaxIssued /\ issued' = issued + 1
      /\ expired \in Nat /\ expired <= issued
      /\ Numbered(entries, issued)
      /\ UNCHANGED <<expired, admissions, revoked>>
  BY DEF Issue, StoreInv, TokenStoreAssumption
<1> DEFINE new == [token |-> issued + 1, grant |-> grant]
<1>2. entries' = Issued(entries, expired, issued + 1, grant)
  BY DEF Issue
<1>3. /\ Numbered(entries', issued')
      /\ entries' \subseteq entries \cup {new}
      /\ new \in entries'
      /\ \A e \in entries :
            e \in entries' \/ e.token <= expired \/ issued + 1 >= e.token + MaxEntries
  BY <1>1, <1>2, Issuing
<1>4. new.token = issued + 1
  OBVIOUS
<1>. HIDE DEF new
<1>5. ConsumedOnce'
  <2>. SUFFICES ASSUME NEW t \in 1..issued'
                PROVE  /\ admissions'[t] <= 1
                       /\ admissions'[t] = 1 \/ t \in revoked' => \A e \in entries' : e.token # t
    BY DEF ConsumedOnce
  <2>1. CASE t \in 1..issued
    BY <1>1, <1>3, <1>4, <2>1 DEF StoreInv, ConsumedOnce
  <2>2. CASE t = issued + 1
    BY <1>1, <2>2 DEF StoreInv
  <2>. QED  BY <1>1, <2>1, <2>2
<1>6. NoTokenLost'
  <2>. SUFFICES ASSUME NEW t \in 1..issued'
                PROVE  \/ \E e \in entries' : e.token = t
                       \/ admissions'[t] = 1 \/ t \in revoked'
                       \/ t <= expired' \/ issued' >= t + MaxEntries
    BY DEF NoTokenLost
  <2>1. CASE t = issued + 1
    BY <1>3, <1>4, <2>1
  <2>2. CASE t \in 1..issued
    <3>1. \/ \E e \in entries : e.token = t
          \/ admissions[t] = 1 \/ t \in revoked
          \/ t <= expired \/ issued >= t + MaxEntries
      BY <2>2 DEF StoreInv, NoTokenLost
    <3>2. CASE \E e \in entries : e.token = t
      BY <1>1, <1>3, <3>2
    <3>3. CASE issued >= t + MaxEntries
      BY <1>1, <2>2, <3>3 DEF TokensAssumption
    <3>. QED  BY <1>1, <3>1, <3>2, <3>3
  <2>. QED  BY <1>1, <2>1, <2>2
<1>. QED  BY <1>1, <1>3, <1>5, <1>6 DEF StoreInv, TokenStoreAssumption

LEMMA PresentStep ==
    ASSUME TokenStoreAssumption, StoreInv,
           NEW token \in 1..MaxIssued, NEW fitting, Present(token, fitting)
    PROVE  StoreInv'
<1>1. /\ issued \in Nat /\ issued <= MaxIssued /\ expired \in Nat
      /\ Numbered(entries, issued)
      /\ UNCHANGED <<issued, expired, revoked>>
  BY DEF Present, StoreInv, TokenStoreAssumption
<1>2. entries' = Consumed(entries, expired, token, fitting)
  BY DEF Present
<1>3. /\ entries' \subseteq entries
      /\ \A e \in entries \ entries' :
            e.token = token /\ (token <= expired \/ e.grant \in fitting)
      /\ Admits(entries, expired, token, fitting) => \A e \in entries' : e.token # token
  BY <1>1, <1>2, Consuming
<1>4. CASE Admits(entries, expired, token, fitting)
  <2>1. PICK e \in entries : e.token = token
    BY <1>4 DEF Admits, Fresh
  <2>2. token \in 1..issued /\ admissions[token] = 0
    <3>1. token \in 1..issued /\ admissions[token] \in Nat
      BY <1>1, <2>1 DEF StoreInv, Numbered
    <3>. QED  BY <2>1, <3>1 DEF StoreInv, ConsumedOnce
  <2>3. admissions' = [admissions EXCEPT ![token] = @ + 1]
    BY <1>4 DEF Present
  <2>4. /\ admissions' \in [1..MaxIssued -> Nat]
        /\ admissions'[token] = 1
        /\ \A t \in 1..MaxIssued : t # token => admissions'[t] = admissions[t]
    BY <2>2, <2>3 DEF StoreInv
  <2>5. ConsumedOnce'
    BY <1>1, <1>3, <1>4, <2>4 DEF StoreInv, ConsumedOnce
  <2>6. NoTokenLost'
    <3>1. ASSUME NEW t \in 1..issued
          PROVE  \/ \E x \in entries' : x.token = t
                 \/ admissions'[t] = 1 \/ t \in revoked'
                 \/ t <= expired \/ issued >= t + MaxEntries
      <4>1. CASE t = token
        BY <2>4, <4>1
      <4>2. CASE t # token
        <5>1. admissions'[t] = admissions[t]
          BY <1>1, <2>4, <4>2
        <5>2. \A x \in entries : x.token = t => x \in entries'
          BY <1>3, <4>2
        <5>. QED  BY <1>1, <5>1, <5>2 DEF StoreInv, NoTokenLost
      <4>. QED  BY <4>1, <4>2
    <3>. QED  BY <1>1, <3>1 DEF NoTokenLost
  <2>7. Numbered(entries', issued')
    BY <1>1, <1>3, FewerNumbered
  <2>. QED  BY <1>1, <2>2, <2>4, <2>5, <2>6, <2>7 DEF StoreInv
<1>5. CASE ~Admits(entries, expired, token, fitting)
  <2>1. admissions' = admissions
    BY <1>5 DEF Present
  <2>2. ConsumedOnce'
    BY <1>1, <1>3, <2>1 DEF StoreInv, ConsumedOnce
  <2>3. \A e \in entries \ entries' : e.token <= expired
    BY <1>2, <1>5 DEF Consumed
  <2>4. NoTokenLost'
    BY <1>1, <2>1, <2>3 DEF StoreInv, NoTokenLost
  <2>5. Numbered(entries', issued')
    BY <1>1, <1>3, FewerNumbered
  <2>. QED  BY <1>1, <2>1, <2>2, <2>4, <2>5 DEF StoreInv
<1>. QED  BY <1>4, <1>5

LEMMA RevokeStep ==
    ASSUME StoreInv, NEW grants, RevokeAll(grants)
    PROVE  StoreInv'
<1>1. /\ entries' \subseteq entries /\ revoked \subseteq revoked'
      /\ \A e \in entries \ entries' : e.token \in revoked'
      /\ UNCHANGED <<issued, expired, admissions>>
  BY DEF RevokeAll, Revoked
<1>2. Numbered(entries, issued) /\ Numbered(entries', issued')
  BY <1>1, FewerNumbered DEF StoreInv
<1>3. \A t \in revoked' \ revoked : \A e \in entries' : e.token # t
  BY <1>2 DEF RevokeAll, Revoked, Numbered
<1>4. ASSUME NEW t \in revoked' PROVE t \in 1..issued
  <2>1. t \in revoked \/ \E e \in entries : e.token = t
    BY DEF RevokeAll
  <2>. QED  BY <1>2, <2>1 DEF Numbered, StoreInv
<1>5. ConsumedOnce'
  BY <1>1, <1>3 DEF StoreInv, ConsumedOnce
<1>6. NoTokenLost'
  BY <1>1 DEF StoreInv, NoTokenLost
<1>. QED  BY <1>1, <1>2, <1>4, <1>5, <1>6 DEF StoreInv

LEMMA ExpiresStep ==
    ASSUME TokenStoreAssumption, StoreInv, Expires
    PROVE  StoreInv'
<1>1. /\ expired \in Nat /\ issued \in Nat /\ expired < issued /\ expired' = expired + 1
      /\ UNCHANGED <<entries, issued, admissions, revoked>>
  BY DEF Expires, StoreInv, TokenStoreAssumption
<1>2. ConsumedOnce'
  BY <1>1 DEF StoreInv, ConsumedOnce
<1>3. NoTokenLost'
  BY <1>1 DEF StoreInv, NoTokenLost
<1>. QED  BY <1>1, <1>2, <1>3 DEF StoreInv

LEMMA NextStoreInv ==
    TokensAssumption /\ TokenStoreAssumption /\ StoreInv /\ [StoreNext]_storeVars => StoreInv'
<1>. SUFFICES ASSUME TokensAssumption, TokenStoreAssumption, StoreInv, [StoreNext]_storeVars
              PROVE  StoreInv'
  OBVIOUS
<1>1. CASE UNCHANGED storeVars
  BY <1>1 DEF storeVars, StoreInv, ConsumedOnce, NoTokenLost
<1>. QED  BY <1>1, IssueStep, PresentStep, RevokeStep, ExpiresStep DEF StoreNext

LEMMA StoreInvariance == StoreSpec => []StoreInv
  BY InitStoreInv, NextStoreInv, TokensAssumption, TokenStoreAssumption, PTL DEF StoreSpec

\* No token admits two holders, and a revoked one admits nobody: for any cap and any
\* number of tokens, however presentation, revocation and expiry interleave.
THEOREM TokensAdmitOnce == StoreSpec => []ConsumedOnce
<1>1. StoreInv => ConsumedOnce
  BY DEF StoreInv
<1>. QED  BY <1>1, StoreInvariance, PTL

\* A token is only lost to use, revocation, expiry or a capful of newer ones.
THEOREM TokensKept == StoreSpec => []NoTokenLost
<1>1. StoreInv => NoTokenLost
  BY DEF StoreInv
<1>. QED  BY <1>1, StoreInvariance, PTL
==============================================================================
