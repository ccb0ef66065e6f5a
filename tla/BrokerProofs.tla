---------------------------- MODULE BrokerProofs ----------------------------
(***************************************************************************)
(* Proofs about Broker for every value of its constants.                   *)
(*                                                                         *)
(* The inductive invariant has two independent halves.  RequestInv speaks  *)
(* of the requests, TombstoneInv of #cancelled.  Nearly every action is a  *)
(* use of Settle, so the work is in one lemma about it: settling a set of  *)
(* pending invocations keeps the counters equal to what is really pending. *)
(***************************************************************************)
EXTENDS Broker, FiniteSetTheorems, SequenceTheorems, WellFoundedInduction, TLAPS

RequestTypes ==
    /\ calls \in Seq(Call)
    /\ pending \subseteq DOMAIN calls
    /\ active \in [Connections -> Nat]
    /\ DOMAIN recent \subseteq DOMAIN calls
    /\ \A i \in DOMAIN recent : i + RecentLimit > Len(calls)
    /\ \A i \in DOMAIN recent : recent[i] \in RequestOutcomes

RequestInv ==
    /\ RequestTypes
    /\ ActiveMatchesPending
    /\ CapacityRespected
    /\ PendingIffUnsettled
    /\ AnswerIsOwners

TombstoneInv ==
    /\ cancelled \subseteq TombstoneRecord
    /\ IsFiniteSet(cancelled)
    /\ Cardinality(cancelled) <= MaxTombstones
    /\ cancels \in Nat
    /\ \A t \in cancelled : t.order <= cancels
    /\ \A t, u \in cancelled : t.order = u.order => t = u

ClockInv ==
    /\ now \in Nat
    /\ link \in [Connections -> {"open", "closing", "closed"}]

IInv == RequestInv /\ TombstoneInv /\ ClockInv

-----------------------------------------------------------------------------
(* Finite sets of requests. *)

\* The pending set is finite, and so is every part of it.
LEMMA PendingFinite ==
    ASSUME calls \in Seq(Call), pending \subseteq DOMAIN calls
    PROVE  /\ IsFiniteSet(pending)
           /\ \A S \in SUBSET pending : IsFiniteSet(S) /\ Cardinality(S) \in Nat
<1>1. DOMAIN calls = 1..Len(calls) /\ Len(calls) \in Nat
  BY LenProperties
<1>2. IsFiniteSet(1..Len(calls))
  BY <1>1, FS_Interval
<1>3. IsFiniteSet(pending)
  BY <1>1, <1>2, FS_Subset
<1>4. ASSUME NEW S \in SUBSET pending PROVE IsFiniteSet(S) /\ Cardinality(S) \in Nat
  BY <1>3, FS_Subset, FS_CardinalityType
<1>. QED  BY <1>3, <1>4

\* The requests a connection owns are pending ones.
LEMMA OwnedFinite ==
    ASSUME calls \in Seq(Call), pending \subseteq DOMAIN calls, NEW c
    PROVE  /\ Owned(c) \subseteq pending
           /\ IsFiniteSet(Owned(c))
           /\ Cardinality(Owned(c)) \in Nat
<1>1. Owned(c) \subseteq pending
  BY DEF Owned
<1>. QED  BY <1>1, PendingFinite

-----------------------------------------------------------------------------
(* Settle. *)

\* Settling changes outcomes and answers, never what was called or on which connection.
LEMMA SettleCalls ==
    ASSUME calls \in Seq(Call),
           NEW ids, NEW code \in Outcomes,
           NEW answer \in SUBSET [from : Connections, kind : Kinds],
           Settle(ids, code, answer)
    PROVE  /\ calls' \in Seq(Call)
           /\ DOMAIN calls' = DOMAIN calls
           /\ Len(calls') = Len(calls)
           /\ \A i \in DOMAIN calls :
                /\ calls'[i].connection = calls[i].connection
                /\ calls'[i].kind = calls[i].kind
                /\ calls'[i].outcome = IF i \in ids THEN code ELSE calls[i].outcome
                /\ calls'[i].answer = IF i \in ids THEN answer ELSE calls[i].answer
<1> DEFINE n == Len(calls)
           g(i) == IF i \in ids
                   THEN [calls[i] EXCEPT !.outcome = code, !.answer = answer]
                   ELSE calls[i]
<1>1. n \in Nat /\ DOMAIN calls = 1..n /\ calls \in [1..n -> Call]
  BY LenProperties
<1>2. calls' = [i \in 1..n |-> g(i)]
  BY <1>1 DEF Settle
<1>3. ASSUME NEW i \in 1..n
      PROVE  /\ g(i) \in Call
             /\ g(i).connection = calls[i].connection
             /\ g(i).kind = calls[i].kind
             /\ g(i).outcome = IF i \in ids THEN code ELSE calls[i].outcome
             /\ g(i).answer = IF i \in ids THEN answer ELSE calls[i].answer
  <2>1. calls[i] \in Call
    BY <1>1
  <2>. QED  BY <2>1 DEF Call
<1>4. calls' \in [1..n -> Call]
  BY <1>2, <1>3
<1>5. calls' \in Seq(Call)
  BY <1>1, <1>4, SeqDef
<1>6. DOMAIN calls' = 1..n
  BY <1>2
<1>7. Len(calls') = n
  BY <1>1, <1>5, <1>6, LenProperties
<1>8. \A i \in 1..n : calls'[i] = g(i)
  BY <1>2
<1>. QED  BY <1>1, <1>3, <1>5, <1>6, <1>7, <1>8

\* The heart of the matter: whatever set of pending requests is settled, each
\* connection's count goes down by exactly the number it owned among them.
LEMMA SettleActive ==
    ASSUME RequestTypes, ActiveMatchesPending,
           NEW ids, ids \subseteq pending,
           NEW code \in Outcomes,
           NEW answer \in SUBSET [from : Connections, kind : Kinds],
           Settle(ids, code, answer),
           NEW c \in Connections
    PROVE  /\ active'[c] = Cardinality(Owned(c)')
           /\ active'[c] \in Nat
           /\ active'[c] <= active[c]
<1> DEFINE gone == {i \in ids : calls[i].connection = c}
<1>1. /\ calls \in Seq(Call) /\ pending \subseteq DOMAIN calls
      /\ active[c] = Cardinality(Owned(c))
  BY DEF RequestTypes, ActiveMatchesPending
<1>2. \A i \in DOMAIN calls : calls'[i].connection = calls[i].connection
  BY <1>1, SettleCalls
<1>3. Owned(c)' = Owned(c) \ gone
  <2>1. pending' = pending \ ids
    BY DEF Settle
  <2>2. \A i \in pending : calls'[i].connection = calls[i].connection
    BY <1>1, <1>2
  <2>. QED  BY <2>1, <2>2 DEF Owned
<1>4. gone \subseteq Owned(c) /\ IsFiniteSet(Owned(c)) /\ Cardinality(Owned(c)) \in Nat
  BY <1>1, OwnedFinite DEF Owned
<1>5. IsFiniteSet(gone) /\ Cardinality(gone) \in Nat
      /\ Cardinality(gone) <= Cardinality(Owned(c))
  BY <1>4, FS_Subset, FS_CardinalityType
<1>6. Cardinality(Owned(c) \ gone) = Cardinality(Owned(c)) - Cardinality(gone)
  <2>1. Owned(c) \cap gone = gone
    BY <1>4
  <2>. QED  BY <2>1, <1>4, FS_Difference
<1>7. active'[c] = Released(c, ids)
  BY DEF Settle
<1>8. Released(c, ids) = Cardinality(Owned(c)) - Cardinality(gone)
  BY <1>1, <1>4, <1>5 DEF Released
<1>. QED  BY <1>1, <1>3, <1>4, <1>5, <1>6, <1>7, <1>8

\* Settling any set of pending requests, with an answer only for a success, keeps
\* everything that is known of the requests.
LEMMA SettleRequestInv ==
    ASSUME BrokerAssumption, RequestInv,
           NEW ids, ids \subseteq pending,
           NEW code \in Outcomes, code # "pending",
           NEW answer \in SUBSET [from : Connections, kind : Kinds],
           \A i \in ids : answer = IF code = "success"
                                   THEN {[from |-> calls[i].connection,
                                          kind |-> calls[i].kind]}
                                   ELSE {},
           Settle(ids, code, answer)
    PROVE  RequestInv'
<1>. USE DEF RequestInv
<1>1. /\ calls' \in Seq(Call)
      /\ DOMAIN calls' = DOMAIN calls
      /\ Len(calls') = Len(calls)
      /\ \A i \in DOMAIN calls :
            /\ calls'[i].connection = calls[i].connection
            /\ calls'[i].kind = calls[i].kind
            /\ calls'[i].outcome = IF i \in ids THEN code ELSE calls[i].outcome
            /\ calls'[i].answer = IF i \in ids THEN answer ELSE calls[i].answer
  BY SettleCalls DEF RequestTypes
<1>2. pending' = pending \ ids
  BY DEF Settle
<1>3. \A c \in Connections : /\ active'[c] = Cardinality(Owned(c)')
                             /\ active'[c] \in Nat
                             /\ active'[c] <= active[c]
  BY SettleActive
<1>4. ActiveMatchesPending'
  BY <1>3 DEF ActiveMatchesPending
<1>5. RequestTypes'
  <2>1. active' = [c \in Connections |-> Released(c, ids)]
    BY DEF Settle
  <2>2. active' \in [Connections -> Nat]
    BY <2>1, <1>3
  <2>3. DOMAIN recent' = DOMAIN recent
    BY DEF Settle, Finished
  <2>4. \A i \in DOMAIN recent : recent'[i] \in RequestOutcomes
    BY DEF Settle, Finished, RequestTypes, OutcomeFor, RequestOutcomes
  <2>. QED  BY <1>1, <1>2, <2>2, <2>3, <2>4 DEF RequestTypes
<1>6. CapacityRespected'
  <2>1. IsFiniteSet(pending) /\ Cardinality(pending) \in Nat
    BY PendingFinite DEF RequestTypes
  <2>2. Cardinality(pending') \in Nat /\ Cardinality(pending') <= Cardinality(pending)
    BY <1>2, <2>1, FS_Subset, FS_CardinalityType
  <2>3. Cardinality(pending') <= MaxConcurrent
    BY <2>1, <2>2 DEF CapacityRespected, BrokerAssumption
  <2>4. ASSUME NEW c \in Connections PROVE Cardinality(Owned(c)') <= MaxPerRuntime
    <3>1. active[c] <= MaxPerRuntime /\ active[c] \in Nat
      BY DEF ActiveMatchesPending, CapacityRespected, RequestTypes
    <3>. QED  BY <1>3, <3>1 DEF BrokerAssumption
  <2>. QED  BY <2>3, <2>4 DEF CapacityRespected
<1>7. PendingIffUnsettled'
  BY <1>1, <1>2 DEF PendingIffUnsettled, RequestTypes
<1>8. AnswerIsOwners'
  <2>. SUFFICES ASSUME NEW i \in DOMAIN calls
                PROVE  calls'[i].answer =
                         IF calls'[i].outcome = "success"
                         THEN {[from |-> calls'[i].connection, kind |-> calls'[i].kind]}
                         ELSE {}
    BY <1>1 DEF AnswerIsOwners
  <2>1. CASE i \in ids
    BY <2>1, <1>1
  <2>2. CASE i \notin ids
    BY <2>2, <1>1 DEF AnswerIsOwners
  <2>. QED  BY <2>1, <2>2
<1>. QED  BY <1>4, <1>5, <1>6, <1>7, <1>8

-----------------------------------------------------------------------------
(* invoke. *)

\* Starting a request lists it and keeps only ids within RecentLimit of it.
LEMMA StartedTypes ==
    ASSUME BrokerAssumption, RequestTypes,
           NEW outcome \in RequestOutcomes,
           recent' = Started(Len(calls) + 1, outcome)
    PROVE  /\ DOMAIN recent' \subseteq 1..(Len(calls) + 1)
           /\ \A i \in DOMAIN recent' : i + RecentLimit > Len(calls) + 1
           /\ \A i \in DOMAIN recent' : recent'[i] \in RequestOutcomes
<1>1. Len(calls) \in Nat /\ DOMAIN calls = 1..Len(calls)
  BY LenProperties DEF RequestTypes
<1>2. DOMAIN recent \subseteq 1..Len(calls)
      /\ \A i \in DOMAIN recent : recent[i] \in RequestOutcomes
  BY <1>1 DEF RequestTypes
<1>. QED  BY <1>1, <1>2 DEF Started, BrokerAssumption

\* A new call at the end of the list: the calls before it are untouched.
LEMMA NewCallAppended ==
    ASSUME BrokerAssumption, ClockInv, calls \in Seq(Call),
           NEW c \in Connections, NEW k \in Kinds, NEW outcome \in Outcomes,
           calls' = Append(calls, NewCall(c, k, outcome))
    PROVE  /\ Len(calls) \in Nat
           /\ DOMAIN calls = 1..Len(calls)
           /\ calls' \in Seq(Call)
           /\ DOMAIN calls' = 1..(Len(calls) + 1)
           /\ Len(calls') = Len(calls) + 1
           /\ \A i \in DOMAIN calls : calls'[i] = calls[i]
           /\ calls'[Len(calls) + 1] = NewCall(c, k, outcome)
<1>1. NewCall(c, k, outcome) \in Call
  BY DEF NewCall, Call, ClockInv, BrokerAssumption
<1>2. Len(calls) \in Nat /\ DOMAIN calls = 1..Len(calls)
  BY LenProperties
<1>3. /\ calls' \in Seq(Call)
      /\ Len(calls') = Len(calls) + 1
      /\ \A i \in 1..Len(calls) : calls'[i] = calls[i]
      /\ calls'[Len(calls) + 1] = NewCall(c, k, outcome)
  BY <1>1, <1>2, AppendProperties
<1>. QED  BY <1>2, <1>3, LenProperties

LEMMA InvokeSentRequestInv ==
    ASSUME BrokerAssumption, ClockInv, RequestInv,
           NEW c \in Connections, NEW k \in Kinds, InvokeSent(c, k)
    PROVE  RequestInv'
<1>. USE DEF RequestInv
<1> DEFINE i == Len(calls) + 1
<1>0. calls \in Seq(Call) /\ pending \subseteq DOMAIN calls
  BY DEF RequestTypes
<1>1. /\ Len(calls) \in Nat
      /\ DOMAIN calls = 1..Len(calls)
      /\ calls' \in Seq(Call)
      /\ DOMAIN calls' = 1..i
      /\ Len(calls') = i
      /\ \A j \in DOMAIN calls : calls'[j] = calls[j]
      /\ calls'[i] = NewCall(c, k, "pending")
  BY <1>0, NewCallAppended DEF InvokeSent, Outcomes
<1>2. /\ pending' = pending \cup {i}
      /\ i \notin pending
      /\ active' = [active EXCEPT ![c] = @ + 1]
      /\ active[c] < MaxPerRuntime
      /\ Cardinality(pending) < MaxConcurrent
  BY <1>0, <1>1 DEF InvokeSent, HasCapacity
<1>3. /\ calls'[i].connection = c /\ calls'[i].kind = k
      /\ calls'[i].outcome = "pending" /\ calls'[i].answer = {}
  BY <1>1 DEF NewCall
<1>4. RequestTypes'
  <2>1. /\ DOMAIN recent' \subseteq 1..i
        /\ \A j \in DOMAIN recent' : j + RecentLimit > i
        /\ \A j \in DOMAIN recent' : recent'[j] \in RequestOutcomes
    BY StartedTypes DEF InvokeSent, RequestOutcomes
  <2>2. active' \in [Connections -> Nat]
    BY <1>2 DEF RequestTypes
  <2>3. pending' \subseteq DOMAIN calls'
    BY <1>0, <1>1, <1>2
  <2>. QED  BY <1>1, <2>1, <2>2, <2>3 DEF RequestTypes
<1>5. ASSUME NEW d \in Connections
      PROVE  /\ active'[d] = Cardinality(Owned(d)')
             /\ Cardinality(Owned(d)') <= MaxPerRuntime
  <2>1. /\ IsFiniteSet(Owned(d)) /\ Cardinality(Owned(d)) \in Nat
        /\ Owned(d) \subseteq pending
    BY <1>0, OwnedFinite
  <2>2. active[d] = Cardinality(Owned(d)) /\ Cardinality(Owned(d)) <= MaxPerRuntime
    BY DEF ActiveMatchesPending, CapacityRespected
  <2>3. \A j \in pending : calls'[j].connection = calls[j].connection
    BY <1>0, <1>1
  <2>4. CASE d = c
    <3>1. Owned(d)' = Owned(d) \cup {i} /\ i \notin Owned(d)
      BY <1>2, <1>3, <2>1, <2>3, <2>4 DEF Owned
    <3>2. Cardinality(Owned(d)') = Cardinality(Owned(d)) + 1
      BY <2>1, <3>1, FS_AddElement
    <3>3. active'[d] = active[d] + 1
      BY <1>2, <2>4 DEF RequestTypes
    <3>. QED  BY <1>2, <2>1, <2>2, <2>4, <3>2, <3>3 DEF BrokerAssumption
  <2>5. CASE d # c
    <3>1. Owned(d)' = Owned(d)
      BY <1>2, <1>3, <2>3, <2>5 DEF Owned
    <3>2. active'[d] = active[d]
      BY <1>2, <2>5 DEF RequestTypes
    <3>. QED  BY <2>2, <3>1, <3>2
  <2>. QED  BY <2>4, <2>5
<1>6. Cardinality(pending') <= MaxConcurrent
  <2>1. IsFiniteSet(pending) /\ Cardinality(pending) \in Nat
    BY <1>0, PendingFinite
  <2>2. Cardinality(pending') = Cardinality(pending) + 1
    BY <1>2, <2>1, FS_AddElement
  <2>. QED  BY <1>2, <2>1, <2>2 DEF BrokerAssumption
<1>7. PendingIffUnsettled'
  BY <1>0, <1>1, <1>2, <1>3 DEF PendingIffUnsettled
<1>8. AnswerIsOwners'
  <2>. SUFFICES ASSUME NEW j \in DOMAIN calls'
                PROVE  calls'[j].answer =
                         IF calls'[j].outcome = "success"
                         THEN {[from |-> calls'[j].connection, kind |-> calls'[j].kind]}
                         ELSE {}
    BY DEF AnswerIsOwners
  <2>1. CASE j = i
    BY <2>1, <1>3
  <2>2. CASE j # i
    <3>1. j \in DOMAIN calls /\ calls'[j] = calls[j]
      BY <2>2, <1>1
    <3>. QED  BY <3>1, Zenon DEF AnswerIsOwners
  <2>. QED  BY <2>1, <2>2
<1>. QED  BY <1>4, <1>5, <1>6, <1>7, <1>8 DEF ActiveMatchesPending, CapacityRespected

LEMMA InvokeUnsentRequestInv ==
    ASSUME BrokerAssumption, ClockInv, RequestInv,
           NEW c \in Connections, NEW k \in Kinds, InvokeUnsent(c, k)
    PROVE  RequestInv'
<1>. USE DEF RequestInv
<1> DEFINE i == Len(calls) + 1
<1>0. calls \in Seq(Call) /\ pending \subseteq DOMAIN calls
  BY DEF RequestTypes
<1>1. /\ Len(calls) \in Nat
      /\ DOMAIN calls = 1..Len(calls)
      /\ calls' \in Seq(Call)
      /\ DOMAIN calls' = 1..i
      /\ Len(calls') = i
      /\ \A j \in DOMAIN calls : calls'[j] = calls[j]
      /\ calls'[i] = NewCall(c, k, "BROWSER_DISCONNECTED")
  BY <1>0, NewCallAppended DEF InvokeUnsent, Outcomes, Failures
<1>2. calls'[i].outcome = "BROWSER_DISCONNECTED" /\ calls'[i].answer = {}
  BY <1>1 DEF NewCall
<1>3. pending' = pending /\ active' = active
  BY DEF InvokeUnsent
<1>4. RequestTypes'
  <2>1. OutcomeFor("BROWSER_DISCONNECTED") \in RequestOutcomes
    BY DEF OutcomeFor, RequestOutcomes
  <2>2. /\ DOMAIN recent' \subseteq 1..i
        /\ \A j \in DOMAIN recent' : j + RecentLimit > i
        /\ \A j \in DOMAIN recent' : recent'[j] \in RequestOutcomes
    BY <2>1, StartedTypes DEF InvokeUnsent
  <2>. QED  BY <1>0, <1>1, <1>3, <2>2 DEF RequestTypes
<1>5. \A d : Owned(d)' = Owned(d)
  BY <1>0, <1>1, <1>3 DEF Owned
<1>6. PendingIffUnsettled'
  BY <1>0, <1>1, <1>2, <1>3 DEF PendingIffUnsettled
<1>7. AnswerIsOwners'
  <2>. SUFFICES ASSUME NEW j \in DOMAIN calls'
                PROVE  calls'[j].answer =
                         IF calls'[j].outcome = "success"
                         THEN {[from |-> calls'[j].connection, kind |-> calls'[j].kind]}
                         ELSE {}
    BY DEF AnswerIsOwners
  <2>1. CASE j = i
    BY <2>1, <1>2
  <2>2. CASE j # i
    <3>1. j \in DOMAIN calls /\ calls'[j] = calls[j]
      BY <2>2, <1>1
    <3>. QED  BY <3>1, Zenon DEF AnswerIsOwners
  <2>. QED  BY <2>1, <2>2
<1>. QED  BY <1>3, <1>4, <1>5, <1>6, <1>7 DEF ActiveMatchesPending, CapacityRespected

-----------------------------------------------------------------------------
(* Tombstones. *)

\* The order of the naturals as a set of pairs, and that it is well founded.
LessThan == {p \in Nat \X Nat : p[1] < p[2]}

LEMMA LessThanWellFounded == IsWellFoundedOn(LessThan, Nat)
  BY NatLessThanWellFounded DEF OpToRel, LessThan

LEMMA MinimalOrder ==
    ASSUME NEW O \in SUBSET Nat, O # {}
    PROVE  \E m \in O : \A x \in O : ~(<<x, m>> \in LessThan)
  BY WFMin, LessThanWellFounded, Zenon

\* A set of tombstone positions has an oldest one.
LEMMA SmallestOrder ==
    ASSUME NEW O \in SUBSET Nat, O # {}
    PROVE  \E m \in O : \A x \in O : m <= x
<1>1. PICK m \in O : \A x \in O : ~(<<x, m>> \in LessThan)
  BY MinimalOrder
<1>2. ASSUME NEW x \in O PROVE m <= x
  <2>1. x \in Nat /\ m \in Nat
    BY <1>1
  <2>2. ~(<<x, m>> \in LessThan)
    BY <1>1
  <2>3. x < m => <<x, m>> \in LessThan
    BY <2>1 DEF LessThan
  <2>. QED  BY <2>1, <2>2, <2>3
<1>. QED  BY <1>1, <1>2

\* Keeping the newest n of a set leaves at most n.
LEMMA NewestBound ==
    ASSUME NEW S, IsFiniteSet(S), S \subseteq TombstoneRecord,
           \A t, u \in S : t.order = u.order => t = u,
           NEW n \in Nat
    PROVE  /\ Newest(S, n) \subseteq S
           /\ IsFiniteSet(Newest(S, n))
           /\ Cardinality(Newest(S, n)) \in Nat
           /\ Cardinality(Newest(S, n)) <= n
<1> DEFINE T == Newest(S, n)
           newer(t) == {u \in S : u.order > t.order}
<1>1. T \subseteq S
  BY DEF Newest
<1>2. IsFiniteSet(T) /\ Cardinality(T) \in Nat
  BY <1>1, FS_Subset, FS_CardinalityType
<1>3. SUFFICES ASSUME Cardinality(T) > n PROVE FALSE
  BY <1>1, <1>2
<1>4. T # {}
  BY <1>2, <1>3, FS_EmptySet
<1>5. PICK t \in T : \A u \in T : t.order <= u.order
  <2> DEFINE O == {u.order : u \in T}
  <2>1. O \subseteq Nat /\ O # {}
    BY <1>1, <1>4 DEF TombstoneRecord
  <2>2. \E m \in O : \A x \in O : m <= x
    <3>. HIDE DEF O
    <3>. QED  BY <2>1, SmallestOrder
  <2>3. PICK m \in O : \A x \in O : m <= x
    BY <2>2
  <2>4. PICK t \in T : t.order = m
    BY <2>3
  <2>5. \A u \in T : u.order \in O
    OBVIOUS
  <2>6. \A u \in T : t.order <= u.order
    <3>. HIDE DEF O, T
    <3>. QED  BY <2>3, <2>4, <2>5
  <2>. QED  BY <2>4, <2>6
<1>6. T \ {t} \subseteq newer(t)
  <2>. SUFFICES ASSUME NEW u \in T, u # t PROVE u.order > t.order
    BY <1>1
  <2>1. u.order \in Nat /\ t.order \in Nat /\ u.order # t.order
    BY <1>1, <1>5 DEF TombstoneRecord
  <2>. QED  BY <1>5, <2>1
<1>7. IsFiniteSet(newer(t)) /\ Cardinality(newer(t)) \in Nat
  BY FS_Subset, FS_CardinalityType
<1>8. Cardinality(T \ {t}) = Cardinality(T) - 1
  BY <1>2, <1>5, FS_RemoveElement
<1>9. Cardinality(T \ {t}) <= Cardinality(newer(t))
  BY <1>6, <1>7, FS_Subset
<1>10. Cardinality(newer(t)) < n
  BY <1>5 DEF Newest
<1>. QED  BY <1>2, <1>3, <1>7, <1>8, <1>9, <1>10

\* Fewer tombstones are still sound tombstones.
LEMMA TombstonesDropped ==
    ASSUME TombstoneInv, BrokerAssumption, cancelled' \subseteq cancelled, cancels' = cancels
    PROVE  TombstoneInv'
<1>1. IsFiniteSet(cancelled') /\ Cardinality(cancelled') \in Nat
      /\ Cardinality(cancelled) \in Nat /\ Cardinality(cancelled') <= Cardinality(cancelled)
  BY FS_Subset, FS_CardinalityType DEF TombstoneInv
<1>2. Cardinality(cancelled') <= MaxTombstones
  BY <1>1 DEF TombstoneInv, BrokerAssumption
<1>. QED  BY <1>1, <1>2 DEF TombstoneInv

\* A cancellation that is notified makes one tombstone, after evicting down to
\* one below the cap.
LEMMA NotifyTombstoneInv ==
    ASSUME BrokerAssumption, RequestInv, TombstoneInv, ClockInv,
           NEW i \in pending, NEW code, FailAndNotify(i, code)
    PROVE  TombstoneInv'
<1> DEFINE kept == Newest(Swept, MaxTombstones - 1)
           new == [id |-> i, connection |-> calls[i].connection,
                   expiresAt |-> now + RequestTimeout, order |-> cancels + 1]
<1>1. cancelled' = kept \cup {new} /\ cancels' = cancels + 1
  BY DEF FailAndNotify
<1>2. Swept \subseteq cancelled
  BY DEF Swept
<1>3. /\ IsFiniteSet(Swept) /\ Swept \subseteq TombstoneRecord
      /\ \A t, u \in Swept : t.order = u.order => t = u
  BY <1>2, FS_Subset DEF TombstoneInv
<1>4. MaxTombstones - 1 \in Nat
  BY DEF BrokerAssumption
<1>5. /\ kept \subseteq Swept /\ IsFiniteSet(kept)
      /\ Cardinality(kept) \in Nat /\ Cardinality(kept) <= MaxTombstones - 1
  BY <1>3, <1>4, NewestBound
<1>6. new \in TombstoneRecord
  <2>1. i \in Nat /\ calls[i].connection \in Connections
    <3>1. calls \in Seq(Call) /\ i \in 1..Len(calls) /\ Len(calls) \in Nat
      BY LenProperties DEF RequestInv, RequestTypes
    <3>2. calls[i] \in Call
      BY <3>1, ElementOfSeq
    <3>. QED  BY <3>1, <3>2 DEF Call
  <2>. QED  BY <2>1 DEF TombstoneRecord, TombstoneInv, ClockInv, BrokerAssumption
<1>7. \A t \in kept : t.order \in Nat /\ t.order <= cancels
  BY <1>2, <1>5 DEF TombstoneInv, TombstoneRecord
<1>8. IsFiniteSet(cancelled') /\ Cardinality(cancelled') <= MaxTombstones
  <2>. HIDE DEF kept, new
  <2>1. /\ IsFiniteSet(kept \cup {new})
        /\ Cardinality(kept \cup {new})
             = IF new \in kept THEN Cardinality(kept) ELSE Cardinality(kept) + 1
    BY <1>5, FS_AddElement
  <2>2. Cardinality(kept \cup {new}) <= MaxTombstones
    BY <1>5, <2>1 DEF BrokerAssumption
  <2>. QED  BY <1>1, <2>1, <2>2
<1>9. cancels \in Nat /\ new.order = cancels + 1
  BY DEF TombstoneInv
<1>10. \A t, u \in cancelled' : t.order = u.order => t = u
  <2>1. \A t \in kept : t.order # new.order
    BY <1>7, <1>9
  <2>. QED  BY <1>1, <1>3, <1>5, <2>1
<1>11. \A t \in cancelled' : t.order <= cancels'
  BY <1>1, <1>7, <1>9
<1>12. cancelled' \subseteq TombstoneRecord
  BY <1>1, <1>3, <1>5, <1>6
<1>. QED  BY <1>1, <1>8, <1>9, <1>10, <1>11, <1>12 DEF TombstoneInv

-----------------------------------------------------------------------------
(* The invariant is inductive. *)

\* A rejection carries no answer: any set of pending requests may be rejected.
LEMMA RejectRequestInv ==
    ASSUME BrokerAssumption, RequestInv,
           NEW ids, ids \subseteq pending,
           NEW code \in Failures, Settle(ids, code, {})
    PROVE  RequestInv'
<1>1. code \in Outcomes /\ code # "pending" /\ code # "success"
  BY DEF Outcomes, Failures
<1>2. {} \in SUBSET [from : Connections, kind : Kinds]
  OBVIOUS
<1>3. \A i \in ids : {} = IF code = "success"
                          THEN {[from |-> calls[i].connection, kind |-> calls[i].kind]}
                          ELSE {}
  BY <1>1
<1>. QED  BY <1>1, <1>2, <1>3, SettleRequestInv

\* The requests and the tombstones that a step leaves alone keep their invariants.
LEMMA RequestsUnchanged ==
    ASSUME RequestInv, UNCHANGED requests
    PROVE  RequestInv'
<1>1. \A c : Owned(c)' = Owned(c)
  BY DEF Owned, requests
<1>. QED
  BY <1>1 DEF RequestInv, RequestTypes, ActiveMatchesPending, CapacityRespected,
              PendingIffUnsettled, AnswerIsOwners, requests

LEMMA TombstonesUnchanged ==
    ASSUME TombstoneInv, UNCHANGED tombstones
    PROVE  TombstoneInv'
  BY DEF TombstoneInv, tombstones

LEMMA GiveUpStep ==
    ASSUME BrokerAssumption, IInv, NEW i \in Invocations, GiveUp(i)
    PROVE  IInv'
<1>. USE DEF IInv
<1>1. PICK code \in {"TIMEOUT", "CANCELLED"} : i \in pending /\ FailAndNotify(i, code)
  BY DEF GiveUp, TimerFires, Abort
<1>2. RequestInv'
  <2>1. Settle({i}, code, {}) /\ {i} \subseteq pending /\ code \in Failures
    BY <1>1 DEF FailAndNotify, Failures
  <2>. QED  BY <2>1, RejectRequestInv
<1>3. TombstoneInv'
  BY <1>1, NotifyTombstoneInv
<1>4. ClockInv'
  BY DEF GiveUp, ClockInv
<1>. QED  BY <1>2, <1>3, <1>4

LEMMA InvokeStep ==
    ASSUME BrokerAssumption, IInv, NEW c \in Connections, NEW k \in Kinds, Invoke(c, k)
    PROVE  IInv'
<1>. USE DEF IInv
<1>1. RequestInv'
  BY InvokeSentRequestInv, InvokeUnsentRequestInv DEF Invoke
<1>2. TombstoneInv'
  BY TombstonesUnchanged DEF Invoke, InvokeSent, InvokeUnsent
<1>3. ClockInv'
  BY DEF Invoke, Closing, ClockInv
<1>. QED  BY <1>1, <1>2, <1>3

\* A result settles only its owner's request, with the one answer that is due.
LEMMA ResultStep ==
    ASSUME BrokerAssumption, RequestInv, TombstoneInv,
           NEW c \in Connections, NEW i, NEW k \in Kinds, Result(c, i, k)
    PROVE  RequestInv' /\ TombstoneInv'
<1>1. i \in pending /\ calls[i].connection = c /\ {i} \subseteq pending
  BY DEF Result, Mine
<1>2. TombstoneInv'
  BY TombstonesUnchanged DEF Result, Fail
<1>3. CASE k = calls[i].kind
  <2>1. Settle({i}, "success", {[from |-> c, kind |-> k]})
    BY <1>3 DEF Result
  <2>2. {[from |-> c, kind |-> k]} \in SUBSET [from : Connections, kind : Kinds]
    OBVIOUS
  <2>3. "success" \in Outcomes /\ "success" # "pending"
    BY DEF Outcomes
  <2>4. \A j \in {i} : {[from |-> c, kind |-> k]} =
           IF "success" = "success"
           THEN {[from |-> calls[j].connection, kind |-> calls[j].kind]} ELSE {}
    BY <1>1, <1>3
  <2>. QED  BY <1>1, <1>2, <2>1, <2>2, <2>3, <2>4, SettleRequestInv
<1>4. CASE k # calls[i].kind
  <2>1. Settle({i}, "INVALID_MESSAGE", {}) /\ "INVALID_MESSAGE" \in Failures
    BY <1>4 DEF Result, Fail, Failures
  <2>. QED  BY <1>1, <1>2, <2>1, RejectRequestInv
<1>. QED  BY <1>3, <1>4

LEMMA MessageStep ==
    ASSUME BrokerAssumption, IInv,
           NEW c \in Connections, NEW i \in Invocations, Message(c, i)
    PROVE  IInv'
<1>. USE DEF IInv
<1>1. ClockInv'
  BY DEF Message, ClockInv
<1>2. CASE \E k \in Kinds : Result(c, i, k)
  BY <1>1, <1>2, ResultStep
<1>3. CASE (\E code \in BrowserErrors : Error(c, i, code)) \/ CancelFromBrowser(c, i)
  <2>1. PICK code \in Failures : i \in pending /\ Fail(i, code)
    BY <1>3 DEF Error, CancelFromBrowser, Mine, ErrorFromBrowser, Failures
  <2>2. Settle({i}, code, {}) /\ {i} \subseteq pending /\ UNCHANGED tombstones
    BY <2>1 DEF Fail
  <2>. QED  BY <1>1, <2>2, RejectRequestInv, TombstonesUnchanged
<1>4. CASE LateMessage(c, i)
  <2>1. UNCHANGED requests /\ cancels' = cancels /\ cancelled' \subseteq cancelled
    BY <1>4 DEF LateMessage, Swept
  <2>. QED  BY <1>1, <2>1, RequestsUnchanged, TombstonesDropped
<1>. QED  BY <1>2, <1>3, <1>4 DEF Message

LEMMA SocketStep ==
    ASSUME BrokerAssumption, IInv,
           \/ \E cs \in SUBSET Connections : SocketsClose(cs)
           \/ \E c \in Connections : SocketClosed(c)
           \/ BridgeStops
    PROVE  IInv'
<1>. USE DEF IInv
<1>1. ClockInv'
  BY DEF BridgeStops, SocketsClose, SocketClosed, Closing, ClockInv
<1>2. CASE \E cs \in SUBSET Connections : SocketsClose(cs)
  BY <1>1, <1>2, RequestsUnchanged, TombstonesUnchanged DEF SocketsClose
<1>3. ASSUME NEW c \in Connections, SocketClosed(c) PROVE IInv'
  <2>1. /\ Settle(Owned(c), "BROWSER_DISCONNECTED", {}) /\ Owned(c) \subseteq pending
        /\ cancelled' \subseteq cancelled /\ cancels' = cancels
    BY <1>3 DEF SocketClosed, Disconnect, TombstonesWithout, Owned
  <2>2. "BROWSER_DISCONNECTED" \in Failures
    BY DEF Failures
  <2>. QED  BY <1>1, <2>1, <2>2, RejectRequestInv, TombstonesDropped
<1>4. CASE BridgeStops
  <2>1. /\ Settle(pending, "BROWSER_DISCONNECTED", {})
        /\ cancelled' \subseteq cancelled /\ cancels' = cancels
    BY <1>4 DEF BridgeStops, Close
  <2>2. "BROWSER_DISCONNECTED" \in Failures
    BY DEF Failures
  <2>. QED  BY <1>1, <2>1, <2>2, RejectRequestInv, TombstonesDropped
<1>. QED  BY <1>2, <1>3, <1>4

LEMMA InitIInv == BrokerAssumption /\ Init => IInv
<1>. SUFFICES ASSUME BrokerAssumption, Init PROVE IInv
  OBVIOUS
<1>1. /\ calls = <<>> /\ calls \in Seq(Call) /\ DOMAIN calls = {} /\ pending = {}
      /\ DOMAIN recent = {} /\ cancelled = {} /\ cancels = 0 /\ now = 0
      /\ active = [c \in Connections |-> 0]
      /\ link = [c \in Connections |-> "open"]
  BY DEF Init
<1>2. \A c : Owned(c) = {}
  BY <1>1 DEF Owned
<1>3. Cardinality({}) = 0 /\ IsFiniteSet({})
  BY FS_EmptySet
<1>4. RequestInv
  <2>1. RequestTypes
    BY <1>1 DEF RequestTypes
  <2>2. ActiveMatchesPending
    BY <1>1, <1>2, <1>3 DEF ActiveMatchesPending
  <2>3. CapacityRespected
    <3>1. 0 <= MaxConcurrent /\ 0 <= MaxPerRuntime
      BY DEF BrokerAssumption
    <3>2. Cardinality(pending) = 0 /\ \A c : Cardinality(Owned(c)) = 0
      BY <1>1, <1>2, <1>3
    <3>. QED  BY <3>1, <3>2 DEF CapacityRespected
  <2>4. PendingIffUnsettled /\ AnswerIsOwners
    BY <1>1 DEF PendingIffUnsettled, AnswerIsOwners
  <2>. QED  BY <2>1, <2>2, <2>3, <2>4 DEF RequestInv
<1>5. TombstoneInv
  BY <1>1, <1>3 DEF TombstoneInv, BrokerAssumption
<1>6. ClockInv
  BY <1>1 DEF ClockInv
<1>. QED  BY <1>4, <1>5, <1>6 DEF IInv

LEMMA NextIInv == BrokerAssumption /\ IInv /\ [Next]_vars => IInv'
<1>. SUFFICES ASSUME BrokerAssumption, IInv, [Next]_vars PROVE IInv'
  OBVIOUS
<1>1. CASE Tick
  <2>1. ClockInv'
    BY <1>1 DEF Tick, IInv, ClockInv
  <2>. QED  BY <1>1, <2>1, RequestsUnchanged, TombstonesUnchanged DEF Tick, IInv
<1>2. CASE \E c \in Connections, k \in Kinds : Invoke(c, k)
  BY <1>2, InvokeStep
<1>3. CASE \E i \in Invocations : GiveUp(i)
  BY <1>3, GiveUpStep
<1>4. CASE \E c \in Connections, i \in Invocations : Message(c, i)
  BY <1>4, MessageStep
<1>5. CASE \/ \E cs \in SUBSET Connections : SocketsClose(cs)
           \/ \E c \in Connections : SocketClosed(c)
           \/ BridgeStops
  BY <1>5, SocketStep
<1>6. CASE UNCHANGED vars
  <2>1. ClockInv'
    BY <1>6 DEF vars, IInv, ClockInv
  <2>. QED  BY <1>6, <2>1, RequestsUnchanged, TombstonesUnchanged DEF vars, IInv
<1>. QED  BY <1>1, <1>2, <1>3, <1>4, <1>5, <1>6 DEF Next

\* The inductive invariant holds in every reachable state.
THEOREM Invariance == Spec => []IInv
  BY InitIInv, NextIInv, BrokerAssumption, PTL DEF Spec

-----------------------------------------------------------------------------
(* The theorems. *)

\* The recent list is bounded because it only names ids within RecentLimit of the
\* newest one.
LEMMA IInvTypeOK == BrokerAssumption /\ IInv => TypeOK
<1>. SUFFICES ASSUME BrokerAssumption, IInv PROVE TypeOK
  OBVIOUS
<1>1. Len(calls) \in Nat /\ DOMAIN calls = 1..Len(calls)
  BY LenProperties DEF IInv, RequestInv, RequestTypes
<1> DEFINE window == (Len(calls) + 1 - RecentLimit)..Len(calls)
<1>2. DOMAIN recent \subseteq window
  BY <1>1 DEF IInv, RequestInv, RequestTypes, BrokerAssumption
<1>3. IsFiniteSet(window) /\ Cardinality(window) = RecentLimit
  BY <1>1, FS_Interval DEF BrokerAssumption
<1>4. Cardinality(DOMAIN recent) <= RecentLimit
  BY <1>2, <1>3, FS_Subset
<1>. QED  BY <1>4 DEF IInv, RequestInv, RequestTypes, TombstoneInv, ClockInv, TypeOK

\* Every variable keeps its type, and #cancelled and the recent list their bounds,
\* for any limits and however many invocations are made.
THEOREM TypeCorrect == Spec => []TypeOK
  BY Invariance, IInvTypeOK, BrokerAssumption, PTL

\* #activeByConnection is always exactly the number of pending requests of each
\* connection: cleanup never releases a slot twice, and never forgets one.
THEOREM CountersExact == Spec => []ActiveMatchesPending
<1>1. IInv => ActiveMatchesPending
  BY DEF IInv, RequestInv
<1>. QED  BY <1>1, Invariance, PTL

\* The checks of invoke are enough to keep both concurrency limits in every state.
THEOREM CapacityNeverExceeded == Spec => []CapacityRespected
<1>1. IInv => CapacityRespected
  BY DEF IInv, RequestInv
<1>. QED  BY <1>1, Invariance, PTL

\* No promise is unsettled without an entry of #pending that will settle it.
THEOREM NoOrphanedCall == Spec => []PendingIffUnsettled
<1>1. IInv => PendingIffUnsettled
  BY DEF IInv, RequestInv
<1>. QED  BY <1>1, Invariance, PTL

\* No late, duplicate, cross-connection or wrong-kind result resolves a caller.
THEOREM AnswersFromOwner == Spec => []AnswerIsOwners
<1>1. IInv => AnswerIsOwners
  BY DEF IInv, RequestInv
<1>. QED  BY <1>1, Invariance, PTL

-----------------------------------------------------------------------------
(* What the state page shows, and what tombstones stand for.  Both are     *)
(* inductive once IInv is known.                                           *)

RecordInv == RecentAgrees /\ TombstonesSound

\* Settling updates the listed entries of the settled requests, and no others.
LEMMA SettleRecent ==
    ASSUME IInv, RecentAgrees,
           NEW ids, ids \subseteq pending,
           NEW code \in Outcomes, code # "pending",
           NEW answer \in SUBSET [from : Connections, kind : Kinds],
           Settle(ids, code, answer)
    PROVE  RecentAgrees'
<1>1. /\ calls \in Seq(Call) /\ pending \subseteq DOMAIN calls
      /\ PendingIffUnsettled
  BY DEF IInv, RequestInv, RequestTypes
<1>2. /\ DOMAIN calls' = DOMAIN calls /\ Len(calls') = Len(calls)
      /\ \A i \in DOMAIN calls :
            calls'[i].outcome = IF i \in ids THEN code ELSE calls[i].outcome
  BY <1>1, SettleCalls
<1>3. /\ pending' = pending \ ids
      /\ DOMAIN recent' = DOMAIN recent
      /\ \A i \in DOMAIN recent :
            recent'[i] = IF i \in ids /\ recent[i] = "pending" THEN OutcomeFor(code)
                                                               ELSE recent[i]
  BY DEF Settle, Finished
<1>4. DOMAIN recent' = {i \in DOMAIN calls' : i + RecentLimit > Len(calls')}
  BY <1>2, <1>3 DEF RecentAgrees
<1>5. ASSUME NEW i \in DOMAIN recent'
      PROVE  recent'[i] = IF i \in pending' THEN "pending" ELSE OutcomeFor(calls'[i].outcome)
  <2>1. /\ i \in DOMAIN calls
        /\ recent[i] = IF i \in pending THEN "pending" ELSE OutcomeFor(calls[i].outcome)
    BY <1>3 DEF RecentAgrees
  <2>2. CASE i \in ids
    BY <1>2, <1>3, <2>1, <2>2
  <2>3. CASE i \notin ids
    BY <1>2, <1>3, <2>1, <2>3
  <2>. QED  BY <2>2, <2>3
<1>. QED  BY <1>4, <1>5 DEF RecentAgrees

\* A new request is listed, and the one that is RecentLimit older goes.
LEMMA InvokeRecent ==
    ASSUME BrokerAssumption, IInv, RecentAgrees,
           NEW c \in Connections, NEW k \in Kinds, Invoke(c, k)
    PROVE  RecentAgrees'
<1> DEFINE n == Len(calls) + 1
<1>1. /\ calls \in Seq(Call) /\ pending \subseteq DOMAIN calls /\ ClockInv
  BY DEF IInv, RequestInv, RequestTypes
<1>2. PICK outcome \in {"pending", "BROWSER_DISCONNECTED"} :
        /\ calls' = Append(calls, NewCall(c, k, outcome))
        /\ outcome = "pending" => pending' = pending \cup {n} /\ recent' = Started(n, "pending")
        /\ outcome # "pending" => pending' = pending /\ recent' = Started(n, OutcomeFor(outcome))
  <2>1. CASE InvokeSent(c, k)
    <3>. QED  BY <2>1 DEF InvokeSent
  <2>2. CASE InvokeUnsent(c, k)
    <3>. QED  BY <2>2 DEF InvokeUnsent
  <2>. QED  BY <2>1, <2>2 DEF Invoke
<1>3. outcome \in Outcomes
  BY DEF Outcomes, Failures
<1>4. /\ Len(calls) \in Nat /\ DOMAIN calls = 1..Len(calls)
      /\ DOMAIN calls' = 1..n /\ Len(calls') = n
      /\ \A i \in DOMAIN calls : calls'[i] = calls[i]
      /\ calls'[n] = NewCall(c, k, outcome)
  BY <1>1, <1>2, <1>3, NewCallAppended
<1>5. calls'[n].outcome = outcome
  BY <1>4 DEF NewCall
<1> DEFINE shown == IF outcome = "pending" THEN "pending" ELSE OutcomeFor(outcome)
<1>6. recent' = Started(n, shown)
  BY <1>2
<1>. HIDE DEF shown
<1>7. /\ DOMAIN recent' = {i \in DOMAIN recent : i + RecentLimit > n} \cup {n}
      /\ \A i \in DOMAIN recent' : recent'[i] = IF i = n THEN shown ELSE recent[i]
  BY <1>6 DEF Started
<1>8. DOMAIN recent = {i \in DOMAIN calls : i + RecentLimit > Len(calls)}
  BY DEF RecentAgrees
<1>9. DOMAIN recent' = {i \in DOMAIN calls' : i + RecentLimit > Len(calls')}
  BY <1>4, <1>7, <1>8 DEF BrokerAssumption
<1>10. ASSUME NEW i \in DOMAIN recent'
       PROVE  recent'[i] = IF i \in pending' THEN "pending" ELSE OutcomeFor(calls'[i].outcome)
  <2>1. CASE i = n
    <3>1. n \notin pending
      BY <1>1, <1>4
    <3>. QED  BY <1>2, <1>5, <1>7, <2>1, <3>1 DEF shown
  <2>2. CASE i # n
    <3>1. i \in DOMAIN recent /\ i \in DOMAIN calls
      BY <1>7, <1>8, <2>2
    <3>2. recent'[i] = recent[i] /\ calls'[i] = calls[i] /\ (i \in pending' <=> i \in pending)
      BY <1>2, <1>4, <1>7, <2>2, <3>1
    <3>. QED  BY <3>1, <3>2 DEF RecentAgrees
  <2>. QED  BY <2>1, <2>2
<1>. QED  BY <1>9, <1>10 DEF RecentAgrees

\* A connection that closes in a step that settles ids loses all its requests and
\* tombstones in that step.
ClosedLoseAll(ids) ==
    \A c \in Connections :
        link'[c] = "closed" =>
            \/ link[c] = "closed"
            \/ Owned(c) \subseteq ids /\ \A t \in cancelled' : t.connection # c

\* Settling pending requests leaves tombstones sound: those of other requests stand
\* for calls that were settled before.  A connection that closes has lost them all.
LEMMA SettleTombstones ==
    ASSUME BrokerAssumption, IInv, TombstonesSound,
           NEW ids, ids \subseteq pending,
           NEW code \in Outcomes, code # "pending",
           NEW answer \in SUBSET [from : Connections, kind : Kinds],
           Settle(ids, code, answer),
           cancelled' \subseteq cancelled,
           ClosedLoseAll(ids)
    PROVE  TombstonesSound'
<1>1. /\ calls \in Seq(Call) /\ pending \subseteq DOMAIN calls /\ RequestTypes
      /\ PendingIffUnsettled /\ ActiveMatchesPending
  BY DEF IInv, RequestInv, RequestTypes
<1>2. /\ calls' \in Seq(Call)
      /\ DOMAIN calls' = DOMAIN calls
      /\ Len(calls') = Len(calls)
      /\ \A i \in DOMAIN calls :
            /\ calls'[i].connection = calls[i].connection
            /\ calls'[i].kind = calls[i].kind
            /\ calls'[i].outcome = IF i \in ids THEN code ELSE calls[i].outcome
            /\ calls'[i].answer = IF i \in ids THEN answer ELSE calls[i].answer
  BY <1>1, SettleCalls
<1>3. ASSUME NEW t \in cancelled'
      PROVE  /\ t.id \in DOMAIN calls'
             /\ calls'[t.id].outcome \in {"TIMEOUT", "CANCELLED"}
             /\ t.connection = calls'[t.id].connection
  <2>1. /\ t.id \in DOMAIN calls /\ calls[t.id].outcome \in {"TIMEOUT", "CANCELLED"}
        /\ t.connection = calls[t.id].connection
    BY DEF TombstonesSound
  <2>2. t.id \notin ids
    BY <1>1, <2>1 DEF PendingIffUnsettled
  <2>. QED  BY <1>2, <2>1, <2>2
<1>4. \A t, u \in cancelled' : t.id = u.id \/ t.order = u.order => t = u
  BY DEF TombstonesSound
<1>5. ASSUME NEW c \in Connections, link'[c] = "closed"
      PROVE  /\ Owned(c)' = {} /\ active'[c] = 0
             /\ \A t \in cancelled' : t.connection # c
  <2>1. Owned(c) \subseteq ids /\ \A t \in cancelled' : t.connection # c
    BY <1>5 DEF ClosedLoseAll, TombstonesSound
  <2>2. Owned(c)' = {}
    <3>1. pending' = pending \ ids
      BY DEF Settle
    <3>2. \A i \in pending' : calls'[i].connection = calls[i].connection
      BY <1>1, <1>2, <3>1
    <3>. QED  BY <2>1, <3>1, <3>2 DEF Owned
  <2>3. active'[c] = Cardinality(Owned(c)')
    BY <1>1, SettleActive
  <2>. QED  BY <2>1, <2>2, <2>3, FS_EmptySet
<1>. QED  BY <1>3, <1>4, <1>5 DEF TombstonesSound

\* The tombstone of a request that the bridge gives up is the only one for it, since a
\* pending request has none, and is not left to a closed connection, which owns none.
LEMMA NotifyTombstones ==
    ASSUME BrokerAssumption, IInv, TombstonesSound,
           NEW i \in pending, NEW code \in {"TIMEOUT", "CANCELLED"},
           FailAndNotify(i, code), link' = link
    PROVE  TombstonesSound'
<1> DEFINE kept == Newest(Swept, MaxTombstones - 1)
           new == [id |-> i, connection |-> calls[i].connection,
                   expiresAt |-> now + RequestTimeout, order |-> cancels + 1]
<1>1. /\ calls \in Seq(Call) /\ pending \subseteq DOMAIN calls /\ RequestTypes
      /\ PendingIffUnsettled /\ ActiveMatchesPending /\ TombstoneInv
  BY DEF IInv, RequestInv, RequestTypes
<1>2. /\ Settle({i}, code, {}) /\ cancelled' = kept \cup {new} /\ kept \subseteq cancelled
  BY DEF FailAndNotify, Newest, Swept
<1>3. {} \in SUBSET [from : Connections, kind : Kinds] /\ code \in Outcomes
  BY DEF Outcomes, Failures
<1>4. /\ calls' \in Seq(Call)
      /\ DOMAIN calls' = DOMAIN calls
      /\ Len(calls') = Len(calls)
      /\ \A j \in DOMAIN calls :
            /\ calls'[j].connection = calls[j].connection
            /\ calls'[j].kind = calls[j].kind
            /\ calls'[j].outcome = IF j \in {i} THEN code ELSE calls[j].outcome
            /\ calls'[j].answer = IF j \in {i} THEN {} ELSE calls[j].answer
  BY <1>1, <1>2, <1>3, SettleCalls
<1>5. /\ new.id = i /\ new.connection = calls[i].connection /\ new.order = cancels + 1
  OBVIOUS
<1>6. ASSUME NEW t \in kept
      PROVE  /\ t.id \in DOMAIN calls /\ calls[t.id].outcome \in {"TIMEOUT", "CANCELLED"}
             /\ t.connection = calls[t.id].connection
             /\ t.id # i /\ t.order # cancels + 1
  <2>1. t \in cancelled /\ t.order \in Nat /\ t.order <= cancels /\ cancels \in Nat
    BY <1>1, <1>2 DEF TombstoneInv, TombstoneRecord
  <2>2. /\ t.id \in DOMAIN calls /\ calls[t.id].outcome \in {"TIMEOUT", "CANCELLED"}
        /\ t.connection = calls[t.id].connection
    BY <2>1 DEF TombstonesSound
  <2>3. calls[i].outcome = "pending"
    BY <1>1 DEF PendingIffUnsettled
  <2>. QED  BY <2>1, <2>2, <2>3
<1>. HIDE DEF kept, new
<1>7. \A t \in cancelled' : /\ t.id \in DOMAIN calls'
                            /\ calls'[t.id].outcome \in {"TIMEOUT", "CANCELLED"}
                            /\ t.connection = calls'[t.id].connection
  BY <1>1, <1>2, <1>4, <1>5, <1>6
<1>8. \A t, u \in cancelled' : t.id = u.id \/ t.order = u.order => t = u
  <2>1. \A t, u \in kept : t.id = u.id \/ t.order = u.order => t = u
    BY <1>2 DEF TombstonesSound
  <2>. QED  BY <1>2, <1>5, <1>6, <2>1
<1>9. ASSUME NEW c \in Connections, link'[c] = "closed"
      PROVE  /\ Owned(c)' = {} /\ active'[c] = 0
             /\ \A t \in cancelled' : t.connection # c
  <2>1. Owned(c) = {} /\ \A t \in cancelled : t.connection # c
    BY <1>9 DEF TombstonesSound
  <2>2. Owned(c)' = {}
    <3>1. pending' = pending \ {i}
      BY <1>2 DEF Settle
    <3>2. \A j \in pending' : calls'[j].connection = calls[j].connection
      BY <1>1, <1>4, <3>1
    <3>. QED  BY <2>1, <3>1, <3>2 DEF Owned
  <2>3. active'[c] = Cardinality(Owned(c)')
    BY <1>1, <1>2, <1>3, SettleActive
  <2>4. calls[i].connection # c
    BY <2>1 DEF Owned
  <2>. QED  BY <1>2, <1>5, <2>1, <2>2, <2>3, <2>4, FS_EmptySet
<1>. QED  BY <1>7, <1>8, <1>9 DEF TombstonesSound

\* A new request is never on a closed connection, and no tombstone is about it.
LEMMA InvokeTombstones ==
    ASSUME BrokerAssumption, IInv, TombstonesSound,
           NEW c \in Connections, NEW k \in Kinds, Invoke(c, k)
    PROVE  TombstonesSound'
<1> DEFINE n == Len(calls) + 1
<1>1. /\ calls \in Seq(Call) /\ pending \subseteq DOMAIN calls /\ ClockInv
  BY DEF IInv, RequestInv, RequestTypes
<1>2. PICK outcome \in {"pending", "BROWSER_DISCONNECTED"} :
        /\ calls' = Append(calls, NewCall(c, k, outcome))
        /\ outcome = "pending" => /\ link[c] = "open"
                                  /\ pending' = pending \cup {n}
                                  /\ active' = [active EXCEPT ![c] = @ + 1]
        /\ outcome # "pending" => pending' = pending /\ active' = active
        /\ cancelled' = cancelled
  BY DEF Invoke, InvokeSent, InvokeUnsent, tombstones
<1>3. outcome \in Outcomes
  BY DEF Outcomes, Failures
<1>4. /\ Len(calls) \in Nat /\ DOMAIN calls = 1..Len(calls)
      /\ DOMAIN calls' = 1..n
      /\ \A i \in DOMAIN calls : calls'[i] = calls[i]
      /\ calls'[n] = NewCall(c, k, outcome)
  BY <1>1, <1>2, <1>3, NewCallAppended
<1>5. \A d \in Connections : link'[d] = "closed" => link[d] = "closed"
  BY <1>1 DEF Invoke, Closing, ClockInv
<1>6. \A t \in cancelled' : /\ t.id \in DOMAIN calls'
                            /\ calls'[t.id].outcome \in {"TIMEOUT", "CANCELLED"}
                            /\ t.connection = calls'[t.id].connection
  BY <1>2, <1>4 DEF TombstonesSound
<1>7. \A t, u \in cancelled' : t.id = u.id \/ t.order = u.order => t = u
  BY <1>2 DEF TombstonesSound
<1>8. ASSUME NEW d \in Connections, link'[d] = "closed"
      PROVE  /\ Owned(d)' = {} /\ active'[d] = 0
             /\ \A t \in cancelled' : t.connection # d
  <2>1. Owned(d) = {} /\ active[d] = 0 /\ \A t \in cancelled : t.connection # d
    BY <1>5, <1>8 DEF TombstonesSound
  <2>2. \A j \in pending : calls'[j].connection = calls[j].connection
    BY <1>1, <1>4
  <2>3. CASE outcome = "pending"
    <3>1. d # c /\ pending' = pending \cup {n}
      BY <1>2, <1>5, <1>8, <2>3
    <3>2. calls'[n].connection = c
      BY <1>4 DEF NewCall
    <3>3. Owned(d)' = {}
      BY <2>1, <2>2, <3>1, <3>2 DEF Owned
    <3>4. active'[d] = active[d]
      BY <1>2, <2>3, <3>1 DEF IInv, RequestInv, RequestTypes
    <3>. QED  BY <1>2, <2>1, <3>3, <3>4
  <2>4. CASE outcome # "pending"
    <3>1. Owned(d)' = {}
      BY <1>2, <2>1, <2>2, <2>4 DEF Owned
    <3>. QED  BY <1>2, <2>1, <2>4, <3>1
  <2>. QED  BY <2>3, <2>4
<1>. QED  BY <1>6, <1>7, <1>8 DEF TombstonesSound

\* A step that leaves the requests alone, may drop tombstones and closes nothing.
LEMMA RecordKept ==
    ASSUME RecordInv, UNCHANGED requests, cancelled' \subseteq cancelled,
           \A c \in Connections : link'[c] = "closed" => link[c] = "closed"
    PROVE  RecordInv'
<1>1. \A c : Owned(c)' = Owned(c)
  BY DEF Owned, requests
<1>2. RecentAgrees'
  BY DEF RecordInv, RecentAgrees, requests
<1>3. TombstonesSound'
  BY <1>1 DEF RecordInv, TombstonesSound, requests
<1>. QED  BY <1>2, <1>3 DEF RecordInv

\* Settling pending requests keeps both, if connections that close lose theirs.
LEMMA RecordSettled ==
    ASSUME BrokerAssumption, IInv, RecordInv,
           NEW ids, ids \subseteq pending,
           NEW code \in Outcomes, code # "pending",
           NEW answer \in SUBSET [from : Connections, kind : Kinds],
           Settle(ids, code, answer),
           cancelled' \subseteq cancelled,
           ClosedLoseAll(ids)
    PROVE  RecordInv'
<1>1. RecentAgrees'
  BY SettleRecent DEF RecordInv
<1>2. TombstonesSound'
  BY SettleTombstones DEF RecordInv
<1>. QED  BY <1>1, <1>2 DEF RecordInv

LEMMA RecordGiveUp ==
    ASSUME BrokerAssumption, IInv, RecordInv, NEW i \in Invocations, GiveUp(i)
    PROVE  RecordInv'
<1>1. PICK code \in {"TIMEOUT", "CANCELLED"} : i \in pending /\ FailAndNotify(i, code)
  BY DEF GiveUp, TimerFires, Abort
<1>2. /\ Settle({i}, code, {}) /\ {i} \subseteq pending
      /\ code \in Outcomes /\ code # "pending"
      /\ {} \in SUBSET [from : Connections, kind : Kinds]
  BY <1>1 DEF FailAndNotify, Outcomes, Failures
<1>3. RecentAgrees'
  BY <1>2, SettleRecent DEF RecordInv
<1>4. link' = link
  BY DEF GiveUp
<1>5. TombstonesSound'
  BY <1>1, <1>4, NotifyTombstones DEF RecordInv
<1>. QED  BY <1>3, <1>5 DEF RecordInv

LEMMA RecordMessage ==
    ASSUME BrokerAssumption, IInv, RecordInv,
           NEW c \in Connections, NEW i \in Invocations, Message(c, i)
    PROVE  RecordInv'
<1>1. link' = link
  BY DEF Message
<1>2. CASE LateMessage(c, i)
  <2>1. UNCHANGED requests /\ cancelled' \subseteq cancelled
    BY <1>2 DEF LateMessage, Swept
  <2>. QED  BY <1>1, <2>1, RecordKept
<1>3. CASE ~LateMessage(c, i)
  <2>1. PICK code \in Outcomes \ {"pending"} :
        \E answer \in SUBSET [from : Connections, kind : Kinds] :
            i \in pending /\ Settle({i}, code, answer) /\ cancelled' = cancelled
    <3>1. CASE \E k \in Kinds : Result(c, i, k)
      BY <3>1 DEF Result, Mine, Fail, tombstones, Outcomes, Failures
    <3>2. CASE (\E code \in BrowserErrors : Error(c, i, code)) \/ CancelFromBrowser(c, i)
      BY <3>2 DEF Error, CancelFromBrowser, Mine, ErrorFromBrowser, Fail, tombstones,
                  Outcomes, Failures
    <3>. QED  BY <1>3, <3>1, <3>2 DEF Message
  <2>2. PICK answer \in SUBSET [from : Connections, kind : Kinds] :
            i \in pending /\ Settle({i}, code, answer) /\ cancelled' = cancelled
    BY <2>1
  <2>3. ClosedLoseAll({i})
    BY <1>1 DEF ClosedLoseAll
  <2>4. {i} \subseteq pending /\ cancelled' \subseteq cancelled
    BY <2>2
  <2>. QED  BY <2>2, <2>3, <2>4, RecordSettled
<1>. QED  BY <1>2, <1>3

LEMMA RecordSocket ==
    ASSUME BrokerAssumption, IInv, RecordInv,
           \/ \E cs \in SUBSET Connections : SocketsClose(cs)
           \/ \E c \in Connections : SocketClosed(c)
           \/ BridgeStops
    PROVE  RecordInv'
<1>1. /\ "BROWSER_DISCONNECTED" \in Outcomes /\ "BROWSER_DISCONNECTED" # "pending"
      /\ {} \in SUBSET [from : Connections, kind : Kinds]
      /\ link \in [Connections -> {"open", "closing", "closed"}]
  BY DEF Outcomes, Failures, IInv, ClockInv
<1>2. CASE \E cs \in SUBSET Connections : SocketsClose(cs)
  <2>1. \A d \in Connections : link'[d] = "closed" => link[d] = "closed"
    BY <1>1, <1>2 DEF SocketsClose, Closing
  <2>2. UNCHANGED requests /\ cancelled' \subseteq cancelled
    BY <1>2 DEF SocketsClose, tombstones
  <2>. QED  BY <2>1, <2>2, RecordKept
<1>3. ASSUME NEW c \in Connections, SocketClosed(c) PROVE RecordInv'
  <2>1. /\ Settle(Owned(c), "BROWSER_DISCONNECTED", {}) /\ Owned(c) \subseteq pending
        /\ cancelled' = TombstonesWithout(c) /\ cancelled' \subseteq cancelled
    BY <1>3 DEF SocketClosed, Disconnect, TombstonesWithout, Owned
  <2>2. \A d \in Connections : d # c => link'[d] = link[d]
    BY <1>1, <1>3 DEF SocketClosed
  <2>3. ClosedLoseAll(Owned(c))
    BY <2>1, <2>2 DEF ClosedLoseAll, TombstonesWithout
  <2>. QED  BY <1>1, <2>1, <2>3, RecordSettled
<1>4. CASE BridgeStops
  <2>1. /\ Settle(pending, "BROWSER_DISCONNECTED", {}) /\ pending \subseteq pending
        /\ cancelled' = {} /\ cancelled' \subseteq cancelled
    BY <1>4 DEF BridgeStops, Close
  <2>2. \A d \in Connections : link'[d] = "closed" => link[d] = "closed"
    BY <1>1, <1>4 DEF BridgeStops, Closing
  <2>3. ClosedLoseAll(pending)
    BY <2>2 DEF ClosedLoseAll
  <2>. QED  BY <1>1, <2>1, <2>3, RecordSettled
<1>. QED  BY <1>2, <1>3, <1>4

LEMMA InitRecordInv == BrokerAssumption /\ Init => RecordInv
<1>. SUFFICES ASSUME BrokerAssumption, Init PROVE RecordInv
  OBVIOUS
<1>1. /\ calls = <<>> /\ DOMAIN calls = {} /\ DOMAIN recent = {} /\ cancelled = {}
      /\ \A c \in Connections : link[c] = "open"
  BY DEF Init
<1>2. RecentAgrees
  BY <1>1 DEF RecentAgrees
<1>3. TombstonesSound
  BY <1>1 DEF TombstonesSound
<1>. QED  BY <1>2, <1>3 DEF RecordInv

LEMMA NextRecordInv == BrokerAssumption /\ IInv /\ RecordInv /\ [Next]_vars => RecordInv'
<1>. SUFFICES ASSUME BrokerAssumption, IInv, RecordInv, [Next]_vars PROVE RecordInv'
  OBVIOUS
<1>1. CASE Tick \/ UNCHANGED vars
  <2>1. UNCHANGED requests /\ cancelled' \subseteq cancelled /\ link' = link
    BY <1>1 DEF Tick, vars, tombstones
  <2>. QED  BY <2>1, RecordKept
<1>2. ASSUME NEW c \in Connections, NEW k \in Kinds, Invoke(c, k) PROVE RecordInv'
  BY <1>2, InvokeRecent, InvokeTombstones DEF RecordInv
<1>3. CASE \E i \in Invocations : GiveUp(i)
  BY <1>3, RecordGiveUp
<1>4. CASE \E c \in Connections, i \in Invocations : Message(c, i)
  BY <1>4, RecordMessage
<1>5. CASE \/ \E cs \in SUBSET Connections : SocketsClose(cs)
           \/ \E c \in Connections : SocketClosed(c)
           \/ BridgeStops
  BY <1>5, RecordSocket
<1>. QED  BY <1>1, <1>2, <1>3, <1>4, <1>5 DEF Next

\* The state page agrees with what the callers were told, for any length of the list.
THEOREM RecentListTruthful == Spec => []RecentAgrees
<1>1. RecordInv => RecentAgrees
  BY DEF RecordInv
<1>. QED
  BY <1>1, Invariance, InitRecordInv, NextRecordInv, BrokerAssumption, PTL DEF Spec

\* A tombstone stands for one invocation that was given up, and a closed connection
\* leaves nothing behind: no request, no slot, no tombstone.
THEOREM TombstonesOnlyForGivenUp == Spec => []TombstonesSound
<1>1. RecordInv => TombstonesSound
  BY DEF RecordInv
<1>. QED
  BY <1>1, Invariance, InitRecordInv, NextRecordInv, BrokerAssumption, PTL DEF Spec

-----------------------------------------------------------------------------
(* What the broker's users need besides.                                   *)

\* The recent list is a map: that it is rebuilt from its own entries is no change.
RecentIsMap == recent = [j \in DOMAIN recent |-> recent[j]]

LEMMA InitRecentIsMap == Init => RecentIsMap
<1>. SUFFICES ASSUME Init PROVE RecentIsMap
  OBVIOUS
<1>1. recent = <<>>
  BY DEF Init
<1>. QED  BY <1>1 DEF RecentIsMap

LEMMA NextRecentIsMap == RecentIsMap /\ [Next]_vars => RecentIsMap'
<1>. SUFFICES ASSUME RecentIsMap, [Next]_vars PROVE RecentIsMap'
  OBVIOUS
<1>1. ASSUME recent' = recent PROVE RecentIsMap'
  BY <1>1 DEF RecentIsMap
<1>2. ASSUME NEW ids, NEW code, NEW answer, Settle(ids, code, answer) PROVE RecentIsMap'
  BY <1>2 DEF Settle, Finished, RecentIsMap
<1>3. CASE Tick \/ UNCHANGED vars \/ \E cs \in SUBSET Connections : SocketsClose(cs)
  BY <1>1, <1>3 DEF Tick, vars, requests, SocketsClose
<1>4. ASSUME NEW c, NEW k, Invoke(c, k) PROVE RecentIsMap'
  <2>1. \E outcome : recent' = Started(Len(calls) + 1, outcome)
    BY <1>4 DEF Invoke, InvokeSent, InvokeUnsent
  <2>. QED  BY <2>1 DEF Started, RecentIsMap
<1>5. CASE \/ \E i \in Invocations : GiveUp(i)
           \/ \E c \in Connections : SocketClosed(c)
           \/ BridgeStops
  BY <1>2, <1>5 DEF GiveUp, TimerFires, Abort, FailAndNotify, SocketClosed, Disconnect,
                    BridgeStops, Close
<1>6. ASSUME NEW c, NEW i, Message(c, i) PROVE RecentIsMap'
  BY <1>1, <1>2, <1>6 DEF Message, Result, Error, CancelFromBrowser, Fail, LateMessage, requests
<1>. QED  BY <1>3, <1>4, <1>5, <1>6 DEF Next

\* A connection that is closed has nothing left for a second disconnect to remove.
LEMMA DisconnectAgain ==
    ASSUME IInv, RecordInv, RecentIsMap,
           NEW c \in Connections, link[c] = "closed", Disconnect(c)
    PROVE  UNCHANGED <<requests, tombstones>>
<1>1. Owned(c) = {} /\ \A t \in cancelled : t.connection # c
  BY DEF RecordInv, TombstonesSound
<1>2. /\ calls \in Seq(Call) /\ active \in [Connections -> Nat]
  BY DEF IInv, RequestInv, RequestTypes
<1>3. Settle({}, "BROWSER_DISCONNECTED", {})
  BY <1>1 DEF Disconnect
<1>4. calls' = calls
  BY <1>2, <1>3 DEF Settle
<1>5. pending' = pending /\ recent' = recent
  BY <1>3 DEF Settle, Finished, RecentIsMap
<1>6. active' = active
  <2>1. \A d \in Connections : Released(d, {}) = active[d]
    BY <1>2, FS_EmptySet DEF Released
  <2>. QED  BY <1>2, <1>3, <2>1 DEF Settle
<1>7. cancelled' = cancelled /\ cancels' = cancels
  BY <1>1 DEF Disconnect, TombstonesWithout
<1>. QED  BY <1>4, <1>5, <1>6, <1>7 DEF requests, tombstones

\* A request stays with the connection it was sent to.
OwnersKept ==
    /\ DOMAIN calls \subseteq DOMAIN calls'
    /\ \A i \in DOMAIN calls : calls'[i].connection = calls[i].connection

LEMMA SettleOwners ==
    ASSUME IInv, NEW ids, NEW code \in Outcomes,
           NEW answer \in SUBSET [from : Connections, kind : Kinds],
           Settle(ids, code, answer)
    PROVE  OwnersKept /\ pending' = pending \ ids
<1>1. calls \in Seq(Call)
  BY DEF IInv, RequestInv, RequestTypes
<1>2. pending' = pending \ ids
  BY DEF Settle
<1>. QED  BY <1>1, <1>2, SettleCalls DEF OwnersKept

\* Whoever gives up on a request or answers it changes nobody else's.
LEMMA SettlingOwners ==
    ASSUME IInv, NEW i, GiveUp(i) \/ \E c \in Connections : Message(c, i)
    PROVE  OwnersKept /\ pending' \subseteq pending
<1>1. \A code : ErrorFromBrowser(code) \in Outcomes
  BY DEF ErrorFromBrowser, Outcomes, Failures
<1>2. /\ {} \in SUBSET [from : Connections, kind : Kinds]
      /\ {"TIMEOUT", "CANCELLED", "INVALID_MESSAGE", "success"} \subseteq Outcomes
  BY DEF Outcomes, Failures
<1>3. ASSUME NEW code \in Outcomes, Settle({i}, code, {}) PROVE OwnersKept /\ pending' \subseteq pending
  BY <1>2, <1>3, SettleOwners
<1>4. CASE GiveUp(i)
  BY <1>2, <1>3, <1>4 DEF GiveUp, TimerFires, Abort, FailAndNotify
<1>5. ASSUME NEW c \in Connections, Message(c, i) PROVE OwnersKept /\ pending' \subseteq pending
  <2>1. ASSUME NEW k \in Kinds, Result(c, i, k) PROVE OwnersKept /\ pending' \subseteq pending
    <3>1. {[from |-> c, kind |-> k]} \in SUBSET [from : Connections, kind : Kinds]
      OBVIOUS
    <3>2. \/ Settle({i}, "success", {[from |-> c, kind |-> k]})
          \/ Settle({i}, "INVALID_MESSAGE", {})
      BY <2>1 DEF Result, Fail
    <3>. QED  BY <1>2, <1>3, <3>1, <3>2, SettleOwners
  <2>2. CASE (\E code \in BrowserErrors : Error(c, i, code)) \/ CancelFromBrowser(c, i)
    BY <1>1, <1>2, <1>3, <2>2 DEF Error, CancelFromBrowser, Fail
  <2>3. CASE LateMessage(c, i)
    BY <2>3 DEF LateMessage, requests, OwnersKept
  <2>. QED  BY <1>5, <2>1, <2>2, <2>3 DEF Message
<1>. QED  BY <1>4, <1>5

\* A disconnect takes the connection's requests, a close all.
LEMMA DisconnectOwners ==
    ASSUME IInv
    PROVE  /\ \A c : Disconnect(c) => OwnersKept /\ pending' = pending \ Owned(c)
           /\ Close => OwnersKept /\ pending' = {}
<1>1. "BROWSER_DISCONNECTED" \in Outcomes
  BY DEF Outcomes, Failures
<1>2. ASSUME NEW c, Disconnect(c) PROVE OwnersKept /\ pending' = pending \ Owned(c)
  BY <1>1, <1>2, SettleOwners DEF Disconnect
<1>3. ASSUME Close PROVE OwnersKept /\ pending' = {}
  <2>1. Settle(pending, "BROWSER_DISCONNECTED", {})
    BY <1>3 DEF Close
  <2>2. OwnersKept /\ pending' = pending \ pending
    BY <1>1, <2>1, SettleOwners
  <2>. QED  BY <2>2
<1>. QED  BY <1>2, <1>3

\* A caller's request is the connection's that it is sent to.
LEMMA InvokeOwners ==
    ASSUME IInv, NEW c \in Connections, NEW k \in Kinds, Invoke(c, k)
    PROVE  /\ OwnersKept /\ pending \subseteq pending'
           /\ \A i \in pending' \ pending : calls'[i].connection = c
<1>1. /\ calls \in Seq(Call) /\ ClockInv
      /\ \E outcome \in Outcomes : calls' = Append(calls, NewCall(c, k, outcome))
      /\ pending' \in {pending, pending \cup {Len(calls) + 1}}
  BY DEF IInv, RequestInv, RequestTypes, Invoke, InvokeSent, InvokeUnsent, Outcomes, Failures
<1>2. /\ DOMAIN calls = 1..Len(calls) /\ DOMAIN calls' = 1..(Len(calls) + 1) /\ Len(calls) \in Nat
      /\ \A i \in DOMAIN calls : calls'[i] = calls[i]
      /\ \E outcome \in Outcomes : calls'[Len(calls) + 1] = NewCall(c, k, outcome)
  BY <1>1, BrokerAssumption, NewCallAppended
<1>3. calls'[Len(calls) + 1].connection = c
  BY <1>2 DEF NewCall
<1>. QED  BY <1>1, <1>2, <1>3 DEF OwnersKept

-----------------------------------------------------------------------------
(* The broker implements the ledger.  A line is what LedgerView shows of a *)
(* call; open lines are pending requests, so a set of requests that is     *)
(* settled with a failure is a Close, and a result is a Succeed.           *)

\* What a line shows of a call.
LineOf(call) == [connection |-> call.connection, kind |-> call.kind,
                 outcome |-> call.outcome, answer |-> call.answer]

\* The view is a list as long as the list of calls.
LEMMA ViewLines ==
    ASSUME calls \in Seq(Call)
    PROVE  /\ Len(calls) \in Nat
           /\ DOMAIN calls = 1..Len(calls)
           /\ DOMAIN LedgerView = DOMAIN calls
           /\ \A i \in DOMAIN calls : LedgerView[i] = LineOf(calls[i])
  BY LenProperties DEF LedgerView, LineOf

LEMMA OpenIsPending ==
    ASSUME IInv
    PROVE  Ledger!Open = pending
<1>1. calls \in Seq(Call) /\ pending = {i \in DOMAIN calls : calls[i].outcome = "pending"}
  BY DEF IInv, RequestInv, RequestTypes, PendingIffUnsettled
<1>2. \A i \in DOMAIN calls : LedgerView[i].outcome = calls[i].outcome
  BY <1>1, ViewLines DEF LineOf
<1>3. DOMAIN LedgerView = DOMAIN calls
  BY <1>1, ViewLines
<1>. QED  BY <1>1, <1>2, <1>3 DEF Ledger!Open

\* Settling rewrites the outcome and the answer of its own lines.
LEMMA SettleLines ==
    ASSUME IInv, NEW ids, NEW code \in Outcomes,
           NEW answer \in SUBSET [from : Connections, kind : Kinds],
           Settle(ids, code, answer)
    PROVE  LedgerView' = [i \in DOMAIN calls |->
                            IF i \in ids
                            THEN [connection |-> calls[i].connection, kind |-> calls[i].kind,
                                  outcome |-> code, answer |-> answer]
                            ELSE LedgerView[i]]
<1>1. calls \in Seq(Call)
  BY DEF IInv, RequestInv, RequestTypes
<1>2. /\ calls' \in Seq(Call)
      /\ DOMAIN calls' = DOMAIN calls
      /\ Len(calls') = Len(calls)
      /\ \A i \in DOMAIN calls :
            /\ calls'[i].connection = calls[i].connection
            /\ calls'[i].kind = calls[i].kind
            /\ calls'[i].outcome = IF i \in ids THEN code ELSE calls[i].outcome
            /\ calls'[i].answer = IF i \in ids THEN answer ELSE calls[i].answer
  BY <1>1, SettleCalls
<1>3. \A i \in DOMAIN calls : LedgerView[i] = LineOf(calls[i])
  BY <1>1, ViewLines
<1>4. ASSUME NEW i \in DOMAIN calls
      PROVE  LineOf(calls'[i]) =
                IF i \in ids
                THEN [connection |-> calls[i].connection, kind |-> calls[i].kind,
                      outcome |-> code, answer |-> answer]
                ELSE LedgerView[i]
  BY <1>2, <1>3 DEF LineOf
<1>5. LedgerView' = [i \in DOMAIN calls |-> LineOf(calls'[i])]
  BY <1>2 DEF LedgerView, LineOf
<1>. QED  BY <1>4, <1>5

\* Settling pending requests with a failure closes their lines and no others.
LEMMA SettleCloses ==
    ASSUME IInv, NEW ids, ids \subseteq pending, NEW code \in Failures,
           Settle(ids, code, {})
    PROVE  Ledger!Close(ids, code)
<1>1. calls \in Seq(Call) /\ pending \subseteq DOMAIN calls
  BY DEF IInv, RequestInv, RequestTypes
<1>2. code \in Outcomes /\ {} \in SUBSET [from : Connections, kind : Kinds]
  BY DEF Outcomes
<1>3. /\ DOMAIN LedgerView = DOMAIN calls
      /\ \A i \in DOMAIN calls : LedgerView[i] = LineOf(calls[i])
  BY <1>1, ViewLines
<1>4. ASSUME NEW i \in ids
      PROVE  [LedgerView[i] EXCEPT !.outcome = code] =
                [connection |-> calls[i].connection, kind |-> calls[i].kind,
                 outcome |-> code, answer |-> {}]
  <2>1. calls[i].answer = {} /\ LedgerView[i] = LineOf(calls[i])
    BY <1>1, <1>3 DEF IInv, RequestInv, AnswerIsOwners, PendingIffUnsettled
  <2>. QED  BY <2>1 DEF LineOf
<1>5. LedgerView' = [i \in DOMAIN calls |->
                       IF i \in ids
                       THEN [connection |-> calls[i].connection, kind |-> calls[i].kind,
                             outcome |-> code, answer |-> {}]
                       ELSE LedgerView[i]]
  BY <1>2, SettleLines
<1>6. LedgerView' = [i \in DOMAIN LedgerView |->
                       IF i \in ids THEN [LedgerView[i] EXCEPT !.outcome = code]
                                    ELSE LedgerView[i]]
  BY <1>3, <1>4, <1>5, Zenon
<1>7. Ledger!Open = pending
  BY OpenIsPending
<1>. QED  BY <1>6, <1>7 DEF Ledger!Close

LEMMA AnswerType ==
    ASSUME NEW c \in Connections, NEW k \in Kinds
    PROVE  {[from |-> c, kind |-> k]} \in SUBSET [from : Connections, kind : Kinds]
  OBVIOUS

\* A result settles the owner's line with the owner's answer.
LEMMA ResultSucceeds ==
    ASSUME IInv, NEW c \in Connections, NEW i, Mine(c, i), calls[i].kind \in Kinds,
           Settle({i}, "success", {[from |-> c, kind |-> calls[i].kind]})
    PROVE  Ledger!Succeed(i)
<1> DEFINE answer == {[from |-> LedgerView[i].connection, kind |-> LedgerView[i].kind]}
           settled == [LedgerView[i] EXCEPT !.outcome = "success"]
           line == [settled EXCEPT !.answer = answer]
<1>1. calls \in Seq(Call) /\ i \in pending /\ i \in DOMAIN calls /\ calls[i].connection = c
  BY DEF Mine, IInv, RequestInv, RequestTypes
<1>2. /\ DOMAIN LedgerView = DOMAIN calls
      /\ LedgerView[i] = LineOf(calls[i])
  BY <1>1, ViewLines
<1>3. answer = {[from |-> c, kind |-> calls[i].kind]}
  BY <1>1, <1>2 DEF LineOf
<1>. HIDE DEF answer
<1>4. /\ Settle({i}, "success", answer)
      /\ "success" \in Outcomes
      /\ answer \in SUBSET [from : Connections, kind : Kinds]
  <2>1. "success" \in Outcomes
    BY DEF Outcomes
  <2>2. answer \in SUBSET [from : Connections, kind : Kinds]
    BY <1>3, AnswerType, Zenon
  <2>3. Settle({i}, "success", answer)
    BY <1>3
  <2>. QED  BY <2>1, <2>2, <2>3
<1>5. settled = [connection |-> calls[i].connection, kind |-> calls[i].kind,
                 outcome |-> "success", answer |-> calls[i].answer]
  BY <1>2 DEF LineOf
<1>. HIDE DEF settled
<1>6. line = [connection |-> calls[i].connection, kind |-> calls[i].kind,
              outcome |-> "success", answer |-> answer]
  BY <1>5
<1>. HIDE DEF line
<1>7. LedgerView' = [j \in DOMAIN calls |->
                       IF j \in {i}
                       THEN [connection |-> calls[j].connection, kind |-> calls[j].kind,
                             outcome |-> "success", answer |-> answer]
                       ELSE LedgerView[j]]
  BY <1>4, SettleLines
<1>8. LedgerView' = [j \in DOMAIN LedgerView |-> IF j = i THEN line ELSE LedgerView[j]]
  BY <1>2, <1>6, <1>7, Zenon
<1>9. LedgerView' = [LedgerView EXCEPT ![i] = line]
  BY <1>8, Zenon
<1>10. i \in Ledger!Open
  BY <1>1, OpenIsPending
<1>. QED  BY <1>1, <1>2, <1>9, <1>10 DEF Ledger!Succeed, line, settled, answer

\* A new call is a new last line.
LEMMA InvokeForwards ==
    ASSUME BrokerAssumption, IInv,
           NEW c \in Connections, NEW k \in Kinds, NEW outcome \in Outcomes,
           calls' = Append(calls, NewCall(c, k, outcome))
    PROVE  LedgerView' = Append(LedgerView, Ledger!Line(c, k, outcome))
<1> DEFINE n == Len(calls)
           Lines == [connection : Connections, kind : Kinds, outcome : Outcomes,
                     answer : SUBSET [from : Connections, kind : Kinds]]
           new == Ledger!Line(c, k, outcome)
           longer == Append(LedgerView, new)
<1>1. calls \in Seq(Call) /\ ClockInv
  BY DEF IInv, RequestInv, RequestTypes
<1>2. /\ n \in Nat /\ DOMAIN calls = 1..n
      /\ DOMAIN calls' = 1..(n + 1)
      /\ \A i \in DOMAIN calls : calls'[i] = calls[i]
      /\ calls'[n + 1] = NewCall(c, k, outcome)
  BY <1>1, NewCallAppended
<1>3. DOMAIN LedgerView = 1..n /\ \A i \in 1..n : LedgerView[i] = LineOf(calls[i])
  BY <1>1, <1>2, ViewLines
<1>4. new \in Lines /\ new = LineOf(calls'[n + 1])
  <2>1. new = [connection |-> c, kind |-> k, outcome |-> outcome, answer |-> {}]
    BY DEF Ledger!Line
  <2>2. new \in Lines
    BY <2>1
  <2>3. LineOf(NewCall(c, k, outcome)) =
            [connection |-> c, kind |-> k, outcome |-> outcome, answer |-> {}]
    BY DEF LineOf, NewCall
  <2>. QED  BY <1>2, <2>1, <2>2, <2>3
<1>5. LedgerView \in [1..n -> Lines]
  <2>1. LedgerView = [i \in 1..n |-> LineOf(calls[i])]
    BY <1>2 DEF LedgerView, LineOf
  <2>2. ASSUME NEW i \in 1..n PROVE LineOf(calls[i]) \in Lines
    <3>1. calls[i] \in Call
      BY <1>1, <1>2
    <3>. QED  BY <3>1 DEF LineOf, Call
  <2>. QED  BY <2>1, <2>2
<1>. HIDE DEF Lines, new
<1>6. LedgerView \in Seq(Lines) /\ Len(LedgerView) = n
  <2>1. LedgerView \in Seq(Lines)
    BY <1>2, <1>5, SeqDef
  <2>. QED  BY <1>2, <1>3, <2>1, LenProperties
<1>7. /\ longer \in Seq(Lines) /\ Len(longer) = n + 1
      /\ \A i \in 1..n : longer[i] = LedgerView[i]
      /\ longer[n + 1] = new
  BY <1>4, <1>6, AppendProperties
<1>8. longer = [i \in 1..(n + 1) |-> longer[i]]
  BY <1>7, LenProperties
<1>9. \A i \in 1..(n + 1) : longer[i] = LineOf(calls'[i])
  BY <1>2, <1>3, <1>4, <1>7
<1>10. LedgerView' = [i \in 1..(n + 1) |-> LineOf(calls'[i])]
  BY <1>2 DEF LedgerView, LineOf
<1>. HIDE DEF longer
<1>11. LedgerView' = longer
  BY <1>8, <1>9, <1>10
<1>. QED  BY <1>11 DEF longer, new

\* Every step of the broker is a step of the ledger or leaves it alone.
LEMMA LedgerMessage ==
    ASSUME BrokerAssumption, IInv,
           NEW c \in Connections, NEW i \in Invocations, Message(c, i)
    PROVE  Ledger!Next \/ LedgerView' = LedgerView
<1>1. calls \in Seq(Call) /\ pending \subseteq DOMAIN calls
  BY DEF IInv, RequestInv, RequestTypes
<1>2. DOMAIN LedgerView = DOMAIN calls /\ Ledger!Open = pending
  BY <1>1, ViewLines, OpenIsPending
<1>3. ASSUME NEW code \in Failures, i \in pending, Fail(i, code)
      PROVE  Ledger!Next
  <2>1. Ledger!GiveUp(i, code)
    <3>1. {i} \subseteq pending /\ Settle({i}, code, {})
      BY <1>3 DEF Fail
    <3>2. Ledger!Close({i}, code)
      BY <3>1, SettleCloses
    <3>. QED  BY <1>2, <1>3, <3>2 DEF Ledger!GiveUp
  <2>2. code \in Ledger!Failures /\ i \in DOMAIN LedgerView
    BY <1>1, <1>2, <1>3 DEF Ledger!Failures, Failures
  <2>. QED  BY <2>1, <2>2 DEF Ledger!Next
<1>4. CASE \E k \in Kinds : Result(c, i, k)
  <2>1. PICK k \in Kinds : Result(c, i, k)
    BY <1>4
  <2>2. i \in pending /\ Mine(c, i) /\ i \in DOMAIN LedgerView
    BY <1>1, <1>2, <2>1 DEF Result, Mine
  <2>3. CASE k = calls[i].kind
    <3>1. Settle({i}, "success", {[from |-> c, kind |-> calls[i].kind]}) /\ calls[i].kind \in Kinds
      BY <2>1, <2>3 DEF Result
    <3>2. Ledger!Succeed(i)
      BY <2>2, <3>1, ResultSucceeds
    <3>. QED  BY <2>2, <3>2 DEF Ledger!Next
  <2>4. CASE k # calls[i].kind
    <3>1. Fail(i, "INVALID_MESSAGE") /\ "INVALID_MESSAGE" \in Failures
      BY <2>1, <2>4 DEF Result, Failures
    <3>. QED  BY <1>3, <2>2, <3>1
  <2>. QED  BY <2>3, <2>4
<1>5. CASE (\E code \in BrowserErrors : Error(c, i, code)) \/ CancelFromBrowser(c, i)
  <2>1. PICK code \in Failures : i \in pending /\ Fail(i, code)
    BY <1>5 DEF Error, CancelFromBrowser, Mine, ErrorFromBrowser, Failures
  <2>. QED  BY <1>3, <2>1
<1>6. CASE LateMessage(c, i)
  BY <1>6 DEF LateMessage, requests, LedgerView
<1>. QED  BY <1>4, <1>5, <1>6 DEF Message

LEMMA LedgerSocket ==
    ASSUME BrokerAssumption, IInv,
           \/ \E cs \in SUBSET Connections : SocketsClose(cs)
           \/ \E c \in Connections : SocketClosed(c)
           \/ BridgeStops
    PROVE  Ledger!Next \/ LedgerView' = LedgerView
<1>1. calls \in Seq(Call) /\ pending \subseteq DOMAIN calls
  BY DEF IInv, RequestInv, RequestTypes
<1>2. /\ Ledger!Open = pending
      /\ \A i \in DOMAIN calls : LedgerView[i] = LineOf(calls[i])
      /\ "BROWSER_DISCONNECTED" \in Failures
  BY <1>1, ViewLines, OpenIsPending DEF Failures
<1>3. CASE \E cs \in SUBSET Connections : SocketsClose(cs)
  BY <1>3 DEF SocketsClose, requests, LedgerView
<1>4. ASSUME NEW c \in Connections, SocketClosed(c) PROVE Ledger!Next
  <2>1. Owned(c) \subseteq pending /\ Settle(Owned(c), "BROWSER_DISCONNECTED", {})
    BY <1>4 DEF SocketClosed, Disconnect, Owned
  <2>2. Ledger!Close(Owned(c), "BROWSER_DISCONNECTED")
    BY <1>2, <2>1, SettleCloses
  <2>3. ASSUME NEW i \in pending PROVE LedgerView[i].connection = calls[i].connection
    <3>1. LedgerView[i] = LineOf(calls[i])
      BY <1>1, <1>2
    <3>. QED  BY <3>1 DEF LineOf
  <2>4. {i \in Ledger!Open : LedgerView[i].connection = c} = Owned(c)
    BY <1>2, <2>3 DEF Owned
  <2>. QED  BY <2>2, <2>4 DEF Ledger!Next, Ledger!LoseOwner
<1>5. CASE BridgeStops
  <2>1. Settle(pending, "BROWSER_DISCONNECTED", {}) /\ pending \subseteq pending
    BY <1>5 DEF BridgeStops, Close
  <2>2. Ledger!Close(pending, "BROWSER_DISCONNECTED")
    BY <1>2, <2>1, SettleCloses
  <2>. QED  BY <1>2, <2>2 DEF Ledger!Next, Ledger!Stop
<1>. QED  BY <1>3, <1>4, <1>5

LEMMA LedgerNext == BrokerAssumption /\ IInv /\ [Next]_vars => [Ledger!Next]_LedgerView
<1>. SUFFICES ASSUME BrokerAssumption, IInv, [Next]_vars
              PROVE  Ledger!Next \/ LedgerView' = LedgerView
  OBVIOUS
<1>1. CASE Tick \/ UNCHANGED vars
  BY <1>1 DEF Tick, vars, requests, LedgerView
<1>2. ASSUME NEW c \in Connections, NEW k \in Kinds, Invoke(c, k)
      PROVE  Ledger!Next
  <2>1. CASE InvokeSent(c, k)
    <3>1. calls' = Append(calls, NewCall(c, k, "pending")) /\ "pending" \in Outcomes
      BY <2>1 DEF InvokeSent, Outcomes
    <3>2. Ledger!Forward(c, k)
      BY <3>1, InvokeForwards DEF Ledger!Forward
    <3>. QED  BY <3>2 DEF Ledger!Next
  <2>2. CASE InvokeUnsent(c, k)
    <3>1. /\ calls' = Append(calls, NewCall(c, k, "BROWSER_DISCONNECTED"))
          /\ "BROWSER_DISCONNECTED" \in Outcomes
      BY <2>2 DEF InvokeUnsent, Outcomes, Failures
    <3>2. Ledger!Unreachable(c, k)
      BY <3>1, InvokeForwards DEF Ledger!Unreachable
    <3>. QED  BY <3>2 DEF Ledger!Next
  <2>. QED  BY <1>2, <2>1, <2>2 DEF Invoke
<1>3. ASSUME NEW i \in Invocations, GiveUp(i) PROVE Ledger!Next
  <2>1. PICK code \in {"TIMEOUT", "CANCELLED"} : i \in pending /\ FailAndNotify(i, code)
    BY <1>3 DEF GiveUp, TimerFires, Abort
  <2>2. /\ {i} \subseteq pending /\ Settle({i}, code, {})
        /\ code \in Failures /\ code \in Ledger!Failures
    BY <2>1 DEF FailAndNotify, Failures, Ledger!Failures
  <2>3. calls \in Seq(Call) /\ pending \subseteq DOMAIN calls
    BY DEF IInv, RequestInv, RequestTypes
  <2>4. Ledger!Open = pending /\ i \in DOMAIN LedgerView
    BY <2>1, <2>3, ViewLines, OpenIsPending
  <2>5. Ledger!GiveUp(i, code)
    BY <2>1, <2>2, <2>4, SettleCloses DEF Ledger!GiveUp
  <2>. QED  BY <2>2, <2>4, <2>5 DEF Ledger!Next
<1>4. CASE \E c \in Connections, i \in Invocations : Message(c, i)
  BY <1>4, LedgerMessage
<1>5. CASE \/ \E cs \in SUBSET Connections : SocketsClose(cs)
           \/ \E c \in Connections : SocketClosed(c)
           \/ BridgeStops
  BY <1>5, LedgerSocket
<1>. QED  BY <1>1, <1>2, <1>3, <1>4, <1>5 DEF Next

\* The broker implements the ledger: whatever races to settle a request, each has one
\* owner and reaches one terminal state once, as architecture.md promises callers.
THEOREM OneTerminalState == Spec => ImplementsLedger
<1>1. Init => Ledger!Init
  BY DEF Init, LedgerView, Ledger!Init
<1>2. Spec => [][Ledger!Next]_LedgerView
  BY LedgerNext, Invariance, BrokerAssumption, PTL DEF Spec
<1>. QED  BY <1>1, <1>2, PTL DEF Spec, ImplementsLedger, Ledger!Spec
=============================================================================
