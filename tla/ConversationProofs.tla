------------------------- MODULE ConversationProofs -------------------------
(***************************************************************************)
(* Proofs about Conversation for every value of its constants: with no     *)
(* subscriber that registers when it hears of the connection, the bridge's *)
(* routes and the client's handlers agree once both have said all, and an  *)
(* invocation that arrives finds its handler and a slot.                   *)
(*                                                                         *)
(* Most of the inductive invariant is about what is on its way: calls are  *)
(* handled and answered in the order of their ids, and what the bridge has *)
(* done is what the replies still to arrive will tell the client.          *)
(***************************************************************************)
EXTENDS Conversation, FiniteSetTheorems, TLAPS

CallMessages == [id : Nat, of : {"register", "unregister"}, reg : Regs]
UpMessages == CallMessages \cup [of : {"answer"}, inv : Invocations]
DownMessages ==
    [type : {"reply"}, id : Nat, outcome : {"done", "refused"}]
        \cup [type : {"invoke"}, inv : Invocations, reg : Regs]
        \cup [type : {"cancel"}, inv : Invocations]

Types ==
    /\ link \in {"down", "up", "closing", "failed"}
    /\ caps \subseteq Regs
    /\ regs \in [Regs -> {"none", "pending", "registering", "registered", "rejected", "removed"}]
    /\ replies \subseteq CallMessages
    /\ active \subseteq Invocations /\ pending \subseteq Invocations
    /\ up \in Seq(UpMessages) /\ down \in Seq(DownMessages)
    /\ routes \subseteq Regs
    /\ used \in [connections : Nat, calls : Nat, invocations : Nat]

Asked(m) == m.of # "answer"
ReplyAt(d, i) == d[i].type = "reply"

\* The message at i tells that what was called for r has been done, if anyone still waits
\* for it; if nobody does, its arrival ends the connection.
SettlesAt(d, waiting, i, of, r) ==
    /\ d[i].type = "reply" /\ d[i].outcome = "done"
    /\ \A p \in waiting : p.id = d[i].id => p.of = of /\ p.reg = r

\* Calls are handled and answered in the order of their ids.
UpOrder(u, calls) ==
    /\ \A i \in 1..Len(u) : Asked(u[i]) => u[i].id \in 1..calls
    /\ \A i, j \in 1..Len(u) : i < j /\ Asked(u[i]) /\ Asked(u[j]) => u[i].id < u[j].id
DownOrder(d, calls) ==
    /\ \A i \in 1..Len(d) : ReplyAt(d, i) => d[i].id \in 1..calls
    /\ \A i, j \in 1..Len(d) : i < j /\ ReplyAt(d, i) /\ ReplyAt(d, j) => d[i].id < d[j].id
CrossOrder(u, d) ==
    \A i \in 1..Len(d), j \in 1..Len(u) : ReplyAt(d, i) /\ Asked(u[j]) => d[i].id < u[j].id

\* A call that is waited for is on its way, or its reply is.
WaitingIds(u, waiting, calls) ==
    /\ \A p \in waiting : p.id \in 1..calls
    /\ \A p, q \in waiting : p.id = q.id => p = q
    /\ \A j \in 1..Len(u), p \in waiting : Asked(u[j]) /\ p.id = u[j].id => p = u[j]
Underway(u, d, waiting) ==
    \A p \in waiting : \/ \E j \in 1..Len(u) : Asked(u[j]) /\ u[j].id = p.id
                       \/ \E i \in 1..Len(d) : ReplyAt(d, i) /\ d[i].id = p.id

\* A registration is asked for once in a connection, before anything else is.
FirstAsked(waiting, status) ==
    /\ \A p \in waiting : p.of = "register" => status[p.reg] = "registering"
    /\ \A p, q \in waiting : p.of = "register" /\ q.reg = p.reg => p.id <= q.id
AskedOnce(u, waiting, status, rt) ==
    \A j \in 1..Len(u) : u[j].of = "register" =>
        /\ u[j].reg \notin rt /\ status[u[j].reg] \notin {"none", "registered"}
        /\ \A p \in waiting : p.reg = u[j].reg => u[j].id <= p.id
        /\ \A k \in 1..Len(u) : k # j /\ u[k].of = "register" => u[k].reg # u[j].reg
NeverAsked(waiting, status, rt) ==
    \A r \in Regs : status[r] = "none" => r \notin rt /\ \A p \in waiting : p.reg # r

\* What the bridge has handled, the client has heard or will.
RoutesHeard(d, waiting, status, rt) ==
    \A r \in rt : \/ status[r] = "registered"
                  \/ \E i \in 1..Len(d) : SettlesAt(d, waiting, i, "register", r)
HandlersRouted(d, waiting, status, rt) ==
    \A r \in Regs : status[r] = "registered" =>
        r \in rt \/ \E i \in 1..Len(d) : SettlesAt(d, waiting, i, "unregister", r)
RepliesTrue(d, waiting, rt) ==
    \A p \in waiting, i \in 1..Len(d) : ReplyAt(d, i) /\ d[i].id = p.id =>
        IF p.of = "register" /\ d[i].outcome = "done"
        THEN p.reg \in rt \/ \E k \in 1..Len(d) : SettlesAt(d, waiting, k, "unregister", p.reg)
        ELSE p.reg \notin rt

\* An invocation finds what has been confirmed before it and not been taken back.
InvokesConfirmed(d, waiting, status) ==
    \A k \in 1..Len(d) : d[k].type = "invoke" =>
        \/ status[d[k].reg] = "registered"
        \/ \E i \in 1..Len(d) : i < k /\ SettlesAt(d, waiting, i, "register", d[k].reg)
InvokesKept(d, waiting) ==
    \A k, i \in 1..Len(d), p \in waiting :
        d[k].type = "invoke" /\ i < k /\ ReplyAt(d, i) /\ d[i].id = p.id /\ p.reg = d[k].reg
            => p.of = "register" /\ d[i].outcome = "done"

\* Invocations arrive in their order, and what is over is older.
Numbers(u, d, busy, open, invocations) ==
    /\ \A i \in busy : i <= invocations
    /\ \A i \in open : i <= invocations
    /\ \A i \in 1..Len(d) : d[i].type # "reply" => d[i].inv <= invocations
    /\ \A j \in 1..Len(u) : u[j].of = "answer" => u[j].inv \notin busy /\ u[j].inv <= invocations
InvokesNewest(u, d, busy) ==
    \A k \in 1..Len(d) : d[k].type = "invoke" =>
        /\ \A i \in busy : i < d[k].inv
        /\ \A j \in 1..Len(u) : u[j].of = "answer" => u[j].inv < d[k].inv
        /\ \A i \in 1..Len(d) : i < k /\ d[i].type # "reply" => d[i].inv < d[k].inv

\* What the bridge waits for, or has given up without the client's knowing it yet, was
\* within the limit when an invocation was sent.
CancelledAfter(d, k, i) == \E l \in 1..Len(d) : l > k /\ d[l].type = "cancel" /\ d[l].inv = i
Counted(d, open, k) ==
    {i \in Invocations : i <= d[k].inv /\ (i \in open \/ CancelledAfter(d, k, i))}
BusyCounted(d, busy, open) == \A i \in busy : i \in open \/ CancelledAfter(d, 0, i)
InvokesCounted(d, open) ==
    \A k \in 1..Len(d) : d[k].type = "invoke" =>
        /\ d[k].inv \in open \/ CancelledAfter(d, k, d[k].inv)
        /\ Cardinality(Counted(d, open, k)) <= Limit

OrderInv == UpOrder(up, used.calls) /\ DownOrder(down, used.calls) /\ CrossOrder(up, down)
WaitingInv == WaitingIds(up, replies, used.calls) /\ Underway(up, down, replies)
AskedInv ==
    /\ FirstAsked(replies, regs) /\ AskedOnce(up, replies, regs, routes)
    /\ NeverAsked(replies, regs, routes)
RoutesInv ==
    /\ RoutesHeard(down, replies, regs, routes) /\ HandlersRouted(down, replies, regs, routes)
    /\ RepliesTrue(down, replies, routes)
    /\ InvokesConfirmed(down, replies, regs) /\ InvokesKept(down, replies)
SlotsInv ==
    /\ Numbers(up, down, active, pending, used.invocations) /\ InvokesNewest(up, down, active)
    /\ BusyCounted(down, active, pending) /\ InvokesCounted(down, pending)

UpInv == OrderInv /\ WaitingInv /\ AskedInv /\ RoutesInv /\ SlotsInv
DownInv ==
    /\ up = <<>> /\ down = <<>>
    /\ replies = {} /\ active = {} /\ routes = {} /\ pending = {}
    /\ \A r \in Regs : regs[r] \notin {"registering", "registered"}

TalkInv ==
    /\ Types
    /\ link = "up" => UpInv
    /\ link = "down" => DownInv

-----------------------------------------------------------------------------
(* Sequences and messages.                                                  *)

\* t is s with m at its end; t is s without its head.
Grows(s, t, m) ==
    /\ Len(s) \in Nat /\ Len(t) = Len(s) + 1
    /\ \A i \in 1..Len(s) : t[i] = s[i]
    /\ t[Len(s) + 1] = m
Shrinks(s, t) ==
    /\ Len(s) \in Nat /\ Len(s) >= 1 /\ Len(t) = Len(s) - 1
    /\ \A i \in 1..Len(t) : t[i] = s[i + 1]

LEMMA AppendGrows ==
    ASSUME NEW S, NEW s \in Seq(S), NEW m
    PROVE  Grows(s, Append(s, m), m)
BY DEF Grows

LEMMA ConcatLength ==
    ASSUME NEW S, NEW s \in Seq(S), NEW t \in Seq(S)
    PROVE  s \o t \in Seq(S) /\ Len(s \o t) = Len(s) + Len(t)
OBVIOUS

LEMMA TailShrinks ==
    ASSUME NEW S, NEW s \in Seq(S), s # <<>>
    PROVE  Shrinks(s, Tail(s)) /\ Head(s) = s[1] /\ Tail(s) \in Seq(S) /\ s[1] \in S
BY DEF Shrinks

\* What is known of the fields of the messages and of the calls waited for.
Fields ==
    /\ Len(up) \in Nat /\ Len(down) \in Nat
    /\ \A j \in 1..Len(up) :
          /\ Asked(up[j]) => up[j].id \in Nat /\ up[j].reg \in Regs
                                /\ up[j].of \in {"register", "unregister"}
          /\ up[j].of = "answer" => up[j].inv \in Invocations
    /\ \A i \in 1..Len(down) :
          /\ down[i].type \in {"reply", "invoke", "cancel"}
          /\ down[i].type = "reply" => down[i].id \in Nat /\ down[i].outcome \in {"done", "refused"}
          /\ down[i].type = "invoke" => down[i].reg \in Regs
          /\ down[i].type # "reply" => down[i].inv \in Invocations
    /\ \A p \in replies : p.id \in Nat /\ p.of \in {"register", "unregister"} /\ p.reg \in Regs
    /\ used.calls \in Nat /\ used.invocations \in Nat /\ used.connections \in Nat
    /\ MaxInvocations \in Nat /\ Invocations \subseteq Nat /\ Limit \in Nat

LEMMA TypesFields == ASSUME Types PROVE Fields
<1>1. Len(up) \in Nat /\ \A j \in 1..Len(up) : up[j] \in UpMessages
  BY DEF Types
<1>2. Len(down) \in Nat /\ \A i \in 1..Len(down) : down[i] \in DownMessages
  BY DEF Types
<1>3. \A m \in CallMessages :
        m.id \in Nat /\ m.of \in {"register", "unregister"} /\ m.reg \in Regs
  BY DEF CallMessages
<1>4. \A m \in UpMessages :
        /\ Asked(m) => m \in CallMessages
        /\ m.of = "answer" => m.inv \in Invocations
  BY DEF UpMessages, Asked, CallMessages
<1>5. \A m \in DownMessages :
        /\ m.type \in {"reply", "invoke", "cancel"}
        /\ m.type = "reply" => m.id \in Nat /\ m.outcome \in {"done", "refused"}
        /\ m.type = "invoke" => m.reg \in Regs
        /\ m.type # "reply" => m.inv \in Invocations
  BY DEF DownMessages
<1>6. \A p \in replies : p \in CallMessages
  BY DEF Types
<1>7. used.calls \in Nat /\ used.invocations \in Nat /\ used.connections \in Nat
  BY DEF Types
<1>8. MaxInvocations \in Nat /\ Invocations \subseteq Nat /\ Limit \in Nat
  BY ConversationAssumption DEF Invocations
<1>9. \A j \in 1..Len(up) :
          /\ Asked(up[j]) => up[j].id \in Nat /\ up[j].reg \in Regs
                                /\ up[j].of \in {"register", "unregister"}
          /\ up[j].of = "answer" => up[j].inv \in Invocations
  BY <1>1, <1>3, <1>4
<1>10. \A i \in 1..Len(down) :
          /\ down[i].type \in {"reply", "invoke", "cancel"}
          /\ down[i].type = "reply" => down[i].id \in Nat /\ down[i].outcome \in {"done", "refused"}
          /\ down[i].type = "invoke" => down[i].reg \in Regs
          /\ down[i].type # "reply" => down[i].inv \in Invocations
  BY <1>2, <1>5
<1>11. \A p \in replies : p.id \in Nat /\ p.of \in {"register", "unregister"} /\ p.reg \in Regs
  BY <1>3, <1>6
<1>. QED  BY <1>1, <1>2, <1>7, <1>8, <1>9, <1>10, <1>11 DEF Fields

\* Whoever is in a set of registrations stands once in the sequence made of it.
LEMMA SetToSeqInjective ==
    ASSUME NEW S, S \subseteq Regs
    PROVE  /\ SetToSeq(S) \in Seq(S)
           /\ \A i, j \in 1..Len(SetToSeq(S)) : SetToSeq(S)[i] = SetToSeq(S)[j] => i = j
<1>1. IsFiniteSet(S)
  BY ConversationAssumption, FS_Subset
<1>2. Cardinality(S) \in Nat /\ ExistsBijection(1..Cardinality(S), S)
  BY <1>1, FS_CardinalityType
<1>3. \E f \in [1..Cardinality(S) -> S] : IsInjective(f)
  <2>1. PICK f \in Bijection(1..Cardinality(S), S) : TRUE
    BY <1>2 DEF ExistsBijection
  <2>2. f \in [1..Cardinality(S) -> S] /\ IsInjective(f)
    BY <2>1 DEF Bijection, Injection
  <2>. QED  BY <2>2
<1>4. SetToSeq(S) \in [1..Cardinality(S) -> S] /\ IsInjective(SetToSeq(S))
  BY <1>3 DEF SetToSeq
<1>5. SetToSeq(S) \in Seq(S) /\ Len(SetToSeq(S)) = Cardinality(S)
  BY <1>2, <1>4
<1>. QED  BY <1>4, <1>5 DEF IsInjective

\* The registrations of a sequence without repetitions are asked for in its order.
LEMMA RegistersMessages ==
    ASSUME Types, NEW sent \in Seq(Regs), NEW rs, Registers(sent, rs)
    PROVE  /\ Len(sent) \in Nat
           /\ up' \in Seq(UpMessages) /\ replies' \subseteq CallMessages
           /\ Len(up') = Len(up) + Len(sent)
           /\ up = <<>> => \A i \in 1..Len(sent) :
                 up'[i] = [id |-> used.calls + i, of |-> "register", reg |-> sent[i]]
           /\ replies' = replies \cup
                 {[id |-> used.calls + i, of |-> "register", reg |-> sent[i]] : i \in 1..Len(sent)}
           /\ regs' = [r \in Regs |->
                 IF \E i \in 1..Len(sent) : r = sent[i] THEN "registering"
                 ELSE IF r \in rs THEN "rejected" ELSE regs[r]]
<1>. DEFINE calls == [i \in 1..Len(sent) |->
                     [id |-> used.calls + i, of |-> "register", reg |-> sent[i]]]
<1>1. Len(sent) \in Nat /\ DOMAIN sent = 1..Len(sent) /\ \A i \in 1..Len(sent) : sent[i] \in Regs
  OBVIOUS
<1>2. used.calls \in Nat /\ up \in Seq(UpMessages) /\ replies \subseteq CallMessages
  BY DEF Types
<1>3. \A i \in 1..Len(sent) : calls[i] \in CallMessages
  BY <1>1, <1>2 DEF CallMessages
<1>4. calls \in Seq(CallMessages) /\ Len(calls) = Len(sent) /\ DOMAIN calls = 1..Len(sent)
  BY <1>1, <1>3
<1>5. /\ up' = up \o calls /\ replies' = replies \cup Range(calls)
      /\ regs' = [r \in Regs |-> IF r \in Range(sent) THEN "registering"
                                  ELSE IF r \in rs THEN "rejected" ELSE regs[r]]
  BY DEF Registers
<1>6. Range(calls) = {[id |-> used.calls + i, of |-> "register", reg |-> sent[i]] : i \in 1..Len(sent)}
  BY <1>4 DEF Range
<1>7. \A r : r \in Range(sent) <=> \E i \in 1..Len(sent) : r = sent[i]
  BY <1>1 DEF Range
<1>8. \A i \in 1..Len(sent) :
        calls[i] = [id |-> used.calls + i, of |-> "register", reg |-> sent[i]]
  OBVIOUS
<1>9. Range(calls) \subseteq CallMessages
  BY <1>3, <1>4 DEF Range
<1>10. calls \in Seq(UpMessages)
  BY <1>4 DEF UpMessages
<1>. HIDE DEF calls
<1>11. up' \in Seq(UpMessages) /\ Len(up') = Len(up) + Len(sent)
  BY <1>2, <1>4, <1>5, <1>10, ConcatLength
<1>12. up = <<>> => up' = calls
  BY <1>4, <1>5
<1>13. up = <<>> => \A i \in 1..Len(sent) :
                 up'[i] = [id |-> used.calls + i, of |-> "register", reg |-> sent[i]]
  BY <1>12, <1>8
<1>14. replies' \subseteq CallMessages
  BY <1>2, <1>5, <1>9
<1>15. regs' = [r \in Regs |->
                 IF \E i \in 1..Len(sent) : r = sent[i] THEN "registering"
                 ELSE IF r \in rs THEN "rejected" ELSE regs[r]]
  BY <1>5, <1>7, Zenon
<1>. QED  BY <1>1, <1>5, <1>6, <1>11, <1>13, <1>14, <1>15

-----------------------------------------------------------------------------
(* Types.                                                                   *)

Statuses == {"none", "pending", "registering", "registered", "rejected", "removed"}

LEMMA BecomesStatus ==
    ASSUME Types, NEW r \in Regs, NEW status \in Statuses
    PROVE  Becomes(r, status) \in Statuses
BY DEF Types, Statuses, Becomes

\* A registration is asked for when it is added, rejected at once, or left for the next
\* connection.
LEMMA AddRegistrationCases ==
    ASSUME Types, NEW r \in Regs, AddRegistration(r)
    PROVE  /\ regs[r] = "none"
           /\ used'.connections = used.connections /\ used'.invocations = used.invocations
           /\ used' \in [connections : Nat, calls : Nat, invocations : Nat]
           /\ UNCHANGED <<link, caps, active, down, routes, pending>>
           /\ \/ \E call \in CallMessages :
                   /\ call.id = used.calls + 1 /\ call.of = "register" /\ call.reg = r
                   /\ up' = Append(up, call) /\ replies' = replies \cup {call}
                   /\ regs' = [regs EXCEPT ![r] = "registering"]
                   /\ used'.calls = used.calls + 1
                   /\ link = "up"
              \/ /\ UNCHANGED <<up, replies>> /\ used'.calls = used.calls
                 /\ \/ regs' = [regs EXCEPT ![r] = "rejected"]
                    \/ regs' = [regs EXCEPT ![r] = "pending"]
<1>. DEFINE call == [id |-> used.calls + 1, of |-> "register", reg |-> r]
<1>1. /\ regs[r] = "none" /\ UNCHANGED <<link, caps, active, down, routes, pending>>
      /\ used' = [used EXCEPT !.calls = @ + Len(up') - Len(up)]
  BY DEF AddRegistration, bridgeEnd
<1>2. /\ used \in [connections : Nat, calls : Nat, invocations : Nat] /\ up \in Seq(UpMessages)
      /\ regs \in [Regs -> Statuses]
  BY DEF Types, Statuses
<1>3. call \in CallMessages /\ call.id = used.calls + 1 /\ call.of = "register" /\ call.reg = r
  BY <1>2 DEF CallMessages
<1>. HIDE DEF call
<1>4. CASE Connected /\ link = "up" /\ r \in caps
  <2>1. Registers(<<r>>, {r})
    BY <1>4 DEF AddRegistration
  <2>2. up' = Append(up, call) /\ replies' = replies \cup {call}
    <3>. DEFINE calls == [i \in 1..Len(<<r>>) |->
                     [id |-> used.calls + i, of |-> "register", reg |-> <<r>>[i]]]
    <3>1. up' = up \o calls /\ replies' = replies \cup Range(calls)
      BY <2>1 DEF Registers
    <3>2. calls = <<call>>
      BY DEF call
    <3>3. Range(<<call>>) = {call}
      BY DEF Range
    <3>. HIDE DEF calls
    <3>4. up \o <<call>> = Append(up, call)
      <4>1. call \in UpMessages
        BY <1>3 DEF UpMessages
      <4>. QED  BY <4>1, <1>2
    <3>. QED  BY <3>1, <3>2, <3>3, <3>4
  <2>3. regs' = [regs EXCEPT ![r] = "registering"]
    <3>1. regs' = [q \in Regs |-> IF q \in Range(<<r>>) THEN "registering"
                                  ELSE IF q \in {r} THEN "rejected" ELSE regs[q]]
      BY <2>1 DEF Registers
    <3>2. Range(<<r>>) = {r}
      BY DEF Range
    <3>. QED  BY <3>1, <3>2, <1>2
  <2>4. Len(up') = Len(up) + 1 /\ Len(up) \in Nat
    <3>1. call \in UpMessages
      BY <1>3 DEF UpMessages
    <3>. QED  BY <3>1, <2>2, <1>2
  <2>5. /\ used'.calls = used.calls + 1
        /\ used' \in [connections : Nat, calls : Nat, invocations : Nat]
        /\ used'.connections = used.connections /\ used'.invocations = used.invocations
    BY <1>1, <1>2, <2>4
  <2>. QED  BY <1>1, <1>3, <1>4, <2>2, <2>3, <2>5
<1>5. CASE ~(Connected /\ link = "up" /\ r \in caps)
  <2>1. UNCHANGED <<up, replies>> /\ \/ regs' = [regs EXCEPT ![r] = "rejected"]
                                     \/ regs' = [regs EXCEPT ![r] = "pending"]
    <3>1. CASE Connected
      <4>1. Registers(<<>>, {r})
        BY <3>1, <1>5 DEF AddRegistration
      <4>2. UNCHANGED <<up, replies>>
        <5>. DEFINE calls == [i \in 1..Len(<<>>) |->
                         [id |-> used.calls + i, of |-> "register", reg |-> <<>>[i]]]
        <5>1. up' = up \o calls /\ replies' = replies \cup Range(calls)
          BY <4>1 DEF Registers
        <5>2. calls = <<>>
          OBVIOUS
        <5>3. Range(<<>>) = {}
          BY DEF Range
        <5>. HIDE DEF calls
        <5>. QED  BY <5>1, <5>2, <5>3, <1>2
      <4>3. regs' = [regs EXCEPT ![r] = "rejected"]
        <5>1. regs' = [q \in Regs |-> IF q \in Range(<<>>) THEN "registering"
                                      ELSE IF q \in {r} THEN "rejected" ELSE regs[q]]
          BY <4>1 DEF Registers
        <5>2. Range(<<>>) = {}
          BY DEF Range
        <5>. QED  BY <5>1, <5>2, <1>2
      <4>. QED  BY <4>2, <4>3
    <3>2. CASE ~Connected
      BY <3>2 DEF AddRegistration
    <3>. QED  BY <3>1, <3>2
  <2>2. Len(up') = Len(up) /\ Len(up) \in Nat
    BY <2>1, <1>2
  <2>3. /\ used'.calls = used.calls
        /\ used' \in [connections : Nat, calls : Nat, invocations : Nat]
        /\ used'.connections = used.connections /\ used'.invocations = used.invocations
    BY <1>1, <1>2, <2>2
  <2>. QED  BY <1>1, <2>1, <2>3
<1>. QED  BY <1>4, <1>5

LEMMA UnregisterCases ==
    ASSUME Types, NEW r \in Regs, Unregister(r)
    PROVE  /\ regs[r] \notin {"none", "removed"}
           /\ used'.connections = used.connections /\ used'.invocations = used.invocations
           /\ used' \in [connections : Nat, calls : Nat, invocations : Nat]
           /\ UNCHANGED <<link, caps, active, down, routes, pending>>
           /\ \/ \E call \in CallMessages :
                   /\ call.id = used.calls + 1 /\ call.of = "unregister" /\ call.reg = r
                   /\ up' = Append(up, call) /\ replies' = replies \cup {call}
                   /\ regs' = regs /\ regs[r] \in {"registered", "registering"}
                   /\ used'.calls = used.calls + 1
                   /\ link = "up"
              \/ /\ UNCHANGED <<up, replies>> /\ used'.calls = used.calls
                 /\ \/ regs' = regs
                    \/ regs' = [regs EXCEPT ![r] = "removed"]
                 /\ link = "up" => regs[r] \notin {"registered", "registering"}
<1>. DEFINE call == [id |-> used.calls + 1, of |-> "unregister", reg |-> r]
<1>1. /\ regs[r] \notin {"none", "removed"}
      /\ UNCHANGED <<link, caps, active, down, routes, pending>>
      /\ regs' = IF Forgets(r) THEN [regs EXCEPT ![r] = "removed"] ELSE regs
  BY DEF Unregister, Known, bridgeEnd
<1>2. used \in [connections : Nat, calls : Nat, invocations : Nat]
  BY DEF Types
<1>3. call \in CallMessages /\ call.id = used.calls + 1 /\ call.of = "unregister" /\ call.reg = r
  BY <1>2 DEF CallMessages
<1>. HIDE DEF call
<1>4. CASE link = "up" /\ regs[r] \in {"registered", "registering"}
  <2>1. /\ replies' = replies \cup {call} /\ up' = Append(up, call)
        /\ used' = [used EXCEPT !.calls = call.id]
    BY <1>4 DEF Unregister, call
  <2>2. regs' = regs
    BY <1>1, <1>4 DEF Forgets, Connected
  <2>3. /\ used'.calls = used.calls + 1
        /\ used' \in [connections : Nat, calls : Nat, invocations : Nat]
        /\ used'.connections = used.connections /\ used'.invocations = used.invocations
    BY <1>2, <1>3, <2>1
  <2>. QED  BY <1>1, <1>3, <1>4, <2>1, <2>2, <2>3
<1>5. CASE ~(link = "up" /\ regs[r] \in {"registered", "registering"})
  BY <1>1, <1>2, <1>5 DEF Unregister
<1>. QED  BY <1>4, <1>5

\* Without a subscriber that registers, everything known that was negotiated is asked for,
\* each registration once.
LEMMA LinkOpensCases ==
    ASSUME Types, ~ListenerRegisters, NEW negotiated \in SUBSET Regs, NEW added \in SUBSET Regs,
           LinkOpens(negotiated, added)
    PROVE  /\ link = "down" /\ link' = "up" /\ caps' = negotiated
           /\ UNCHANGED <<active, down, routes, pending>>
           /\ \E sent \in Seq(Regs), rs \in SUBSET Known :
                 /\ Registers(sent, rs)
                 /\ \A i, j \in 1..Len(sent) : sent[i] = sent[j] => i = j
                 /\ \A i \in 1..Len(sent) : sent[i] \in Known
                 /\ rs = Known
           /\ used' = [used EXCEPT !.connections = @ + 1, !.calls = @ + Len(up')]
<1>1. /\ link = "down" /\ link' = "up" /\ caps' = negotiated /\ added = {}
      /\ UNCHANGED <<active, down, routes, pending>>
      /\ used' = [used EXCEPT !.connections = @ + 1, !.calls = @ + Len(up')]
  BY DEF LinkOpens, bridgeEnd
<1>. DEFINE none == SetToSeq({} \cap negotiated)
            sent == SetToSeq(Known \cap negotiated)
<1>2. Registers(none \o sent, Known)
  <2>1. Registers(SetToSeq(added \cap negotiated) \o SetToSeq((Known \cup added) \cap negotiated),
                  Known \cup added)
    BY DEF LinkOpens
  <2>2. Known \cup added = Known
    BY <1>1
  <2>. QED  BY <2>1, <2>2, <1>1
<1>3. none = <<>>
  <2>1. none \in Seq({} \cap negotiated)
    BY SetToSeqInjective
  <2>2. \A i \in 1..Len(none) : none[i] \in {} \cap negotiated
    BY <2>1
  <2>3. Len(none) \in Nat
    BY <2>1
  <2>4. Len(none) = 0
    BY <2>2, <2>3
  <2>. QED  BY <2>1, <2>4
<1>4. /\ sent \in Seq(Known \cap negotiated)
      /\ \A i, j \in 1..Len(sent) : sent[i] = sent[j] => i = j
  <2>1. Known \cap negotiated \subseteq Regs
    OBVIOUS
  <2>. QED  BY <2>1, SetToSeqInjective
<1>. HIDE DEF none, sent
<1>5. sent \in Seq(Regs) /\ \A i \in 1..Len(sent) : sent[i] \in Known
  BY <1>4
<1>6. none \o sent = sent
  BY <1>3, <1>5
<1>7. Registers(sent, Known)
  BY <1>2, <1>6
<1>8. Known \in SUBSET Known
  OBVIOUS
<1>. QED  BY <1>1, <1>4, <1>5, <1>7, <1>8

LEMMA InitTypes == ASSUME TalkInit PROVE Types
BY DEF TalkInit, Types

LEMMA BridgeHandlesCases ==
    ASSUME Types, NEW refuses \in BOOLEAN, BridgeHandles(refuses)
    PROVE  /\ Shrinks(up, up') /\ up' \in Seq(UpMessages) /\ up[1] \in UpMessages
           /\ UNCHANGED <<link, caps, regs, replies, active, used>>
           /\ \/ /\ up[1].of = "register" /\ down' = Append(down, Done(up[1].id, "refused"))
                 /\ routes' = routes /\ pending' = pending
              \/ /\ up[1].of = "register" /\ down' = Append(down, Done(up[1].id, "done"))
                 /\ up[1].reg \notin routes
                 /\ routes' = routes \cup {up[1].reg} /\ pending' = pending
              \/ /\ up[1].of = "unregister" /\ down' = Append(down, Done(up[1].id, "done"))
                 /\ routes' = routes \ {up[1].reg} /\ pending' = pending
              \/ /\ up[1].of = "answer" /\ down' = down
                 /\ routes' = routes /\ pending' = pending \ {up[1].inv}
<1>1. up # <<>> /\ up' = Tail(up) /\ up \in Seq(UpMessages)
  BY DEF BridgeHandles, Types
<1>2. Shrinks(up, up') /\ Head(up) = up[1] /\ up' \in Seq(UpMessages) /\ up[1] \in UpMessages
  BY <1>1, TailShrinks
<1>3. UNCHANGED <<link, caps, regs, replies, active, used>>
  BY DEF BridgeHandles, clientEnd
<1>4. up[1].of \in {"register", "unregister", "answer"}
  BY <1>2 DEF UpMessages, CallMessages
<1>5. CASE up[1].of = "register"
  BY <1>2, <1>3, <1>5 DEF BridgeHandles, Tells
<1>6. CASE up[1].of = "unregister"
  BY <1>2, <1>3, <1>6 DEF BridgeHandles, Tells
<1>7. CASE up[1].of = "answer"
  BY <1>2, <1>3, <1>7 DEF BridgeHandles
<1>. QED  BY <1>4, <1>5, <1>6, <1>7

LEMMA ReceivesCases ==
    ASSUME Types, NEW type, Receives(type)
    PROVE  /\ link = "up" /\ Shrinks(down, down') /\ down' \in Seq(DownMessages)
           /\ Head(down) = down[1] /\ down[1] \in DownMessages /\ down[1].type = type
BY TailShrinks DEF Receives, Types

LEMMA AnswerMessage ==
    ASSUME Types, NEW i \in Invocations
    PROVE  Answer(i) \in Seq(UpMessages) /\ Grows(up, Answer(i), [of |-> "answer", inv |-> i])
<1>1. [of |-> "answer", inv |-> i] \in UpMessages
  BY DEF UpMessages
<1>2. up \in Seq(UpMessages)
  BY DEF Types
<1>. QED  BY <1>1, <1>2, AppendGrows DEF Answer

LEMMA TypesNext ==
    ASSUME Types, TalkNext, ~ListenerRegisters
    PROVE  Types'
<1>. USE DEF Types
<1>1. ASSUME NEW r \in Regs, AddRegistration(r) PROVE Types'
  <2>1. \A call \in CallMessages : Append(up, call) \in Seq(UpMessages)
    BY DEF UpMessages
  <2>2. PICK status \in {"registering", "rejected", "pending"} : regs' = [regs EXCEPT ![r] = status]
    BY <1>1, AddRegistrationCases
  <2>3. up' \in Seq(UpMessages) /\ replies' \subseteq CallMessages
    <3>1. \/ up' = up /\ replies' = replies
          \/ \E call \in CallMessages : up' = Append(up, call) /\ replies' = replies \cup {call}
      BY <1>1, AddRegistrationCases
    <3>. QED  BY <2>1, <3>1
  <2>4. /\ used' \in [connections : Nat, calls : Nat, invocations : Nat]
        /\ UNCHANGED <<link, caps, active, down, routes, pending>>
    BY <1>1, AddRegistrationCases
  <2>. QED  BY <2>2, <2>3, <2>4
<1>2. ASSUME NEW r \in Regs, Unregister(r) PROVE Types'
  <2>1. \A call \in CallMessages : Append(up, call) \in Seq(UpMessages)
    BY DEF UpMessages
  <2>2. regs' = regs \/ regs' = [regs EXCEPT ![r] = "removed"]
    BY <1>2, UnregisterCases
  <2>3. up' \in Seq(UpMessages) /\ replies' \subseteq CallMessages
    <3>1. \/ up' = up /\ replies' = replies
          \/ \E call \in CallMessages : up' = Append(up, call) /\ replies' = replies \cup {call}
      BY <1>2, UnregisterCases
    <3>. QED  BY <2>1, <3>1
  <2>4. /\ used' \in [connections : Nat, calls : Nat, invocations : Nat]
        /\ UNCHANGED <<link, caps, active, down, routes, pending>>
    BY <1>2, UnregisterCases
  <2>. QED  BY <2>2, <2>3, <2>4
<1>3. CASE Reply
  <2>1. down' \in Seq(DownMessages)
    BY <1>3, ReceivesCases DEF Reply
  <2>2. replies' \subseteq CallMessages /\ UNCHANGED <<caps, active, up, routes, pending, used>>
    BY <1>3 DEF Reply, bridgeEnd
  <2>3. link' \in {"down", "up", "closing", "failed"}
    BY <1>3 DEF Reply, Unmatched
  <2>4. regs' = regs \/ \E p \in replies, status \in Statuses : regs' = [regs EXCEPT ![p.reg] = status]
    <3>1. \A p \in replies : p.reg \in Regs
      BY DEF CallMessages
    <3>2. \A p \in replies : /\ Becomes(p.reg, "registered") \in Statuses
                             /\ Becomes(p.reg, "rejected") \in Statuses
      BY <3>1, BecomesStatus DEF Statuses
    <3>3. regs' = regs \/ \E p \in replies : regs' =
                       [regs EXCEPT ![p.reg] =
                          IF p.of = "unregister" THEN "removed"
                          ELSE Becomes(p.reg, IF Head(down).outcome = "done" THEN "registered"
                                                                    ELSE "rejected")]
      BY <1>3 DEF Reply
    <3>4. CASE regs' = regs
      BY <3>4
    <3>5. ASSUME NEW p \in replies, regs' =
                       [regs EXCEPT ![p.reg] =
                          IF p.of = "unregister" THEN "removed"
                          ELSE Becomes(p.reg, IF Head(down).outcome = "done" THEN "registered"
                                                                    ELSE "rejected")]
          PROVE  \E q \in replies, status \in Statuses : regs' = [regs EXCEPT ![q.reg] = status]
      <4>. DEFINE status == IF p.of = "unregister" THEN "removed"
                            ELSE Becomes(p.reg, IF Head(down).outcome = "done" THEN "registered"
                                                                    ELSE "rejected")
      <4>1. status \in Statuses
        BY <3>2 DEF Statuses
      <4>2. regs' = [regs EXCEPT ![p.reg] = status]
        BY <3>5
      <4>. HIDE DEF status
      <4>. QED  BY <4>1, <4>2
    <3>. QED  BY <3>3, <3>4, <3>5
  <2>5. regs' \in [Regs -> Statuses]
    BY <2>4 DEF CallMessages, Statuses
  <2>. QED  BY <2>1, <2>2, <2>3, <2>5 DEF Statuses
<1>4. CASE Invoke
  <2>1. down' \in Seq(DownMessages) /\ Head(down) \in DownMessages /\ Head(down).type = "invoke"
    BY <1>4, ReceivesCases DEF Invoke
  <2>2. Head(down).inv \in Invocations
    BY <2>1 DEF DownMessages
  <2>3. UNCHANGED <<link, caps, regs, replies, routes, pending, used>>
    BY <1>4 DEF Invoke, bridgeEnd
  <2>4. active' \subseteq Invocations /\ up' \in Seq(UpMessages)
    BY <1>4, <2>2, AnswerMessage DEF Invoke
  <2>. QED  BY <2>1, <2>3, <2>4
<1>5. CASE Cancel
  <2>1. down' \in Seq(DownMessages) /\ Head(down) \in DownMessages /\ Head(down).type = "cancel"
    BY <1>5, ReceivesCases DEF Cancel
  <2>2. Head(down).inv \in Invocations
    BY <2>1 DEF DownMessages
  <2>3. UNCHANGED <<link, caps, regs, replies, routes, pending, used>>
    BY <1>5 DEF Cancel, bridgeEnd
  <2>4. active' \subseteq Invocations /\ up' \in Seq(UpMessages)
    BY <1>5, <2>2, AnswerMessage DEF Cancel, Freed
  <2>. QED  BY <2>1, <2>3, <2>4
<1>6. ASSUME NEW i \in Invocations, Ends(i) PROVE Types'
  <2>1. up' \in Seq(UpMessages)
    BY <1>6, AnswerMessage DEF Ends
  <2>. QED  BY <1>6, <2>1 DEF Ends, bridgeEnd
<1>7. ASSUME NEW p \in replies, ReplyTimesOut(p) PROVE Types'
  <2>1. p.reg \in Regs
    BY DEF CallMessages
  <2>2. Becomes(p.reg, "rejected") \in Statuses
    BY <2>1, BecomesStatus DEF Statuses
  <2>3. regs' \in [Regs -> Statuses]
    BY <1>7, <2>1, <2>2 DEF ReplyTimesOut, Statuses
  <2>. QED  BY <1>7, <2>3 DEF ReplyTimesOut, bridgeEnd, Statuses
<1>8. ASSUME NEW negotiated \in SUBSET Regs, NEW added \in SUBSET Regs, LinkOpens(negotiated, added)
      PROVE  Types'
  <2>1. PICK sent \in Seq(Regs) : Registers(sent, Known)
    BY <1>8, LinkOpensCases
  <2>2. /\ up' \in Seq(UpMessages) /\ replies' \subseteq CallMessages
        /\ regs' = [r \in Regs |->
                 IF \E i \in 1..Len(sent) : r = sent[i] THEN "registering"
                 ELSE IF r \in Known THEN "rejected" ELSE regs[r]]
    BY <2>1, RegistersMessages
  <2>3. regs' \in [Regs -> Statuses]
    BY <2>2 DEF Statuses
  <2>4. /\ link' = "up" /\ caps' = negotiated /\ UNCHANGED <<active, down, routes, pending>>
        /\ used' = [used EXCEPT !.connections = @ + 1, !.calls = @ + Len(up')]
    BY <1>8, LinkOpensCases
  <2>5. Len(up') \in Nat
    BY <2>2
  <2>6. used' \in [connections : Nat, calls : Nat, invocations : Nat]
    <3>1. used.connections + 1 \in Nat /\ used.calls + Len(up') \in Nat
      BY <2>5
    <3>2. used' = [used EXCEPT !.connections = used.connections + 1, !.calls = used.calls + Len(up')]
      BY <2>4
    <3>. QED  BY <3>1, <3>2
  <2>. QED  BY <2>2, <2>3, <2>4, <2>6 DEF Statuses
<1>9. CASE Closing
  BY <1>9 DEF Closing, clientEnd, bridgeEnd
<1>10. CASE LinkCloses
  <2>1. regs' \in [Regs -> Statuses]
    <3>1. \A r \in Regs : Lost(r) \in Statuses
      <4>. TAKE r \in Regs
      <4>1. Becomes(r, "rejected") \in Statuses
        BY BecomesStatus DEF Statuses
      <4>. QED  BY <4>1 DEF Lost, Statuses
    <3>. QED  BY <1>10, <3>1 DEF LinkCloses
  <2>. QED  BY <1>10, <2>1 DEF LinkCloses, Statuses
<1>11. ASSUME NEW refuses \in BOOLEAN, BridgeHandles(refuses) PROVE Types'
  <2>1. \A m \in UpMessages : m.of # "answer" => m \in CallMessages
    BY DEF UpMessages, CallMessages
  <2>2. \A m \in CallMessages, outcome \in {"done", "refused"} :
           Append(down, Done(m.id, outcome)) \in Seq(DownMessages) /\ m.reg \in Regs
    <3>1. \A m \in CallMessages, outcome \in {"done", "refused"} : Done(m.id, outcome) \in DownMessages
      BY DEF CallMessages, DownMessages, Done
    <3>. QED  BY <3>1 DEF CallMessages
  <2>3. down' \in Seq(DownMessages) /\ routes' \subseteq Regs /\ pending' \subseteq Invocations
    <3>1. up[1].of # "answer" => up[1] \in CallMessages
      BY <1>11, <2>1, BridgeHandlesCases
    <3>2. CASE up[1].of # "answer"
      <4>1. /\ \E outcome \in {"done", "refused"} : down' = Append(down, Done(up[1].id, outcome))
            /\ routes' \subseteq routes \cup {up[1].reg} /\ pending' = pending
        BY <1>11, <3>2, BridgeHandlesCases
      <4>. QED  BY <2>2, <3>1, <3>2, <4>1
    <3>3. CASE up[1].of = "answer"
      <4>1. down' = down /\ routes' = routes /\ pending' = pending \ {up[1].inv}
        BY <1>11, <3>3, BridgeHandlesCases
      <4>. QED  BY <4>1
    <3>. QED  BY <3>2, <3>3
  <2>. QED  BY <1>11, <2>3, BridgeHandlesCases
<1>12. ASSUME NEW r \in Regs, BridgeInvokes(r) PROVE Types'
  <2>. DEFINE i == used.invocations + 1
  <2>1. i \in Invocations
    BY <1>12, ConversationAssumption DEF BridgeInvokes, Invocations
  <2>2. [type |-> "invoke", inv |-> i, reg |-> r] \in DownMessages
    BY <2>1 DEF DownMessages
  <2>3. /\ pending' = pending \cup {i} /\ used' = [used EXCEPT !.invocations = i]
        /\ down' = Append(down, [type |-> "invoke", inv |-> i, reg |-> r])
        /\ UNCHANGED <<link, caps, regs, replies, active, up, routes>>
    BY <1>12 DEF BridgeInvokes, Tells, clientEnd
  <2>4. i \in Nat
    BY <2>1, ConversationAssumption DEF Invocations
  <2>. HIDE DEF i
  <2>5. down' \in Seq(DownMessages) /\ pending' \subseteq Invocations
    BY <2>1, <2>2, <2>3
  <2>6. used' \in [connections : Nat, calls : Nat, invocations : Nat]
    BY <2>3, <2>4
  <2>. QED  BY <2>3, <2>5, <2>6
<1>13. ASSUME NEW i \in Invocations, BridgeGivesUp(i) PROVE Types'
  <2>1. [type |-> "cancel", inv |-> i] \in DownMessages
    BY DEF DownMessages
  <2>2. /\ pending' = pending \ {i} /\ down' = Append(down, [type |-> "cancel", inv |-> i])
        /\ UNCHANGED <<link, caps, regs, replies, active, up, routes, used>>
    BY <1>13 DEF BridgeGivesUp, Tells, clientEnd
  <2>. QED  BY <2>1, <2>2
<1>. QED  BY <1>1, <1>2, <1>3, <1>4, <1>5, <1>6, <1>7, <1>8, <1>9, <1>10, <1>11, <1>12, <1>13
          DEF TalkNext, Registering, HandlerEnds, TalkTimers, InvocationTimer, Bridge

-----------------------------------------------------------------------------
(* What the client sends and what it gives up.                              *)

\* What a reply settles is settled after a call with a later id, too.
LEMMA SettlesKept ==
    ASSUME Fields, OrderInv, NEW call, call.id = used.calls + 1
    PROVE  \A i \in 1..Len(down) : \A of, r :
              SettlesAt(down, replies, i, of, r) => SettlesAt(down, replies \cup {call}, i, of, r)
<1>1. \A i \in 1..Len(down) : down[i].type = "reply" => down[i].id # call.id
  <2>1. used.calls \in Nat
    BY DEF Fields
  <2>2. \A i \in 1..Len(down) : down[i].type = "reply" => down[i].id \in 1..used.calls
    BY DEF OrderInv, DownOrder, ReplyAt
  <2>3. call.id \notin 1..used.calls
    BY <2>1
  <2>. QED  BY <2>2, <2>3
<1>. TAKE i \in 1..Len(down)
<1>2. down[i].type = "reply" => down[i].id # call.id
  BY <1>1
<1>. QED  BY <1>2 DEF SettlesAt

\* A call goes to the end of what is on its way, with the next id; a registration is asked
\* for only before anything else is.
LEMMA CallSent ==
    ASSUME Types, UpInv, NEW call \in CallMessages, call.id = used.calls + 1,
           up' = Append(up, call), replies' = replies \cup {call},
           used'.calls = used.calls + 1, used'.invocations = used.invocations,
           UNCHANGED <<active, down, routes, pending>>,
           \/ /\ call.of = "register" /\ regs[call.reg] = "none"
              /\ regs' = [regs EXCEPT ![call.reg] = "registering"]
           \/ /\ call.of = "unregister" /\ regs[call.reg] \in {"registered", "registering"}
              /\ regs' = regs
    PROVE  UpInv'
<1>1. Fields
  BY TypesFields
<1>2. Grows(up, up', call)
  BY AppendGrows DEF Types
<1>3. /\ call.id \in Nat /\ call.of \in {"register", "unregister"} /\ call.reg \in Regs
      /\ Asked(call)
  BY DEF CallMessages, Asked
<1>4. /\ Len(up) \in Nat /\ Len(up') = Len(up) + 1 /\ up'[Len(up) + 1] = call
      /\ \A j \in 1..Len(up) : up'[j] = up[j]
      /\ \A j \in 1..Len(up') : j \in 1..Len(up) \/ j = Len(up) + 1
  BY <1>2 DEF Grows
<1>5. OrderInv'
  <2>1. UpOrder(up, used.calls)'
    BY <1>1, <1>3, <1>4 DEF UpInv, OrderInv, UpOrder, Fields
  <2>2. DownOrder(down, used.calls)'
    BY <1>1 DEF UpInv, OrderInv, DownOrder, ReplyAt, Fields
  <2>3. CrossOrder(up, down)'
    BY <1>1, <1>3, <1>4 DEF UpInv, OrderInv, DownOrder, CrossOrder, ReplyAt, Fields
  <2>. QED  BY <2>1, <2>2, <2>3 DEF OrderInv
<1>6. WaitingInv'
  <2>1. WaitingIds(up, replies, used.calls)'
    <3>1. \A p \in replies' : p.id \in 1..used'.calls
      BY <1>1, <1>3 DEF UpInv, WaitingInv, WaitingIds, Fields
    <3>2. \A p, q \in replies' : p.id = q.id => p = q
      BY <1>1, <1>3 DEF UpInv, WaitingInv, WaitingIds, Fields
    <3>3. \A j \in 1..Len(up'), p \in replies' : Asked(up'[j]) /\ p.id = up'[j].id => p = up'[j]
      BY <1>1, <1>3, <1>4 DEF UpInv, WaitingInv, WaitingIds, OrderInv, UpOrder, Fields
    <3>. QED  BY <3>1, <3>2, <3>3 DEF WaitingIds
  <2>2. Underway(up, down, replies)'
    <3>1. ASSUME NEW p \in replies
          PROVE  \/ \E j \in 1..Len(up') : Asked(up'[j]) /\ up'[j].id = p.id
                 \/ \E i \in 1..Len(down) : ReplyAt(down, i) /\ down[i].id = p.id
      <4>1. ASSUME NEW j \in 1..Len(up), Asked(up[j]), up[j].id = p.id
            PROVE  \E k \in 1..Len(up') : Asked(up'[k]) /\ up'[k].id = p.id
        <5>1. j \in 1..Len(up') /\ up'[j] = up[j]
          BY <1>4
        <5>. QED  BY <4>1, <5>1
      <4>. QED  BY <4>1 DEF UpInv, WaitingInv, Underway
    <3>2. \E j \in 1..Len(up') : Asked(up'[j]) /\ up'[j].id = call.id
      <4>1. Len(up) + 1 \in 1..Len(up')
        BY <1>4
      <4>. QED  BY <1>3, <1>4, <4>1
    <3>. QED  BY <3>1, <3>2 DEF Underway
  <2>. QED  BY <2>1, <2>2 DEF WaitingInv
<1>7. \A p \in replies : p.id < call.id
  BY <1>1 DEF UpInv, WaitingInv, WaitingIds, Fields
<1>8. \A r \in Regs : \/ regs'[r] = regs[r]
                      \/ r = call.reg /\ regs[r] = "none" /\ regs'[r] = "registering"
                            /\ call.of = "register"
  BY DEF Types
<1>9. call.of = "register" =>
        /\ regs[call.reg] = "none" /\ regs'[call.reg] = "registering"
        /\ call.reg \notin routes /\ \A p \in replies : p.reg # call.reg
  BY <1>3 DEF Types, UpInv, AskedInv, NeverAsked
<1>10. AskedInv'
  <2>1. FirstAsked(replies, regs)'
    BY <1>1, <1>3, <1>7, <1>8, <1>9 DEF UpInv, AskedInv, FirstAsked, Fields
  <2>2. AskedOnce(up, replies, regs, routes)'
    <3>. SUFFICES ASSUME NEW j \in 1..Len(up'), up'[j].of = "register"
                  PROVE  /\ up'[j].reg \notin routes
                         /\ regs'[up'[j].reg] \notin {"none", "registered"}
                         /\ \A p \in replies' : p.reg = up'[j].reg => up'[j].id <= p.id
                         /\ \A k \in 1..Len(up') : k # j /\ up'[k].of = "register"
                                                      => up'[k].reg # up'[j].reg
      BY DEF AskedOnce
    <3>1. CASE j \in 1..Len(up)
      <4>1. /\ up[j].of = "register" /\ up'[j] = up[j] /\ Asked(up[j])
            /\ up[j].id \in Nat /\ up[j].reg \in Regs
        BY <1>1, <1>4, <3>1 DEF Fields, Asked
      <4>2. /\ up[j].reg \notin routes /\ regs[up[j].reg] \notin {"none", "registered"}
            /\ \A p \in replies : p.reg = up[j].reg => up[j].id <= p.id
            /\ \A k \in 1..Len(up) : k # j /\ up[k].of = "register" => up[k].reg # up[j].reg
        BY <4>1, <3>1 DEF UpInv, AskedInv, AskedOnce
      <4>3. up[j].id <= call.id
        BY <4>1, <3>1, <1>1 DEF UpInv, OrderInv, UpOrder, Fields
      <4>. QED  BY <1>4, <1>8, <1>9, <4>1, <4>2, <4>3
    <3>2. CASE j = Len(up) + 1
      <4>1. up'[j] = call /\ call.of = "register"
        BY <1>4, <3>2
      <4>2. \A k \in 1..Len(up) : up[k].of = "register" => up[k].reg # call.reg
        BY <1>9, <4>1 DEF UpInv, AskedInv, AskedOnce
      <4>3. \A k \in 1..Len(up') : k # j /\ up'[k].of = "register" => up'[k].reg # up'[j].reg
        BY <1>4, <3>2, <4>1, <4>2
      <4>4. \A p \in replies' : p.reg = up'[j].reg => up'[j].id <= p.id
        BY <1>3, <1>9, <4>1
      <4>. QED  BY <1>9, <4>1, <4>3, <4>4
    <3>. QED  BY <1>4, <3>1, <3>2
  <2>3. NeverAsked(replies, regs, routes)'
    <3>1. \A r \in Regs : regs'[r] = "none" => regs[r] = "none" /\ r # call.reg
      BY <1>8 DEF Types
    <3>. QED  BY <3>1 DEF UpInv, AskedInv, NeverAsked
  <2>. QED  BY <2>1, <2>2, <2>3 DEF AskedInv
<1>11. RoutesInv'
  <2>1. \A i \in 1..Len(down) : \A of, r :
           SettlesAt(down, replies, i, of, r) => SettlesAt(down, replies', i, of, r)
    BY <1>1, SettlesKept DEF UpInv
  <2>2. \A i \in 1..Len(down), p \in replies' : ReplyAt(down, i) /\ down[i].id = p.id => p \in replies
    BY <1>1 DEF UpInv, OrderInv, DownOrder, Fields
  <2>3. RoutesHeard(down, replies, regs, routes)'
    <3>1. \A r \in routes : regs[r] = "registered" => regs'[r] = "registered"
      BY <1>8 DEF Types
    <3>. QED  BY <2>1, <3>1 DEF UpInv, RoutesInv, RoutesHeard
  <2>4. HandlersRouted(down, replies, regs, routes)'
    BY <2>1, <1>8 DEF UpInv, RoutesInv, HandlersRouted
  <2>5. RepliesTrue(down, replies, routes)'
    BY <2>1, <2>2 DEF UpInv, RoutesInv, RepliesTrue
  <2>6. InvokesConfirmed(down, replies, regs)'
    <3>1. \A k \in 1..Len(down) : down[k].type = "invoke" => down[k].reg \in Regs
      BY <1>1 DEF Fields
    <3>2. \A k \in 1..Len(down) : down[k].type = "invoke" /\ regs[down[k].reg] = "registered"
                                    => regs'[down[k].reg] = "registered"
      BY <3>1, <1>8
    <3>. QED  BY <2>1, <3>2 DEF UpInv, RoutesInv, InvokesConfirmed
  <2>7. InvokesKept(down, replies)'
    BY <2>2 DEF UpInv, RoutesInv, InvokesKept
  <2>. QED  BY <2>3, <2>4, <2>5, <2>6, <2>7 DEF RoutesInv
<1>12. SlotsInv'
  <2>1. \A j \in 1..Len(up') : up'[j].of = "answer" => j \in 1..Len(up) /\ up'[j] = up[j]
    BY <1>3, <1>4 DEF Asked
  <2>2. Numbers(up, down, active, pending, used.invocations)'
    BY <2>1 DEF UpInv, SlotsInv, Numbers
  <2>3. InvokesNewest(up, down, active)'
    BY <2>1 DEF UpInv, SlotsInv, InvokesNewest
  <2>. QED  BY <2>2, <2>3 DEF UpInv, SlotsInv
<1>. QED  BY <1>5, <1>6, <1>10, <1>11, <1>12 DEF UpInv

\* A registration that nobody has been asked for may change its status.
LEMMA StatusSet ==
    ASSUME Types, UpInv, NEW r \in Regs, NEW status \in {"rejected", "pending", "removed"},
           regs[r] \notin {"registered", "registering"}, regs' = [regs EXCEPT ![r] = status],
           UNCHANGED <<active, up, down, replies, routes, pending>>,
           used'.calls = used.calls, used'.invocations = used.invocations
    PROVE  UpInv'
<1>1. Fields
  BY TypesFields
<1>2. \A q \in Regs : \/ regs'[q] = regs[q]
                      \/ regs[q] \notin {"registered", "registering"}
                            /\ regs'[q] \in {"rejected", "pending", "removed"}
  BY DEF Types
<1>3. AskedInv'
  <2>1. FirstAsked(replies, regs)'
    BY <1>1, <1>2 DEF UpInv, AskedInv, FirstAsked, Fields
  <2>2. AskedOnce(up, replies, regs, routes)'
    <3>1. \A j \in 1..Len(up) : up[j].of = "register" => up[j].reg \in Regs
      BY <1>1 DEF Fields, Asked
    <3>. QED  BY <1>2, <3>1 DEF UpInv, AskedInv, AskedOnce
  <2>3. NeverAsked(replies, regs, routes)'
    BY <1>2 DEF UpInv, AskedInv, NeverAsked
  <2>. QED  BY <2>1, <2>2, <2>3 DEF AskedInv
<1>4. RoutesInv'
  <2>1. RoutesHeard(down, replies, regs, routes)'
    BY <1>2 DEF UpInv, RoutesInv, RoutesHeard, Types
  <2>2. HandlersRouted(down, replies, regs, routes)'
    BY <1>2 DEF UpInv, RoutesInv, HandlersRouted
  <2>3. InvokesConfirmed(down, replies, regs)'
    <3>1. \A k \in 1..Len(down) : down[k].type = "invoke" => down[k].reg \in Regs
      BY <1>1 DEF Fields
    <3>. QED  BY <3>1, <1>2 DEF UpInv, RoutesInv, InvokesConfirmed
  <2>. QED  BY <2>1, <2>2, <2>3 DEF UpInv, RoutesInv
<1>5. OrderInv' /\ WaitingInv' /\ SlotsInv'
  BY DEF UpInv, OrderInv, WaitingInv, SlotsInv
<1>. QED  BY <1>3, <1>4, <1>5 DEF UpInv

-----------------------------------------------------------------------------
(* Steps that leave the calls and their replies alone, and steps that leave *)
(* the invocations alone.                                                   *)

\* The calls in v are those in u, where u loses its first b messages.
SameCalls(u, v, b) ==
    /\ \A j \in 1..Len(v) : Asked(v[j]) => j + b \in 1..Len(u) /\ v[j] = u[j + b]
    /\ \A j \in 1..Len(u) : Asked(u[j]) => j - b \in 1..Len(v) /\ v[j - b] = u[j]

\* The replies in e are those in d, and there are no new invocations.
SameReplies(d, e, b) ==
    /\ \A i \in 1..Len(e) : e[i].type # "cancel" => i + b \in 1..Len(d) /\ e[i] = d[i + b]
    /\ \A i \in 1..Len(d) : ReplyAt(d, i) => i - b \in 1..Len(e) /\ e[i - b] = d[i]

LEMMA CallsUntouched ==
    ASSUME Types, UpInv, NEW b \in {0, 1}, NEW c \in {0, 1},
           Len(up') \in Nat, Len(down') \in Nat,
           SameCalls(up, up', b), SameReplies(down, down', c),
           UNCHANGED <<regs, replies, routes>>, used'.calls = used.calls
    PROVE  OrderInv' /\ WaitingInv' /\ AskedInv' /\ RoutesInv'
<1>1. Fields
  BY TypesFields
<1>2. /\ \A j \in 1..Len(up') : Asked(up'[j]) => j + b \in 1..Len(up) /\ up'[j] = up[j + b]
      /\ \A j \in 1..Len(up) : Asked(up[j]) => j - b \in 1..Len(up') /\ up'[j - b] = up[j]
  BY DEF SameCalls
<1>3. /\ \A i \in 1..Len(down') : ReplyAt(down', i) \/ down'[i].type = "invoke"
                                     => i + c \in 1..Len(down) /\ down'[i] = down[i + c]
      /\ \A i \in 1..Len(down) : ReplyAt(down, i) => i - c \in 1..Len(down') /\ down'[i - c] = down[i]
  BY DEF SameReplies, ReplyAt
<1>4. b \in Int /\ c \in Int
  OBVIOUS
<1>5. OrderInv'
  <2>1. UpOrder(up, used.calls)'
    <3>1. \A i \in 1..Len(up') : Asked(up'[i]) => up'[i].id \in 1..used.calls
      BY <1>2 DEF UpInv, OrderInv, UpOrder
    <3>2. ASSUME NEW i \in 1..Len(up'), NEW j \in 1..Len(up'), i < j, Asked(up'[i]), Asked(up'[j])
          PROVE  up'[i].id < up'[j].id
      <4>1. /\ i + b \in 1..Len(up) /\ up'[i] = up[i + b]
            /\ j + b \in 1..Len(up) /\ up'[j] = up[j + b]
        BY <1>2, <3>2
      <4>2. i + b < j + b
        BY <1>4, <3>2
      <4>. QED  BY <3>2, <4>1, <4>2 DEF UpInv, OrderInv, UpOrder
    <3>. QED  BY <3>1, <3>2 DEF UpOrder
  <2>2. DownOrder(down, used.calls)'
    <3>1. \A i \in 1..Len(down') : ReplyAt(down', i) => down'[i].id \in 1..used.calls
      BY <1>3 DEF UpInv, OrderInv, DownOrder, ReplyAt
    <3>2. ASSUME NEW i \in 1..Len(down'), NEW j \in 1..Len(down'), i < j,
                 ReplyAt(down', i), ReplyAt(down', j)
          PROVE  down'[i].id < down'[j].id
      <4>1. /\ i + c \in 1..Len(down) /\ down'[i] = down[i + c]
            /\ j + c \in 1..Len(down) /\ down'[j] = down[j + c]
        BY <1>3, <3>2
      <4>2. i + c < j + c
        BY <1>4, <3>2
      <4>. QED  BY <3>2, <4>1, <4>2 DEF UpInv, OrderInv, DownOrder, ReplyAt
    <3>. QED  BY <3>1, <3>2 DEF DownOrder
  <2>3. CrossOrder(up, down)'
    BY <1>1, <1>2, <1>3, <1>4 DEF UpInv, OrderInv, CrossOrder, ReplyAt, Fields
  <2>. QED  BY <2>1, <2>2, <2>3 DEF OrderInv
<1>6. WaitingInv'
  <2>1. WaitingIds(up, replies, used.calls)'
    <3>1. /\ \A p \in replies : p.id \in 1..used.calls
          /\ \A p, q \in replies : p.id = q.id => p = q
      BY DEF UpInv, WaitingInv, WaitingIds
    <3>2. \A j \in 1..Len(up'), p \in replies : Asked(up'[j]) /\ p.id = up'[j].id => p = up'[j]
      <4>. TAKE j \in 1..Len(up'), p \in replies
      <4>1. Asked(up'[j]) => j + b \in 1..Len(up) /\ up'[j] = up[j + b]
        BY <1>2
      <4>. QED  BY <4>1 DEF UpInv, WaitingInv, WaitingIds
    <3>. QED  BY <3>1, <3>2 DEF WaitingIds
  <2>2. Underway(up, down, replies)'
    <3>. SUFFICES ASSUME NEW p \in replies
                  PROVE  \/ \E j \in 1..Len(up') : Asked(up'[j]) /\ up'[j].id = p.id
                         \/ \E i \in 1..Len(down') : ReplyAt(down', i) /\ down'[i].id = p.id
      BY DEF Underway
    <3>1. ASSUME NEW j \in 1..Len(up), Asked(up[j]), up[j].id = p.id
          PROVE  \E k \in 1..Len(up') : Asked(up'[k]) /\ up'[k].id = p.id
      BY <1>2, <3>1
    <3>2. ASSUME NEW i \in 1..Len(down), ReplyAt(down, i), down[i].id = p.id
          PROVE  \E k \in 1..Len(down') : ReplyAt(down', k) /\ down'[k].id = p.id
      BY <1>3, <3>2 DEF ReplyAt
    <3>. QED  BY <3>1, <3>2 DEF UpInv, WaitingInv, Underway
  <2>. QED  BY <2>1, <2>2 DEF WaitingInv
<1>7. AskedInv'
  <2>1. AskedOnce(up, replies, regs, routes)'
    <3>. SUFFICES ASSUME NEW j \in 1..Len(up'), up'[j].of = "register"
                  PROVE  /\ up'[j].reg \notin routes
                         /\ regs[up'[j].reg] \notin {"none", "registered"}
                         /\ \A p \in replies : p.reg = up'[j].reg => up'[j].id <= p.id
                         /\ \A k \in 1..Len(up') : k # j /\ up'[k].of = "register"
                                                      => up'[k].reg # up'[j].reg
      BY DEF AskedOnce
    <3>1. j + b \in 1..Len(up) /\ up'[j] = up[j + b]
      BY <1>2 DEF Asked
    <3>2. \A k \in 1..Len(up') : k # j /\ up'[k].of = "register"
             => k + b \in 1..Len(up) /\ up'[k] = up[k + b] /\ k + b # j + b
      BY <1>1, <1>2, <1>4 DEF Asked, Fields
    <3>. QED  BY <3>1, <3>2 DEF UpInv, AskedInv, AskedOnce
  <2>. QED  BY <2>1 DEF UpInv, AskedInv
<1>8. RoutesInv'
  <2>1. \A i \in 1..Len(down) : \A of, r : SettlesAt(down, replies, i, of, r)
           => i - c \in 1..Len(down') /\ SettlesAt(down', replies, i - c, of, r)
    BY <1>1, <1>3 DEF SettlesAt, ReplyAt
  <2>2. \A i \in 1..Len(down') : ReplyAt(down', i)
           => i + c \in 1..Len(down) /\ ReplyAt(down, i + c) /\ down'[i] = down[i + c]
    BY <1>3 DEF ReplyAt
  <2>3. RoutesHeard(down, replies, regs, routes)'
    BY <2>1 DEF UpInv, RoutesInv, RoutesHeard
  <2>4. HandlersRouted(down, replies, regs, routes)'
    BY <2>1 DEF UpInv, RoutesInv, HandlersRouted
  <2>5. RepliesTrue(down, replies, routes)'
    <3>. SUFFICES ASSUME NEW p \in replies, NEW i \in 1..Len(down'),
                         ReplyAt(down', i), down'[i].id = p.id
                  PROVE  IF p.of = "register" /\ down'[i].outcome = "done"
                         THEN p.reg \in routes
                                \/ \E k \in 1..Len(down') : SettlesAt(down', replies, k, "unregister", p.reg)
                         ELSE p.reg \notin routes
      BY DEF RepliesTrue
    <3>1. i + c \in 1..Len(down) /\ ReplyAt(down, i + c) /\ down'[i] = down[i + c]
      BY <2>2
    <3>2. IF p.of = "register" /\ down'[i].outcome = "done"
          THEN p.reg \in routes
                 \/ \E k \in 1..Len(down) : SettlesAt(down, replies, k, "unregister", p.reg)
          ELSE p.reg \notin routes
      BY <3>1 DEF UpInv, RoutesInv, RepliesTrue
    <3>. QED  BY <2>1, <3>2
  <2>6. InvokesConfirmed(down, replies, regs)'
    <3>. SUFFICES ASSUME NEW k \in 1..Len(down'), down'[k].type = "invoke"
                  PROVE  \/ regs[down'[k].reg] = "registered"
                         \/ \E i \in 1..Len(down') : i < k
                               /\ SettlesAt(down', replies, i, "register", down'[k].reg)
      BY DEF InvokesConfirmed
    <3>1. k + c \in 1..Len(down) /\ down'[k] = down[k + c]
      BY <1>3
    <3>2. \/ regs[down'[k].reg] = "registered"
          \/ \E i \in 1..Len(down) : i < k + c
                /\ SettlesAt(down, replies, i, "register", down'[k].reg)
      BY <3>1 DEF UpInv, RoutesInv, InvokesConfirmed
    <3>3. \A i \in 1..Len(down) : i < k + c => i - c < k
      BY <1>1, <1>4 DEF Fields
    <3>. QED  BY <2>1, <3>2, <3>3
  <2>7. InvokesKept(down, replies)'
    <3>. SUFFICES ASSUME NEW k \in 1..Len(down'), NEW i \in 1..Len(down'), NEW p \in replies,
                         down'[k].type = "invoke", i < k, ReplyAt(down', i),
                         down'[i].id = p.id, p.reg = down'[k].reg
                  PROVE  p.of = "register" /\ down'[i].outcome = "done"
      BY DEF InvokesKept
    <3>1. k + c \in 1..Len(down) /\ down'[k] = down[k + c]
      BY <1>3
    <3>2. i + c \in 1..Len(down) /\ ReplyAt(down, i + c) /\ down'[i] = down[i + c]
      BY <2>2
    <3>3. i + c < k + c
      BY <1>4
    <3>. QED  BY <3>1, <3>2, <3>3 DEF UpInv, RoutesInv, InvokesKept
  <2>. QED  BY <2>3, <2>4, <2>5, <2>6, <2>7 DEF RoutesInv
<1>. QED  BY <1>5, <1>6, <1>7, <1>8

\* The invocations and cancellations in e are those in d after its first b messages.
SameInvocations(d, e, b) ==
    /\ \A i \in 1..Len(e) : e[i].type # "reply" => i + b \in 1..Len(d) /\ e[i] = d[i + b]
    /\ \A i \in 1..Len(d) : d[i].type # "reply" /\ i > b => i - b \in 1..Len(e) /\ e[i - b] = d[i]

\* What has been cancelled after a message is found where the messages have moved.
LEMMA CancelledMoved ==
    ASSUME Fields, NEW b \in {0, 1}, Len(down') \in Nat, SameInvocations(down, down', b)
    PROVE  \A k \in Nat : \A i :
              k <= Len(down') => (CancelledAfter(down', k, i) <=> CancelledAfter(down, k + b, i))
<1>1. SUFFICES ASSUME NEW k \in Nat, NEW i
               PROVE  CancelledAfter(down', k, i) <=> CancelledAfter(down, k + b, i)
  OBVIOUS
<1>2. b \in Int /\ Len(down) \in Nat
  BY DEF Fields
<1>3. ASSUME NEW l \in 1..Len(down'), l > k, down'[l].type = "cancel", down'[l].inv = i
      PROVE  CancelledAfter(down, k + b, i)
  <2>1. l + b \in 1..Len(down) /\ down'[l] = down[l + b] /\ l + b > k + b
    BY <1>2, <1>3 DEF SameInvocations
  <2>. QED  BY <1>3, <2>1 DEF CancelledAfter
<1>4. ASSUME NEW l \in 1..Len(down), l > k + b, down[l].type = "cancel", down[l].inv = i
      PROVE  CancelledAfter(down', k, i)
  <2>1. l > b /\ l - b > k
    BY <1>2, <1>4
  <2>2. l - b \in 1..Len(down') /\ down'[l - b] = down[l]
    BY <1>4, <2>1 DEF SameInvocations
  <2>. QED  BY <1>4, <2>1, <2>2 DEF CancelledAfter
<1>. QED  BY <1>3, <1>4 DEF CancelledAfter

LEMMA CountedMoved ==
    ASSUME Fields, NEW b \in {0, 1}, Len(down') \in Nat, SameInvocations(down, down', b),
           NEW open, NEW k \in 1..Len(down'), down'[k].type # "reply"
    PROVE  Counted(down', open, k) = Counted(down, open, k + b)
<1>1. k + b \in 1..Len(down) /\ down'[k] = down[k + b]
  BY DEF SameInvocations
<1>2. k \in Nat /\ k <= Len(down')
  OBVIOUS
<1>3. \A i : CancelledAfter(down', k, i) <=> CancelledAfter(down, k + b, i)
  BY <1>2, CancelledMoved
<1>. QED  BY <1>1, <1>3 DEF Counted

LEMMA SlotsUntouched ==
    ASSUME Types, UpInv, NEW b \in {0, 1}, Len(up') \in Nat, Len(down') \in Nat,
           SameInvocations(down, down', b), b = 1 => down[1].type = "reply",
           \A j \in 1..Len(up') : up'[j].of = "answer" =>
              \E k \in 1..Len(up) : up[k] = up'[j],
           UNCHANGED <<active, pending>>, used'.invocations = used.invocations
    PROVE  SlotsInv'
<1>1. Fields
  BY TypesFields
<1>2. \A i \in 1..Len(down') : down'[i].type # "reply" => i + b \in 1..Len(down) /\ down'[i] = down[i + b]
  BY DEF SameInvocations
<1>3. b \in Int
  OBVIOUS
<1>4. Numbers(up, down, active, pending, used.invocations)'
  BY <1>1, <1>2 DEF UpInv, SlotsInv, Numbers
<1>5. InvokesNewest(up, down, active)'
  <2>. SUFFICES ASSUME NEW k \in 1..Len(down'), down'[k].type = "invoke"
                PROVE  /\ \A i \in active : i < down'[k].inv
                       /\ \A j \in 1..Len(up') : up'[j].of = "answer" => up'[j].inv < down'[k].inv
                       /\ \A i \in 1..Len(down') : i < k /\ down'[i].type # "reply"
                                                      => down'[i].inv < down'[k].inv
    BY DEF InvokesNewest
  <2>1. k + b \in 1..Len(down) /\ down'[k] = down[k + b]
    BY <1>2
  <2>2. \A i \in 1..Len(down') : i < k => i + b < k + b
    BY <1>3
  <2>. QED  BY <1>2, <2>1, <2>2 DEF UpInv, SlotsInv, InvokesNewest
<1>6. BusyCounted(down, active, pending)'
  <2>1. \A i : CancelledAfter(down', 0, i) <=> CancelledAfter(down, b, i)
    BY <1>1, <1>3, CancelledMoved
  <2>2. \A i : CancelledAfter(down, 0, i) => CancelledAfter(down, b, i)
    <3>. SUFFICES ASSUME NEW i, NEW l \in 1..Len(down), l > 0, down[l].type = "cancel",
                         down[l].inv = i
                  PROVE  l > b
      BY DEF CancelledAfter
    <3>. QED  BY <1>1 DEF Fields
  <2>. QED  BY <2>1, <2>2 DEF UpInv, SlotsInv, BusyCounted
<1>7. InvokesCounted(down, pending)'
  <2>. SUFFICES ASSUME NEW k \in 1..Len(down'), down'[k].type = "invoke"
                PROVE  /\ down'[k].inv \in pending \/ CancelledAfter(down', k, down'[k].inv)
                       /\ Cardinality(Counted(down', pending, k)) <= Limit
    BY DEF InvokesCounted
  <2>1. k + b \in 1..Len(down) /\ down'[k] = down[k + b]
    BY <1>2
  <2>2. Counted(down', pending, k) = Counted(down, pending, k + b)
    BY <1>1, CountedMoved
  <2>3. CancelledAfter(down', k, down'[k].inv) <=> CancelledAfter(down, k + b, down'[k].inv)
    BY <1>1, CancelledMoved
  <2>. QED  BY <2>1, <2>2, <2>3 DEF UpInv, SlotsInv, InvokesCounted
<1>. QED  BY <1>4, <1>5, <1>6, <1>7 DEF SlotsInv

LEMMA UpMoves ==
    ASSUME Types
    PROVE  /\ up' = up => SameCalls(up, up', 0)
           /\ \A m : Grows(up, up', m) /\ m.of = "answer" => SameCalls(up, up', 0)
           /\ Shrinks(up, up') /\ up[1].of = "answer" => SameCalls(up, up', 1)
<1>1. Len(up) \in Nat
  BY DEF Types
<1>2. up' = up => SameCalls(up, up', 0)
  BY <1>1 DEF SameCalls
<1>3. ASSUME NEW m, Grows(up, up', m), m.of = "answer" PROVE SameCalls(up, up', 0)
  BY <1>1, <1>3 DEF SameCalls, Grows, Asked
<1>4. ASSUME Shrinks(up, up'), up[1].of = "answer" PROVE SameCalls(up, up', 1)
  BY <1>1, <1>4 DEF SameCalls, Shrinks, Asked
<1>. QED  BY <1>2, <1>3, <1>4

LEMMA DownMoves ==
    ASSUME Types
    PROVE  /\ down' = down => SameReplies(down, down', 0) /\ SameInvocations(down, down', 0)
           /\ \A m : Grows(down, down', m) /\ m.type = "cancel" => SameReplies(down, down', 0)
           /\ \A m : Grows(down, down', m) /\ m.type = "reply" => SameInvocations(down, down', 0)
           /\ Shrinks(down, down') /\ down[1].type # "reply" => SameReplies(down, down', 1)
           /\ Shrinks(down, down') => SameInvocations(down, down', 1)
<1>1. Len(down) \in Nat
  BY DEF Types
<1>2. down' = down => SameReplies(down, down', 0) /\ SameInvocations(down, down', 0)
  BY <1>1 DEF SameReplies, SameInvocations
<1>3. ASSUME NEW m, Grows(down, down', m), m.type = "cancel" PROVE SameReplies(down, down', 0)
  BY <1>1, <1>3 DEF SameReplies, Grows, ReplyAt
<1>4. ASSUME NEW m, Grows(down, down', m), m.type = "reply" PROVE SameInvocations(down, down', 0)
  BY <1>1, <1>4 DEF SameInvocations, Grows
<1>5. ASSUME Shrinks(down, down'), down[1].type # "reply" PROVE SameReplies(down, down', 1)
  BY <1>1, <1>5 DEF SameReplies, Shrinks, ReplyAt
<1>6. ASSUME Shrinks(down, down') PROVE SameInvocations(down, down', 1)
  BY <1>1, <1>6 DEF SameInvocations, Shrinks
<1>. QED  BY <1>2, <1>3, <1>4, <1>5, <1>6

-----------------------------------------------------------------------------
(* Invocations.                                                             *)

LEMMA FiniteInvocations ==
    /\ IsFiniteSet(Invocations)
    /\ \A S \in SUBSET Invocations : IsFiniteSet(S) /\ Cardinality(S) \in Nat
<1>1. IsFiniteSet(Invocations)
  BY ConversationAssumption, FS_Interval DEF Invocations
<1>. QED  BY <1>1, FS_Subset, FS_CardinalityType

\* The invocations that still run are among those that the bridge counted, and the one
\* that arrives is another one.
LEMMA HeadAccepted ==
    ASSUME Types, UpInv, down # <<>>, Head(down).type = "invoke"
    PROVE  Accepts(Head(down))
<1>1. Fields
  BY TypesFields
<1>2. Head(down) = down[1] /\ 1 \in 1..Len(down) /\ down[1].type = "invoke"
  BY DEF Types
<1>3. down[1].inv \in Invocations /\ down[1].reg \in Regs
  BY <1>1, <1>2 DEF Fields
<1>4. \A i \in active : i < down[1].inv
  BY <1>2 DEF UpInv, SlotsInv, InvokesNewest
<1>5. down[1].inv \in Nat /\ active \subseteq Nat /\ down[1].inv \notin active
  <2>1. Invocations \subseteq Nat /\ active \subseteq Invocations
    BY <1>1 DEF Fields, Types
  <2>2. down[1].inv \in Nat
    BY <1>3, <2>1
  <2>3. ~(down[1].inv < down[1].inv)
    BY <2>2
  <2>. QED  BY <1>4, <2>1, <2>2, <2>3
<1>6. regs[down[1].reg] = "registered"
  BY <1>1, <1>2 DEF UpInv, RoutesInv, InvokesConfirmed, Fields
<1>7. Cardinality(active) < Limit
  <2>. DEFINE C == Counted(down, pending, 1)
  <2>1. active \cup {down[1].inv} \subseteq C
    <3>1. ASSUME NEW i \in active PROVE i \in C
      <4>1. i \in pending \/ CancelledAfter(down, 0, i)
        BY DEF UpInv, SlotsInv, BusyCounted
      <4>2. CancelledAfter(down, 0, i) => CancelledAfter(down, 1, i)
        <5>. SUFFICES ASSUME NEW l \in 1..Len(down), l > 0, down[l].type = "cancel",
                             down[l].inv = i
                      PROVE  l > 1
          BY DEF CancelledAfter
        <5>. QED  BY <1>1, <1>2 DEF Fields
      <4>3. i \in Invocations /\ i <= down[1].inv
        BY <1>4, <1>5 DEF Types
      <4>. QED  BY <4>1, <4>2, <4>3 DEF Counted
    <3>2. down[1].inv \in pending \/ CancelledAfter(down, 1, down[1].inv)
      BY <1>2 DEF UpInv, SlotsInv, InvokesCounted
    <3>3. down[1].inv <= down[1].inv
      BY <1>5
    <3>. QED  BY <1>3, <3>1, <3>2, <3>3 DEF Counted
  <2>2. Cardinality(C) <= Limit
    BY <1>2 DEF UpInv, SlotsInv, InvokesCounted
  <2>3. C \subseteq Invocations
    BY DEF Counted
  <2>. HIDE DEF C
  <2>4. Cardinality(active \cup {down[1].inv}) = Cardinality(active) + 1
    BY <1>5, FS_AddElement, FiniteInvocations DEF Types
  <2>5. Cardinality(active \cup {down[1].inv}) <= Cardinality(C)
    BY <2>1, <2>3, FS_Subset, FiniteInvocations
  <2>6. Cardinality(active) \in Nat /\ Cardinality(C) \in Nat /\ Limit \in Nat
    BY <2>3, FiniteInvocations, ConversationAssumption DEF Types
  <2>. QED  BY <2>2, <2>4, <2>5, <2>6
<1>. QED  BY <1>2, <1>5, <1>6, <1>7 DEF Accepts

\* An invocation moves from what is on its way to what runs.
LEMMA InvokeUp ==
    ASSUME Types, UpInv, Invoke
    PROVE  UpInv' /\ link' = link
<1>1. Fields
  BY TypesFields
<1>2. /\ Shrinks(down, down') /\ down[1].type = "invoke" /\ Head(down) = down[1]
      /\ down # <<>>
  BY ReceivesCases DEF Invoke, Receives
<1>3. /\ active' = active \cup {down[1].inv} /\ up' = up
      /\ UNCHANGED <<link, regs, replies, routes, pending, used>>
  BY <1>2, HeadAccepted DEF Invoke, bridgeEnd
<1>4. Len(up') \in Nat /\ Len(down') \in Nat /\ Len(down) = Len(down') + 1
      /\ \A i \in 1..Len(down') : down'[i] = down[i + 1] /\ i + 1 \in 1..Len(down) /\ 1 < i + 1
  BY <1>1, <1>2, <1>3 DEF Fields, Shrinks
<1>5. OrderInv' /\ WaitingInv' /\ AskedInv' /\ RoutesInv'
  <2>1. SameCalls(up, up', 0) /\ SameReplies(down, down', 1)
    BY <1>2, <1>3, UpMoves, DownMoves
  <2>. QED  BY <1>3, <1>4, <2>1, CallsUntouched
<1>6. 1 \in 1..Len(down) /\ down[1].inv \in Nat /\ down[1].inv \in Invocations
  <2>1. 1 \in 1..Len(down)
    BY <1>2 DEF Shrinks
  <2>2. down[1].inv \in Invocations
    BY <1>1, <1>2, <2>1 DEF Fields
  <2>3. Invocations \subseteq Nat
    BY <1>1 DEF Fields
  <2>. QED  BY <2>1, <2>2, <2>3
<1>7. SlotsInv'
  <2>1. Numbers(up, down, active, pending, used.invocations)'
    <3>1. \A j \in 1..Len(up) : up[j].of = "answer" => up[j].inv < down[1].inv /\ up[j].inv \in Nat
      BY <1>1, <1>2, <1>6 DEF UpInv, SlotsInv, InvokesNewest, Fields
    <3>2. down[1].inv <= used.invocations
      BY <1>2, <1>6 DEF UpInv, SlotsInv, Numbers
    <3>3. \A j \in 1..Len(up) : up[j].of = "answer" => up[j].inv # down[1].inv
      BY <3>1, <1>6
    <3>. QED  BY <1>3, <1>4, <3>2, <3>3 DEF UpInv, SlotsInv, Numbers
  <2>2. InvokesNewest(up, down, active)'
    <3>. SUFFICES ASSUME NEW k \in 1..Len(down'), down'[k].type = "invoke"
                  PROVE  /\ \A i \in active' : i < down'[k].inv
                         /\ \A j \in 1..Len(up') : up'[j].of = "answer" => up'[j].inv < down'[k].inv
                         /\ \A i \in 1..Len(down') : i < k /\ down'[i].type # "reply"
                                                        => down'[i].inv < down'[k].inv
      BY DEF InvokesNewest
    <3>1. k + 1 \in 1..Len(down) /\ down'[k] = down[k + 1] /\ 1 < k + 1
      BY <1>4
    <3>2. down[1].inv < down[k + 1].inv
      BY <1>2, <1>6, <3>1 DEF UpInv, SlotsInv, InvokesNewest
    <3>3. \A i \in 1..Len(down') : i < k => i + 1 < k + 1
      OBVIOUS
    <3>. QED  BY <1>3, <1>4, <3>1, <3>2, <3>3 DEF UpInv, SlotsInv, InvokesNewest
  <2>3. SameInvocations(down, down', 1)
    BY <1>2, DownMoves
  <2>4. \A k \in Nat : \A i : k <= Len(down')
           => (CancelledAfter(down', k, i) <=> CancelledAfter(down, k + 1, i))
    BY <1>1, <1>4, <2>3, CancelledMoved
  <2>5. BusyCounted(down, active, pending)'
    <3>1. \A i : CancelledAfter(down, 0, i) => CancelledAfter(down, 1, i)
      <4>. SUFFICES ASSUME NEW i, NEW l \in 1..Len(down), l > 0, down[l].type = "cancel",
                           down[l].inv = i
                    PROVE  l > 1
        BY DEF CancelledAfter
      <4>. QED  BY <1>2, <1>4
    <3>2. \A i : CancelledAfter(down, 0 + 1, i) => CancelledAfter(down', 0, i)
      BY <2>4, <1>4
    <3>3. down[1].inv \in pending \/ CancelledAfter(down, 1, down[1].inv)
      BY <1>2, <1>6 DEF UpInv, SlotsInv, InvokesCounted
    <3>4. \A i \in active : i \in pending \/ CancelledAfter(down, 0, i)
      BY DEF UpInv, SlotsInv, BusyCounted
    <3>. QED  BY <1>3, <3>1, <3>2, <3>3, <3>4 DEF BusyCounted
  <2>6. InvokesCounted(down, pending)'
    <3>. SUFFICES ASSUME NEW k \in 1..Len(down'), down'[k].type = "invoke"
                  PROVE  /\ down'[k].inv \in pending \/ CancelledAfter(down', k, down'[k].inv)
                         /\ Cardinality(Counted(down', pending, k)) <= Limit
      BY <1>3 DEF InvokesCounted
    <3>1. k + 1 \in 1..Len(down) /\ down'[k] = down[k + 1] /\ k \in Nat /\ k <= Len(down')
      BY <1>4
    <3>2. CancelledAfter(down', k, down'[k].inv) <=> CancelledAfter(down, k + 1, down'[k].inv)
      BY <2>4, <3>1
    <3>3. Counted(down', pending, k) = Counted(down, pending, k + 1)
      BY <1>1, <1>4, <2>3, CountedMoved
    <3>. QED  BY <3>1, <3>2, <3>3 DEF UpInv, SlotsInv, InvokesCounted
  <2>. QED  BY <2>1, <2>2, <2>5, <2>6 DEF SlotsInv
<1>. QED  BY <1>3, <1>5, <1>7 DEF UpInv

\* An invocation that ends, at the client: its answer, if it is sent, follows all else.
LEMMA EndsUp ==
    ASSUME Types, UpInv, NEW i \in Invocations, Ends(i)
    PROVE  link = "up" => UpInv' /\ link' = link
<1>. SUFFICES ASSUME link = "up" PROVE UpInv' /\ link' = link
  OBVIOUS
<1>. DEFINE m == [of |-> "answer", inv |-> i]
<1>1. Fields
  BY TypesFields
<1>2. /\ i \in active /\ active' = active \ {i} /\ up' = Answer(i)
      /\ UNCHANGED <<link, regs, replies, down, routes, pending, used>>
  BY DEF Ends, bridgeEnd
<1>3. Grows(up, up', m) /\ m.of = "answer" /\ m.inv = i
  BY <1>2, AnswerMessage
<1>. HIDE DEF m
<1>4. /\ Len(up') \in Nat /\ Len(down') \in Nat
      /\ \A j \in 1..Len(up') : (j \in 1..Len(up) /\ up'[j] = up[j]) \/ up'[j] = m
  BY <1>1, <1>2, <1>3 DEF Fields, Grows
<1>5. OrderInv' /\ WaitingInv' /\ AskedInv' /\ RoutesInv'
  <2>1. SameCalls(up, up', 0) /\ SameReplies(down, down', 0)
    BY <1>2, <1>3, UpMoves, DownMoves
  <2>. QED  BY <1>2, <1>4, <2>1, CallsUntouched
<1>6. SlotsInv'
  <2>1. Numbers(up, down, active, pending, used.invocations)'
    BY <1>2, <1>3, <1>4 DEF UpInv, SlotsInv, Numbers
  <2>2. InvokesNewest(up, down, active)'
    BY <1>2, <1>3, <1>4 DEF UpInv, SlotsInv, InvokesNewest
  <2>3. BusyCounted(down, active, pending)' /\ InvokesCounted(down, pending)'
    BY <1>2 DEF UpInv, SlotsInv, BusyCounted, InvokesCounted
  <2>. QED  BY <2>1, <2>2, <2>3 DEF SlotsInv
<1>. QED  BY <1>2, <1>5, <1>6 DEF UpInv

\* A cancellation is answered at once.
LEMMA CancelUp ==
    ASSUME Types, UpInv, Cancel
    PROVE  UpInv' /\ link' = link
<1>. DEFINE i == down[1].inv
            m == [of |-> "answer", inv |-> i]
<1>1. Fields
  BY TypesFields
<1>2. Shrinks(down, down') /\ down[1].type = "cancel" /\ Head(down) = down[1]
  BY ReceivesCases DEF Cancel
<1>3. /\ active' = active \ {i} /\ up' = Answer(i)
      /\ UNCHANGED <<link, regs, replies, routes, pending, used>>
  BY <1>2 DEF Cancel, Freed, bridgeEnd
<1>4. 1 \in 1..Len(down) /\ i \in Invocations
  <2>1. 1 \in 1..Len(down)
    BY <1>2 DEF Shrinks
  <2>. QED  BY <1>1, <1>2, <2>1 DEF Fields
<1>5. Grows(up, up', m) /\ m.of = "answer" /\ m.inv = i
  BY <1>3, <1>4, AnswerMessage
<1>6. i <= used.invocations
  BY <1>2, <1>4 DEF UpInv, SlotsInv, Numbers
<1>7. \A k \in 2..Len(down) : down[k].type = "invoke" => i < down[k].inv
  <2>1. \A k \in 2..Len(down) : k \in 1..Len(down) /\ 1 < k
    BY <1>1 DEF Fields
  <2>. QED  BY <1>2, <1>4, <2>1 DEF UpInv, SlotsInv, InvokesNewest
<1>8. down[1].inv = i
  OBVIOUS
<1>. HIDE DEF m, i
<1>9. /\ Len(up') \in Nat /\ Len(down') \in Nat /\ Len(down) = Len(down') + 1
      /\ \A j \in 1..Len(up') : (j \in 1..Len(up) /\ up'[j] = up[j]) \/ up'[j] = m
      /\ \A k \in 1..Len(down') : down'[k] = down[k + 1] /\ k + 1 \in 2..Len(down) /\ k + 1 \in 1..Len(down)
  BY <1>1, <1>2, <1>5 DEF Fields, Grows, Shrinks
<1>10. OrderInv' /\ WaitingInv' /\ AskedInv' /\ RoutesInv'
  <2>1. SameCalls(up, up', 0) /\ SameReplies(down, down', 1)
    BY <1>2, <1>5, UpMoves, DownMoves
  <2>. QED  BY <1>3, <1>9, <2>1, CallsUntouched
<1>11. SlotsInv'
  <2>1. Numbers(up, down, active, pending, used.invocations)'
    BY <1>3, <1>5, <1>6, <1>9 DEF UpInv, SlotsInv, Numbers
  <2>2. InvokesNewest(up, down, active)'
    <3>. SUFFICES ASSUME NEW k \in 1..Len(down'), down'[k].type = "invoke"
                  PROVE  /\ \A l \in active' : l < down'[k].inv
                         /\ \A j \in 1..Len(up') : up'[j].of = "answer" => up'[j].inv < down'[k].inv
                         /\ \A l \in 1..Len(down') : l < k /\ down'[l].type # "reply"
                                                        => down'[l].inv < down'[k].inv
      BY DEF InvokesNewest
    <3>1. k + 1 \in 1..Len(down) /\ k + 1 \in 2..Len(down) /\ down'[k] = down[k + 1]
      BY <1>9
    <3>2. i < down[k + 1].inv
      BY <1>7, <3>1
    <3>3. \A l \in 1..Len(down') : l < k => l + 1 < k + 1
      OBVIOUS
    <3>. QED  BY <1>3, <1>5, <1>9, <3>1, <3>2, <3>3 DEF UpInv, SlotsInv, InvokesNewest
  <2>3. SameInvocations(down, down', 1)
    BY <1>2, DownMoves
  <2>4. \A k \in Nat : \A l : k <= Len(down')
           => (CancelledAfter(down', k, l) <=> CancelledAfter(down, k + 1, l))
    BY <1>1, <1>9, <2>3, CancelledMoved
  <2>5. BusyCounted(down, active, pending)'
    <3>1. \A l : l # i /\ CancelledAfter(down, 0, l) => CancelledAfter(down, 0 + 1, l)
      <4>. SUFFICES ASSUME NEW l, l # i, CancelledAfter(down, 0, l)
                    PROVE  CancelledAfter(down, 0 + 1, l)
        OBVIOUS
      <4>1. PICK h \in 1..Len(down) : h > 0 /\ down[h].type = "cancel" /\ down[h].inv = l
        BY DEF CancelledAfter
      <4>2. h # 1
        BY <1>8, <4>1
      <4>3. h > 0 + 1
        BY <1>9, <4>2
      <4>. QED  BY <4>1, <4>3 DEF CancelledAfter
    <3>2. \A l : CancelledAfter(down, 0 + 1, l) => CancelledAfter(down', 0, l)
      BY <2>4, <1>9
    <3>. QED  BY <1>3, <3>1, <3>2 DEF UpInv, SlotsInv, BusyCounted
  <2>6. InvokesCounted(down, pending)'
    <3>. SUFFICES ASSUME NEW k \in 1..Len(down'), down'[k].type = "invoke"
                  PROVE  /\ down'[k].inv \in pending \/ CancelledAfter(down', k, down'[k].inv)
                         /\ Cardinality(Counted(down', pending, k)) <= Limit
      BY <1>3 DEF InvokesCounted
    <3>1. k + 1 \in 1..Len(down) /\ down'[k] = down[k + 1] /\ k \in Nat /\ k <= Len(down')
      BY <1>9
    <3>2. CancelledAfter(down', k, down'[k].inv) <=> CancelledAfter(down, k + 1, down'[k].inv)
      BY <2>4, <3>1
    <3>3. Counted(down', pending, k) = Counted(down, pending, k + 1)
      BY <1>1, <1>9, <2>3, CountedMoved
    <3>. QED  BY <3>1, <3>2, <3>3 DEF UpInv, SlotsInv, InvokesCounted
  <2>. QED  BY <2>1, <2>2, <2>5, <2>6 DEF SlotsInv
<1>. QED  BY <1>3, <1>10, <1>11 DEF UpInv

\* The bridge has heard the answer: what it waited for counts no longer.
LEMMA BridgeHearsAnswer ==
    ASSUME Types, UpInv, Shrinks(up, up'), up[1].of = "answer",
           UNCHANGED <<regs, replies, active, used, down, routes>>, pending' = pending \ {up[1].inv}
    PROVE  UpInv'
<1>. DEFINE i == up[1].inv
<1>1. Fields
  BY TypesFields
<1>2. /\ Len(up') \in Nat /\ Len(down') \in Nat /\ 1 \in 1..Len(up)
      /\ \A j \in 1..Len(up') : up'[j] = up[j + 1] /\ j + 1 \in 1..Len(up)
  BY <1>1 DEF Fields, Shrinks
<1>3. OrderInv' /\ WaitingInv' /\ AskedInv' /\ RoutesInv'
  <2>1. SameCalls(up, up', 1) /\ SameReplies(down, down', 0)
    BY UpMoves, DownMoves
  <2>. QED  BY <1>2, <2>1, CallsUntouched
<1>4. i \notin active /\ \A k \in 1..Len(down) : down[k].type = "invoke" => i < down[k].inv
  BY <1>2 DEF UpInv, SlotsInv, Numbers, InvokesNewest
<1>5. SlotsInv'
  <2>1. Numbers(up, down, active, pending, used.invocations)'
    BY <1>2 DEF UpInv, SlotsInv, Numbers
  <2>2. InvokesNewest(up, down, active)'
    BY <1>2 DEF UpInv, SlotsInv, InvokesNewest
  <2>3. BusyCounted(down, active, pending)'
    BY <1>4 DEF UpInv, SlotsInv, BusyCounted
  <2>4. InvokesCounted(down, pending)'
    <3>. SUFFICES ASSUME NEW k \in 1..Len(down), down[k].type = "invoke"
                  PROVE  /\ down[k].inv \in pending' \/ CancelledAfter(down, k, down[k].inv)
                         /\ Cardinality(Counted(down, pending', k)) <= Limit
      BY DEF InvokesCounted
    <3>1. /\ down[k].inv \in pending \/ CancelledAfter(down, k, down[k].inv)
          /\ Cardinality(Counted(down, pending, k)) <= Limit
      BY DEF UpInv, SlotsInv, InvokesCounted
    <3>2. down[k].inv # i
      <4>1. i < down[k].inv /\ down[k].inv \in Nat
        BY <1>1, <1>4 DEF Fields
      <4>. QED  BY <4>1
    <3>3. Counted(down, pending', k) \subseteq Counted(down, pending, k)
      BY DEF Counted
    <3>4. Counted(down, pending, k) \subseteq Invocations
      BY DEF Counted
    <3>5. Cardinality(Counted(down, pending', k)) <= Cardinality(Counted(down, pending, k))
      BY <3>3, <3>4, FS_Subset, FiniteInvocations
    <3>6. /\ Cardinality(Counted(down, pending', k)) \in Nat
          /\ Cardinality(Counted(down, pending, k)) \in Nat /\ Limit \in Nat
      BY <3>3, <3>4, FiniteInvocations, ConversationAssumption
    <3>. QED  BY <3>1, <3>2, <3>5, <3>6
  <2>. QED  BY <2>1, <2>2, <2>3, <2>4 DEF SlotsInv
<1>. QED  BY <1>3, <1>5 DEF UpInv

\* What the bridge gives up counts until the client has heard of it.
LEMMA GivesUpUp ==
    ASSUME Types, UpInv, NEW i \in Invocations, BridgeGivesUp(i)
    PROVE  UpInv' /\ link' = link
<1>. DEFINE m == [type |-> "cancel", inv |-> i]
<1>1. Fields
  BY TypesFields
<1>2. /\ i \in pending /\ pending' = pending \ {i} /\ down' = Append(down, m)
      /\ UNCHANGED <<link, regs, replies, active, up, routes, used>>
  BY DEF BridgeGivesUp, Tells, clientEnd
<1>3. m.type = "cancel" /\ m.inv = i
  OBVIOUS
<1>. HIDE DEF m
<1>4. Grows(down, down', m)
  BY <1>2, AppendGrows DEF Types
<1>5. /\ Len(up') \in Nat /\ Len(down') \in Nat /\ Len(down) \in Nat /\ Len(down') = Len(down) + 1
      /\ \A k \in 1..Len(down) : down'[k] = down[k] /\ k \in 1..Len(down')
      /\ \A k \in 1..Len(down') : k \in 1..Len(down) \/ k = Len(down) + 1
      /\ Len(down) + 1 \in 1..Len(down') /\ down'[Len(down) + 1] = m
  BY <1>1, <1>2, <1>4 DEF Fields, Grows
<1>6. OrderInv' /\ WaitingInv' /\ AskedInv' /\ RoutesInv'
  <2>1. SameCalls(up, up', 0) /\ SameReplies(down, down', 0)
    BY <1>2, <1>3, <1>4, UpMoves, DownMoves
  <2>. QED  BY <1>2, <1>5, <2>1, CallsUntouched
<1>7. i <= used.invocations
  BY <1>2 DEF UpInv, SlotsInv, Numbers
<1>8. SlotsInv'
  <2>1. Numbers(up, down, active, pending, used.invocations)'
    BY <1>2, <1>3, <1>5, <1>7 DEF UpInv, SlotsInv, Numbers
  <2>2. InvokesNewest(up, down, active)'
    <3>1. \A k \in 1..Len(down') : down'[k].type = "invoke" => k \in 1..Len(down) /\ down'[k] = down[k]
      BY <1>3, <1>5
    <3>2. \A k \in 1..Len(down), l \in 1..Len(down') : l < k => l \in 1..Len(down) /\ down'[l] = down[l]
      BY <1>5
    <3>. QED  BY <1>2, <3>1, <3>2 DEF UpInv, SlotsInv, InvokesNewest
  <2>3. \A k \in 0..Len(down) : \A l :
           l \in pending \/ CancelledAfter(down, k, l) <=> l \in pending' \/ CancelledAfter(down', k, l)
    <3>. SUFFICES ASSUME NEW k \in 0..Len(down), NEW l
                  PROVE  l \in pending \/ CancelledAfter(down, k, l)
                            <=> l \in pending' \/ CancelledAfter(down', k, l)
      OBVIOUS
    <3>1. CancelledAfter(down, k, l) => CancelledAfter(down', k, l)
      BY <1>5 DEF CancelledAfter
    <3>2. CancelledAfter(down', k, i)
      <4>1. Len(down) + 1 > k
        BY <1>5
      <4>. QED  BY <1>3, <1>5, <4>1 DEF CancelledAfter
    <3>3. CancelledAfter(down', k, l) => l = i \/ CancelledAfter(down, k, l)
      BY <1>3, <1>5 DEF CancelledAfter
    <3>. QED  BY <1>2, <3>1, <3>2, <3>3
  <2>4. BusyCounted(down, active, pending)'
    <3>1. 0 \in 0..Len(down)
      BY <1>5
    <3>. QED  BY <1>2, <2>3, <3>1 DEF UpInv, SlotsInv, BusyCounted
  <2>5. InvokesCounted(down, pending)'
    <3>. SUFFICES ASSUME NEW k \in 1..Len(down'), down'[k].type = "invoke"
                  PROVE  /\ down'[k].inv \in pending' \/ CancelledAfter(down', k, down'[k].inv)
                         /\ Cardinality(Counted(down', pending', k)) <= Limit
      BY DEF InvokesCounted
    <3>1. k \in 1..Len(down) /\ down'[k] = down[k] /\ k \in 0..Len(down)
      BY <1>3, <1>5
    <3>2. Counted(down', pending', k) = Counted(down, pending, k)
      BY <2>3, <3>1 DEF Counted
    <3>. QED  BY <2>3, <3>1, <3>2 DEF UpInv, SlotsInv, InvokesCounted
  <2>. QED  BY <2>1, <2>2, <2>4, <2>5 DEF SlotsInv
<1>. QED  BY <1>2, <1>6, <1>8 DEF UpInv

\* The bridge sends an invocation if there is a slot: the newest, for a registration that
\* the client has confirmed or will have when the invocation arrives.
LEMMA BridgeInvokesUp ==
    ASSUME Types, UpInv, NEW r \in Regs, BridgeInvokes(r)
    PROVE  UpInv' /\ link' = link
<1>. DEFINE new == used.invocations + 1
            m == [type |-> "invoke", inv |-> new, reg |-> r]
<1>1. Fields
  BY TypesFields
<1>2. /\ r \in routes /\ Cardinality(pending) < Limit
      /\ pending' = pending \cup {new} /\ down' = Append(down, m)
      /\ used' = [used EXCEPT !.invocations = new]
      /\ UNCHANGED <<link, regs, replies, active, up, routes>>
  BY DEF BridgeInvokes, Tells, clientEnd
<1>3. m.type = "invoke" /\ m.inv = new /\ m.reg = r
  OBVIOUS
<1>4. /\ used'.invocations = new /\ used'.calls = used.calls
      /\ used.invocations \in Nat /\ new \in Nat /\ used.invocations < new
  BY <1>1, <1>2 DEF Fields, Types
<1>5. new \in Invocations
  BY <1>4, ConversationAssumption DEF BridgeInvokes, Invocations
<1>. HIDE DEF m, new
<1>6. Grows(down, down', m)
  BY <1>2, AppendGrows DEF Types
<1>7. /\ Len(down') \in Nat /\ Len(down) \in Nat /\ Len(down') = Len(down) + 1
      /\ \A k \in 1..Len(down) : down'[k] = down[k] /\ k \in 1..Len(down') /\ k < Len(down) + 1
      /\ \A k \in 1..Len(down') : k \in 1..Len(down) \/ k = Len(down) + 1
      /\ Len(down) + 1 \in 1..Len(down') /\ down'[Len(down) + 1] = m
  BY <1>1, <1>6 DEF Fields, Grows
<1>8. \A i \in 1..Len(down') : ReplyAt(down', i) => i \in 1..Len(down) /\ down'[i] = down[i]
  BY <1>3, <1>7 DEF ReplyAt
<1>9. OrderInv'
  <2>1. DownOrder(down, used.calls)'
    BY <1>4, <1>8 DEF UpInv, OrderInv, DownOrder, ReplyAt
  <2>2. CrossOrder(up, down)'
    BY <1>2, <1>8 DEF UpInv, OrderInv, CrossOrder, ReplyAt
  <2>. QED  BY <1>2, <1>4, <2>1, <2>2 DEF UpInv, OrderInv
<1>10. WaitingInv'
  <2>1. Underway(up, down, replies)'
    <3>1. \A i \in 1..Len(down) : ReplyAt(down, i)
             => i \in 1..Len(down') /\ ReplyAt(down', i) /\ down'[i] = down[i]
      BY <1>7 DEF ReplyAt
    <3>. QED  BY <1>2, <3>1 DEF UpInv, WaitingInv, Underway
  <2>. QED  BY <1>2, <1>4, <2>1 DEF UpInv, WaitingInv
<1>11. AskedInv'
  BY <1>2 DEF UpInv, AskedInv
<1>12. RoutesInv'
  <2>1. \A i \in 1..Len(down) : \A of, q : SettlesAt(down, replies, i, of, q)
           => i \in 1..Len(down') /\ SettlesAt(down', replies, i, of, q)
    BY <1>7 DEF SettlesAt
  <2>2. RoutesHeard(down, replies, regs, routes)'
    BY <1>2, <2>1 DEF UpInv, RoutesInv, RoutesHeard
  <2>3. HandlersRouted(down, replies, regs, routes)'
    BY <1>2, <2>1 DEF UpInv, RoutesInv, HandlersRouted
  <2>4. RepliesTrue(down, replies, routes)'
    <3>. SUFFICES ASSUME NEW p \in replies, NEW i \in 1..Len(down'),
                         ReplyAt(down', i), down'[i].id = p.id
                  PROVE  IF p.of = "register" /\ down'[i].outcome = "done"
                         THEN p.reg \in routes
                                \/ \E k \in 1..Len(down') : SettlesAt(down', replies, k, "unregister", p.reg)
                         ELSE p.reg \notin routes
      BY <1>2 DEF RepliesTrue
    <3>1. i \in 1..Len(down) /\ ReplyAt(down, i) /\ down'[i] = down[i]
      BY <1>8 DEF ReplyAt
    <3>2. IF p.of = "register" /\ down'[i].outcome = "done"
          THEN p.reg \in routes
                 \/ \E k \in 1..Len(down) : SettlesAt(down, replies, k, "unregister", p.reg)
          ELSE p.reg \notin routes
      BY <3>1 DEF UpInv, RoutesInv, RepliesTrue
    <3>. QED  BY <2>1, <3>2
  <2>5. InvokesConfirmed(down, replies, regs)'
    <3>. SUFFICES ASSUME NEW k \in 1..Len(down'), down'[k].type = "invoke"
                  PROVE  \/ regs[down'[k].reg] = "registered"
                         \/ \E i \in 1..Len(down') : i < k
                               /\ SettlesAt(down', replies, i, "register", down'[k].reg)
      BY <1>2 DEF InvokesConfirmed
    <3>1. CASE k \in 1..Len(down)
      <4>1. down'[k] = down[k]
        BY <1>7, <3>1
      <4>2. \/ regs[down[k].reg] = "registered"
            \/ \E i \in 1..Len(down) : i < k /\ SettlesAt(down, replies, i, "register", down[k].reg)
        BY <3>1, <4>1 DEF UpInv, RoutesInv, InvokesConfirmed
      <4>. QED  BY <2>1, <4>1, <4>2
    <3>2. CASE k = Len(down) + 1
      <4>1. down'[k].reg = r
        BY <1>3, <1>7, <3>2
      <4>2. \/ regs[r] = "registered"
            \/ \E i \in 1..Len(down) : SettlesAt(down, replies, i, "register", r)
        BY <1>2 DEF UpInv, RoutesInv, RoutesHeard
      <4>3. \A i \in 1..Len(down) : i < k
        BY <1>7, <3>2
      <4>. QED  BY <2>1, <4>1, <4>2, <4>3
    <3>. QED  BY <1>7, <3>1, <3>2
  <2>6. InvokesKept(down, replies)'
    <3>. SUFFICES ASSUME NEW k \in 1..Len(down'), NEW i \in 1..Len(down'), NEW p \in replies,
                         down'[k].type = "invoke", i < k, ReplyAt(down', i),
                         down'[i].id = p.id, p.reg = down'[k].reg
                  PROVE  p.of = "register" /\ down'[i].outcome = "done"
      BY <1>2 DEF InvokesKept
    <3>1. i \in 1..Len(down) /\ down'[i] = down[i] /\ ReplyAt(down, i)
      BY <1>8 DEF ReplyAt
    <3>2. CASE k \in 1..Len(down)
      <4>1. down'[k] = down[k]
        BY <1>7, <3>2
      <4>. QED  BY <3>1, <3>2, <4>1 DEF UpInv, RoutesInv, InvokesKept
    <3>3. CASE k = Len(down) + 1
      <4>1. p.reg = r
        BY <1>3, <1>7, <3>3
      <4>. QED  BY <1>2, <3>1, <4>1 DEF UpInv, RoutesInv, RepliesTrue
    <3>. QED  BY <1>7, <3>2, <3>3
  <2>. QED  BY <2>2, <2>3, <2>4, <2>5, <2>6 DEF RoutesInv
<1>13. SlotsInv'
  <2>1. \A i \in Nat : i <= used.invocations => i < new
    BY <1>4
  <2>2. /\ active \subseteq Nat /\ pending \subseteq Nat
        /\ \A k \in 1..Len(down) : down[k].type # "reply" => down[k].inv \in Nat
        /\ \A j \in 1..Len(up) : up[j].of = "answer" => up[j].inv \in Nat
    BY <1>1 DEF Fields, Types
  <2>3. /\ \A i \in active : i < new
        /\ \A i \in pending : i < new
        /\ \A k \in 1..Len(down) : down[k].type # "reply" => down[k].inv < new
        /\ \A j \in 1..Len(up) : up[j].of = "answer" => up[j].inv < new
    BY <2>1, <2>2 DEF UpInv, SlotsInv, Numbers
  <2>4. Numbers(up, down, active, pending, used.invocations)'
    <3>0. \A i \in Nat : i < new => i <= new
      BY <1>4
    <3>1. \A i \in active : i <= new
      BY <3>0, <2>2, <2>3
    <3>2. \A i \in pending' : i <= new
      BY <1>2, <1>4, <2>2, <2>3
    <3>3. \A k \in 1..Len(down') : down'[k].type # "reply" => down'[k].inv <= new
      BY <1>3, <1>4, <1>7, <2>2, <2>3
    <3>4. \A j \in 1..Len(up) : up[j].of = "answer" => up[j].inv \notin active /\ up[j].inv <= new
      BY <1>4, <2>2, <2>3 DEF UpInv, SlotsInv, Numbers
    <3>. QED  BY <1>2, <1>4, <3>1, <3>2, <3>3, <3>4 DEF Numbers
  <2>5. InvokesNewest(up, down, active)'
    <3>. SUFFICES ASSUME NEW k \in 1..Len(down'), down'[k].type = "invoke"
                  PROVE  /\ \A i \in active : i < down'[k].inv
                         /\ \A j \in 1..Len(up) : up[j].of = "answer" => up[j].inv < down'[k].inv
                         /\ \A i \in 1..Len(down') : i < k /\ down'[i].type # "reply"
                                                        => down'[i].inv < down'[k].inv
      BY <1>2 DEF InvokesNewest
    <3>1. \A i \in 1..Len(down') : i < k => i \in 1..Len(down) /\ down'[i] = down[i]
      BY <1>7
    <3>2. CASE k \in 1..Len(down)
      <4>1. down'[k] = down[k]
        BY <1>7, <3>2
      <4>. QED  BY <3>1, <3>2, <4>1 DEF UpInv, SlotsInv, InvokesNewest
    <3>3. CASE k = Len(down) + 1
      <4>1. down'[k].inv = new
        BY <1>3, <1>7, <3>3
      <4>. QED  BY <2>3, <3>1, <4>1
    <3>. QED  BY <1>7, <3>2, <3>3
  <2>6. \A k \in 0..Len(down') : \A i : CancelledAfter(down', k, i) <=> CancelledAfter(down, k, i)
    BY <1>3, <1>7 DEF CancelledAfter
  <2>7. BusyCounted(down, active, pending)'
    <3>1. 0 \in 0..Len(down')
      BY <1>7
    <3>. QED  BY <1>2, <2>6, <3>1 DEF UpInv, SlotsInv, BusyCounted
  <2>8. InvokesCounted(down, pending)'
    <3>. SUFFICES ASSUME NEW k \in 1..Len(down'), down'[k].type = "invoke"
                  PROVE  /\ down'[k].inv \in pending' \/ CancelledAfter(down', k, down'[k].inv)
                         /\ Cardinality(Counted(down', pending', k)) <= Limit
      BY DEF InvokesCounted
    <3>0. k \in 0..Len(down')
      BY <1>7
    <3>1. CASE k \in 1..Len(down)
      <4>1. down'[k] = down[k] /\ down[k].inv < new /\ down[k].inv \in Nat
        BY <1>7, <2>2, <2>3, <3>1
      <4>2. ~(new <= down[k].inv)
        BY <1>4, <4>1
      <4>3. Counted(down', pending', k) = Counted(down, pending, k)
        BY <1>2, <2>6, <3>0, <4>1, <4>2 DEF Counted
      <4>. QED  BY <1>2, <2>6, <3>0, <3>1, <4>1, <4>3 DEF UpInv, SlotsInv, InvokesCounted
    <3>2. CASE k = Len(down) + 1
      <4>1. down'[k].inv = new
        BY <1>3, <1>7, <3>2
      <4>2. \A i : ~CancelledAfter(down', k, i)
        BY <1>7, <3>2 DEF CancelledAfter
      <4>3. Counted(down', pending', k) \subseteq pending \cup {new}
        BY <1>2, <4>2 DEF Counted
      <4>4. pending \cup {new} \in SUBSET Invocations /\ pending \in SUBSET Invocations
        BY <1>5 DEF Types
      <4>5. new \notin pending
        BY <2>2, <2>3, <1>4
      <4>6. Cardinality(pending \cup {new}) = Cardinality(pending) + 1
        BY <4>4, <4>5, FS_AddElement, FiniteInvocations
      <4>7. Cardinality(Counted(down', pending', k)) <= Cardinality(pending \cup {new})
        BY <4>3, <4>4, FS_Subset, FiniteInvocations
      <4>8. /\ Cardinality(Counted(down', pending', k)) \in Nat /\ Cardinality(pending) \in Nat
            /\ Limit \in Nat
        BY <4>3, <4>4, FiniteInvocations, ConversationAssumption
      <4>9. Cardinality(Counted(down', pending', k)) <= Limit
        BY <1>2, <4>6, <4>7, <4>8
      <4>. QED  BY <1>2, <4>1, <4>9
    <3>. QED  BY <1>7, <3>1, <3>2
  <2>. QED  BY <2>4, <2>5, <2>7, <2>8 DEF SlotsInv
<1>. QED  BY <1>2, <1>9, <1>10, <1>11, <1>12, <1>13 DEF UpInv

-----------------------------------------------------------------------------
(* Calls and their replies.                                                 *)

\* The bridge registers, refuses or removes, and tells so at the end of what is on its way.
LEMMA BridgeRepliesUp ==
    ASSUME Types, UpInv, Shrinks(up, up'), Asked(up[1]), up' \in Seq(UpMessages),
           NEW outcome \in {"done", "refused"}, down' = Append(down, Done(up[1].id, outcome)),
           UNCHANGED <<regs, replies, active, used, pending>>,
           \/ up[1].of = "register" /\ outcome = "refused" /\ routes' = routes
           \/ up[1].of = "register" /\ outcome = "done" /\ routes' = routes \cup {up[1].reg}
           \/ up[1].of = "unregister" /\ outcome = "done" /\ routes' = routes \ {up[1].reg}
    PROVE  UpInv'
<1>. DEFINE call == up[1]
            m == Done(call.id, outcome)
            n == Len(down) + 1
<1>1. Fields
  BY TypesFields
<1>2. m.type = "reply" /\ m.id = call.id /\ m.outcome = outcome
  BY DEF Done
<1>3. /\ 1 \in 1..Len(up) /\ Asked(call) /\ call.id \in Nat /\ call.reg \in Regs
      /\ call.of \in {"register", "unregister"}
  <2>1. 1 \in 1..Len(up)
    BY DEF Shrinks
  <2>. QED  BY <1>1, <2>1 DEF Fields
<1>4. /\ \/ call.of = "register" /\ outcome = "refused" /\ routes' = routes
         \/ call.of = "register" /\ outcome = "done" /\ routes' = routes \cup {call.reg}
         \/ call.of = "unregister" /\ outcome = "done" /\ routes' = routes \ {call.reg}
      /\ down' = Append(down, m)
  OBVIOUS
<1>5. /\ \A j \in 1..Len(up) : Asked(up[j]) /\ j # 1 => call.id < up[j].id
      /\ \A i \in 1..Len(down) : ReplyAt(down, i) => down[i].id < call.id
      /\ call.id \in 1..used.calls
      /\ \A p \in replies : p.id = call.id => p = call
      /\ call.of = "register" => /\ call.reg \notin routes
                                 /\ regs[call.reg] \notin {"none", "registered"}
                                 /\ \A p \in replies : p.reg = call.reg => call.id <= p.id
                                 /\ \A k \in 1..Len(up) : k # 1 /\ up[k].of = "register"
                                                             => up[k].reg # call.reg
  <2>1. \A j \in 1..Len(up) : j # 1 => 1 < j
    BY <1>1 DEF Fields
  <2>2. /\ \A j \in 1..Len(up) : Asked(up[j]) /\ j # 1 => call.id < up[j].id
        /\ \A i \in 1..Len(down) : ReplyAt(down, i) => down[i].id < call.id
        /\ call.id \in 1..used.calls
    BY <1>3, <2>1 DEF UpInv, OrderInv, UpOrder, CrossOrder
  <2>3. \A p \in replies : p.id = call.id => p = call
    BY <1>3 DEF UpInv, WaitingInv, WaitingIds
  <2>4. call.of = "register" => /\ call.reg \notin routes
                                /\ regs[call.reg] \notin {"none", "registered"}
                                /\ \A p \in replies : p.reg = call.reg => call.id <= p.id
                                /\ \A k \in 1..Len(up) : k # 1 /\ up[k].of = "register"
                                                            => up[k].reg # call.reg
    BY <1>3 DEF UpInv, AskedInv, AskedOnce
  <2>. QED  BY <2>2, <2>3, <2>4
<1>6. /\ Len(up') \in Nat /\ Len(up) = Len(up') + 1
      /\ \A j \in 1..Len(up') : up'[j] = up[j + 1] /\ j + 1 \in 1..Len(up) /\ j + 1 # 1
      /\ \A j \in 1..Len(up) : j # 1 => j - 1 \in 1..Len(up') /\ up'[j - 1] = up[j]
  BY <1>1 DEF Fields, Shrinks
<1>. HIDE DEF m, call
<1>7. Grows(down, down', m)
  BY <1>4, AppendGrows DEF Types
<1>8. /\ Len(down') \in Nat /\ Len(down) \in Nat /\ Len(down') = n /\ n \in 1..Len(down')
      /\ \A k \in 1..Len(down) : down'[k] = down[k] /\ k \in 1..Len(down') /\ k < n
      /\ \A k \in 1..Len(down') : k \in 1..Len(down) \/ k = n
      /\ down'[n] = m
  BY <1>1, <1>7 DEF Fields, Grows
<1>. HIDE DEF n
<1>9. OrderInv'
  <2>1. UpOrder(up, used.calls)'
    <3>1. \A i \in 1..Len(up') : Asked(up'[i]) => up'[i].id \in 1..used.calls
      BY <1>6 DEF UpInv, OrderInv, UpOrder
    <3>2. \A i, j \in 1..Len(up') : i < j => i + 1 < j + 1
      OBVIOUS
    <3>3. \A i, j \in 1..Len(up') : i < j /\ Asked(up'[i]) /\ Asked(up'[j]) => up'[i].id < up'[j].id
      BY <1>6, <3>2 DEF UpInv, OrderInv, UpOrder
    <3>. QED  BY <3>1, <3>3 DEF UpOrder
  <2>2. DownOrder(down, used.calls)'
    <3>1. \A i \in 1..Len(down') : ReplyAt(down', i) => down'[i].id \in 1..used.calls
      BY <1>2, <1>5, <1>8 DEF UpInv, OrderInv, DownOrder, ReplyAt
    <3>2. ASSUME NEW i \in 1..Len(down'), NEW j \in 1..Len(down'), i < j,
                 ReplyAt(down', i), ReplyAt(down', j)
          PROVE  down'[i].id < down'[j].id
      <4>1. i \in 1..Len(down) /\ down'[i] = down[i] /\ ReplyAt(down, i)
        BY <1>8, <3>2 DEF ReplyAt
      <4>2. CASE j \in 1..Len(down)
        <5>1. down'[j] = down[j] /\ ReplyAt(down, j)
          BY <1>8, <3>2, <4>2 DEF ReplyAt
        <5>. QED  BY <3>2, <4>1, <4>2, <5>1 DEF UpInv, OrderInv, DownOrder
      <4>3. CASE j = n
        BY <1>2, <1>5, <1>8, <4>1, <4>3
      <4>. QED  BY <1>8, <4>2, <4>3
    <3>. QED  BY <3>1, <3>2 DEF DownOrder
  <2>3. CrossOrder(up, down)'
    <3>. SUFFICES ASSUME NEW i \in 1..Len(down'), NEW j \in 1..Len(up'), ReplyAt(down', i), Asked(up'[j])
                  PROVE  down'[i].id < up'[j].id
      BY DEF CrossOrder
    <3>1. up'[j] = up[j + 1] /\ j + 1 \in 1..Len(up) /\ j + 1 # 1
      BY <1>6
    <3>2. CASE i \in 1..Len(down)
      BY <1>8, <3>1, <3>2 DEF UpInv, OrderInv, CrossOrder, ReplyAt
    <3>3. CASE i = n
      BY <1>2, <1>5, <1>8, <3>1, <3>3
    <3>. QED  BY <1>8, <3>2, <3>3
  <2>. QED  BY <2>1, <2>2, <2>3 DEF OrderInv
<1>10. WaitingInv'
  <2>1. WaitingIds(up, replies, used.calls)'
    BY <1>6 DEF UpInv, WaitingInv, WaitingIds
  <2>2. Underway(up, down, replies)'
    <3>. SUFFICES ASSUME NEW p \in replies
                  PROVE  \/ \E j \in 1..Len(up') : Asked(up'[j]) /\ up'[j].id = p.id
                         \/ \E i \in 1..Len(down') : ReplyAt(down', i) /\ down'[i].id = p.id
      BY DEF Underway
    <3>1. ASSUME NEW j \in 1..Len(up), Asked(up[j]), up[j].id = p.id, j # 1
          PROVE  \E k \in 1..Len(up') : Asked(up'[k]) /\ up'[k].id = p.id
      BY <1>6, <3>1
    <3>2. call.id = p.id => \E k \in 1..Len(down') : ReplyAt(down', k) /\ down'[k].id = p.id
      BY <1>2, <1>8 DEF ReplyAt
    <3>3. ASSUME NEW i \in 1..Len(down), ReplyAt(down, i), down[i].id = p.id
          PROVE  \E k \in 1..Len(down') : ReplyAt(down', k) /\ down'[k].id = p.id
      BY <1>8, <3>3 DEF ReplyAt
    <3>4. up[1] = call
      BY DEF call
    <3>. QED  BY <3>1, <3>2, <3>3, <3>4 DEF UpInv, WaitingInv, Underway
  <2>. QED  BY <2>1, <2>2 DEF WaitingInv
<1>11. AskedInv'
  <2>1. AskedOnce(up, replies, regs, routes)'
    <3>. SUFFICES ASSUME NEW j \in 1..Len(up'), up'[j].of = "register"
                  PROVE  /\ up'[j].reg \notin routes'
                         /\ regs[up'[j].reg] \notin {"none", "registered"}
                         /\ \A p \in replies : p.reg = up'[j].reg => up'[j].id <= p.id
                         /\ \A k \in 1..Len(up') : k # j /\ up'[k].of = "register"
                                                      => up'[k].reg # up'[j].reg
      BY DEF AskedOnce
    <3>1. up'[j] = up[j + 1] /\ j + 1 \in 1..Len(up) /\ j + 1 # 1
      BY <1>6
    <3>2. \A k \in 1..Len(up') : k # j => k + 1 # j + 1
      BY <1>6
    <3>3. /\ up[j + 1].reg \notin routes /\ regs[up[j + 1].reg] \notin {"none", "registered"}
          /\ \A p \in replies : p.reg = up[j + 1].reg => up[j + 1].id <= p.id
          /\ \A k \in 1..Len(up) : k # j + 1 /\ up[k].of = "register" => up[k].reg # up[j + 1].reg
      BY <3>1 DEF UpInv, AskedInv, AskedOnce
    <3>4. call.of = "register" => up[j + 1].reg # call.reg
      BY <1>5, <3>1
    <3>. QED  BY <1>4, <1>6, <3>1, <3>2, <3>3, <3>4
  <2>2. NeverAsked(replies, regs, routes)'
    BY <1>4, <1>5 DEF UpInv, AskedInv, NeverAsked
  <2>. QED  BY <2>1, <2>2 DEF UpInv, AskedInv
<1>12. RoutesInv'
  <2>1. \A i \in 1..Len(down) : \A of, q : SettlesAt(down, replies, i, of, q)
           => i \in 1..Len(down') /\ SettlesAt(down', replies, i, of, q)
    BY <1>8 DEF SettlesAt
  <2>2. outcome = "done" => SettlesAt(down', replies, n, call.of, call.reg)
    BY <1>2, <1>5, <1>8 DEF SettlesAt
  <2>3. RoutesHeard(down, replies, regs, routes)'
    <3>. SUFFICES ASSUME NEW r \in routes'
                  PROVE  \/ regs[r] = "registered"
                         \/ \E i \in 1..Len(down') : SettlesAt(down', replies, i, "register", r)
      BY DEF RoutesHeard
    <3>1. CASE r \in routes
      BY <2>1, <3>1 DEF UpInv, RoutesInv, RoutesHeard
    <3>2. CASE r \notin routes
      <4>1. r = call.reg /\ call.of = "register" /\ outcome = "done"
        BY <1>4, <3>2
      <4>. QED  BY <1>8, <2>2, <4>1
    <3>. QED  BY <3>1, <3>2
  <2>4. HandlersRouted(down, replies, regs, routes)'
    <3>. SUFFICES ASSUME NEW r \in Regs, regs[r] = "registered"
                  PROVE  \/ r \in routes'
                         \/ \E i \in 1..Len(down') : SettlesAt(down', replies, i, "unregister", r)
      BY DEF HandlersRouted
    <3>1. r \in routes \/ \E i \in 1..Len(down) : SettlesAt(down, replies, i, "unregister", r)
      BY DEF UpInv, RoutesInv, HandlersRouted
    <3>2. CASE r \in routes
      <4>1. r \in routes' \/ (r = call.reg /\ call.of = "unregister" /\ outcome = "done")
        <5>1. CASE call.of = "register"
          BY <1>4, <3>2, <5>1
        <5>2. CASE call.of = "unregister" /\ outcome = "done" /\ routes' = routes \ {call.reg}
          BY <3>2, <5>2
        <5>. QED  BY <1>4, <5>1, <5>2
      <4>. QED  BY <1>8, <2>2, <4>1
    <3>3. CASE r \notin routes
      BY <2>1, <3>1, <3>3
    <3>. QED  BY <3>2, <3>3
  <2>5. RepliesTrue(down, replies, routes)'
    <3>. SUFFICES ASSUME NEW p \in replies, NEW i \in 1..Len(down'),
                         ReplyAt(down', i), down'[i].id = p.id
                  PROVE  IF p.of = "register" /\ down'[i].outcome = "done"
                         THEN p.reg \in routes'
                                \/ \E k \in 1..Len(down') : SettlesAt(down', replies, k, "unregister", p.reg)
                         ELSE p.reg \notin routes'
      BY DEF RepliesTrue
    <3>1. CASE i \in 1..Len(down)
      <4>1. ReplyAt(down, i) /\ down'[i] = down[i] /\ p.id < call.id
        BY <1>5, <1>8, <3>1 DEF ReplyAt
      <4>2. IF p.of = "register" /\ down'[i].outcome = "done"
            THEN p.reg \in routes
                   \/ \E k \in 1..Len(down) : SettlesAt(down, replies, k, "unregister", p.reg)
            ELSE p.reg \notin routes
        BY <3>1, <4>1 DEF UpInv, RoutesInv, RepliesTrue
      <4>3. p.reg \in routes => p.reg \in routes' \/ SettlesAt(down', replies, n, "unregister", p.reg)
        BY <1>4, <2>2
      <4>4. p.reg \notin routes => p.reg \notin routes'
        <5>1. call.of = "register" => p.reg # call.reg
          <6>1. ~(call.id <= p.id)
            BY <1>1, <1>3, <4>1 DEF Fields
          <6>. QED  BY <1>5, <6>1
        <5>. QED  BY <1>4, <5>1
      <4>. QED  BY <1>8, <2>1, <4>2, <4>3, <4>4
    <3>2. CASE i = n
      <4>1. p = call /\ down'[i].outcome = outcome
        BY <1>2, <1>5, <1>8, <3>2
      <4>2. IF call.of = "register" /\ outcome = "done"
            THEN call.reg \in routes' ELSE call.reg \notin routes'
        BY <1>4, <1>5
      <4>. QED  BY <4>1, <4>2
    <3>. QED  BY <1>8, <3>1, <3>2
  <2>6. InvokesConfirmed(down, replies, regs)'
    <3>. SUFFICES ASSUME NEW k \in 1..Len(down'), down'[k].type = "invoke"
                  PROVE  \/ regs[down'[k].reg] = "registered"
                         \/ \E i \in 1..Len(down') : i < k
                               /\ SettlesAt(down', replies, i, "register", down'[k].reg)
      BY DEF InvokesConfirmed
    <3>1. k \in 1..Len(down) /\ down'[k] = down[k]
      BY <1>2, <1>8
    <3>2. \/ regs[down[k].reg] = "registered"
          \/ \E i \in 1..Len(down) : i < k /\ SettlesAt(down, replies, i, "register", down[k].reg)
      BY <3>1 DEF UpInv, RoutesInv, InvokesConfirmed
    <3>. QED  BY <2>1, <3>1, <3>2
  <2>7. InvokesKept(down, replies)'
    <3>. SUFFICES ASSUME NEW k \in 1..Len(down'), NEW i \in 1..Len(down'), NEW p \in replies,
                         down'[k].type = "invoke", i < k, ReplyAt(down', i),
                         down'[i].id = p.id, p.reg = down'[k].reg
                  PROVE  p.of = "register" /\ down'[i].outcome = "done"
      BY DEF InvokesKept
    <3>1. k \in 1..Len(down) /\ down'[k] = down[k]
      BY <1>2, <1>8
    <3>2. i \in 1..Len(down)
      BY <1>8, <3>1
    <3>3. down'[i] = down[i] /\ ReplyAt(down, i)
      BY <1>8, <3>2 DEF ReplyAt
    <3>. QED  BY <3>1, <3>2, <3>3 DEF UpInv, RoutesInv, InvokesKept
  <2>. QED  BY <2>3, <2>4, <2>5, <2>6, <2>7 DEF RoutesInv
<1>13. SlotsInv'
  <2>1. SameInvocations(down, down', 0)
    BY <1>2, <1>7, DownMoves
  <2>2. \A j \in 1..Len(up') : up'[j].of = "answer" => \E k \in 1..Len(up) : up[k] = up'[j]
    BY <1>6
  <2>. QED  BY <1>6, <1>8, <2>1, <2>2, SlotsUntouched
<1>. QED  BY <1>9, <1>10, <1>11, <1>12, <1>13 DEF UpInv

\* Nobody waits for a reply any more: to a registration, what comes later is unexpected.
LEMMA TimesOutUp ==
    ASSUME Types, UpInv, NEW p \in replies, ReplyTimesOut(p)
    PROVE  UpInv' /\ link' = link
<1>1. Fields
  BY TypesFields
<1>2. /\ replies' = replies \ {p}
      /\ UNCHANGED <<link, active, up, down, routes, pending, used>>
      /\ regs' = IF p.of = "register" THEN [regs EXCEPT ![p.reg] = Becomes(p.reg, "rejected")]
                                      ELSE regs
  BY DEF ReplyTimesOut, bridgeEnd
<1>3. p.reg \in Regs /\ p.of \in {"register", "unregister"} /\ p.id \in Nat
  BY <1>1 DEF Fields
<1>4. p.of = "register" => regs[p.reg] = "registering"
  BY DEF UpInv, AskedInv, FirstAsked
<1>5. \A r \in Regs : \/ regs'[r] = regs[r]
                      \/ /\ p.of = "register" /\ r = p.reg
                         /\ regs[r] = "registering" /\ regs'[r] = "rejected"
  BY <1>2, <1>3, <1>4 DEF Types, Becomes
<1>6. OrderInv'
  BY <1>2 DEF UpInv, OrderInv
<1>7. WaitingInv'
  <2>1. WaitingIds(up, replies, used.calls)'
    BY <1>2 DEF UpInv, WaitingInv, WaitingIds
  <2>2. Underway(up, down, replies)'
    BY <1>2 DEF UpInv, WaitingInv, Underway
  <2>. QED  BY <2>1, <2>2 DEF WaitingInv
<1>8. AskedInv'
  <2>1. FirstAsked(replies, regs)'
    <3>1. ASSUME NEW q \in replies', q.of = "register" PROVE regs'[q.reg] = "registering"
      <4>1. q \in replies /\ q # p /\ q.reg \in Regs /\ q.id \in Nat
        BY <1>1, <1>2 DEF Fields
      <4>2. ~(p.of = "register" /\ q.reg = p.reg)
        <5>. SUFFICES ASSUME p.of = "register", q.reg = p.reg PROVE FALSE
          OBVIOUS
        <5>1. p.id <= q.id /\ q.id <= p.id
          BY <3>1, <4>1 DEF UpInv, AskedInv, FirstAsked
        <5>2. p.id = q.id
          BY <1>3, <4>1, <5>1
        <5>. QED  BY <4>1, <5>2 DEF UpInv, WaitingInv, WaitingIds
      <4>3. regs[q.reg] = "registering"
        BY <3>1, <4>1 DEF UpInv, AskedInv, FirstAsked
      <4>. QED  BY <1>5, <4>1, <4>2, <4>3
    <3>2. \A q, s \in replies' : q.of = "register" /\ s.reg = q.reg => q.id <= s.id
      BY <1>2 DEF UpInv, AskedInv, FirstAsked
    <3>. QED  BY <3>1, <3>2 DEF FirstAsked
  <2>2. AskedOnce(up, replies, regs, routes)'
    <3>1. \A j \in 1..Len(up) : up[j].of = "register" => up[j].reg \in Regs
      BY <1>1 DEF Fields, Asked
    <3>. QED  BY <1>2, <1>5, <3>1 DEF UpInv, AskedInv, AskedOnce
  <2>3. NeverAsked(replies, regs, routes)'
    BY <1>2, <1>5 DEF UpInv, AskedInv, NeverAsked
  <2>. QED  BY <2>1, <2>2, <2>3 DEF AskedInv
<1>9. RoutesInv'
  <2>1. \A i \in 1..Len(down) : \A of, r :
           SettlesAt(down, replies, i, of, r) => SettlesAt(down, replies', i, of, r)
    BY <1>2 DEF SettlesAt
  <2>2. \A r \in Regs : regs[r] = "registered" <=> regs'[r] = "registered"
    BY <1>5
  <2>3. RoutesHeard(down, replies, regs, routes)'
    BY <1>2, <2>1, <2>2 DEF UpInv, RoutesInv, RoutesHeard, Types
  <2>4. HandlersRouted(down, replies, regs, routes)'
    BY <1>2, <2>1, <2>2 DEF UpInv, RoutesInv, HandlersRouted
  <2>5. RepliesTrue(down, replies, routes)'
    BY <1>2, <2>1 DEF UpInv, RoutesInv, RepliesTrue
  <2>6. InvokesConfirmed(down, replies, regs)'
    <3>1. \A k \in 1..Len(down) : down[k].type = "invoke" => down[k].reg \in Regs
      BY <1>1 DEF Fields
    <3>. QED  BY <1>2, <2>1, <2>2, <3>1 DEF UpInv, RoutesInv, InvokesConfirmed
  <2>7. InvokesKept(down, replies)'
    BY <1>2 DEF UpInv, RoutesInv, InvokesKept
  <2>. QED  BY <2>3, <2>4, <2>5, <2>6, <2>7 DEF RoutesInv
<1>10. SlotsInv'
  BY <1>2 DEF UpInv, SlotsInv
<1>. QED  BY <1>2, <1>6, <1>7, <1>8, <1>9, <1>10 DEF UpInv

\* A reply whose call is waited for settles it, as the bridge has; one that nobody waits
\* for is a refusal or ends the connection.
LEMMA ReplyUp ==
    ASSUME Types, Types', UpInv, Reply
    PROVE  link' = "up" => UpInv'
<1>. SUFFICES ASSUME link' = "up" PROVE UpInv'
  OBVIOUS
<1>. DEFINE m == down[1]
            mine == {p \in replies : p.id = m.id}
<1>1. Fields
  BY TypesFields
<1>2. Shrinks(down, down') /\ m.type = "reply" /\ Head(down) = m
  BY ReceivesCases DEF Reply
<1>3. /\ replies' = replies \ mine /\ UNCHANGED <<active, up, routes, pending, used>>
      /\ IF mine = {} THEN Unmatched(m) /\ UNCHANGED regs
         ELSE \E p \in mine : regs' =
                [regs EXCEPT ![p.reg] =
                   IF p.of = "unregister" THEN "removed"
                   ELSE Becomes(p.reg, IF m.outcome = "done" THEN "registered" ELSE "rejected")]
  BY <1>2 DEF Reply, bridgeEnd
<1>4. 1 \in 1..Len(down) /\ ReplyAt(down, 1) /\ m.id \in Nat /\ m.outcome \in {"done", "refused"}
  <2>1. 1 \in 1..Len(down)
    BY <1>2 DEF Shrinks
  <2>. QED  BY <1>1, <1>2, <2>1 DEF Fields, ReplyAt
<1>5. /\ \A i \in 1..Len(down) : i # 1 /\ ReplyAt(down, i) => m.id < down[i].id
      /\ \A j \in 1..Len(up) : Asked(up[j]) => m.id < up[j].id
  <2>1. \A i \in 1..Len(down) : i # 1 => 1 < i
    BY <1>1 DEF Fields
  <2>. QED  BY <1>4, <2>1 DEF UpInv, OrderInv, DownOrder, CrossOrder
<1>6. mine = {} => m.outcome = "refused"
  BY <1>3, <1>4 DEF Unmatched
<1>7. /\ Len(down') \in Nat /\ Len(down) = Len(down') + 1 /\ Len(up') \in Nat
      /\ \A i \in 1..Len(down') : /\ down'[i] = down[i + 1] /\ i + 1 \in 1..Len(down)
                                  /\ i + 1 # 1
      /\ \A i \in 1..Len(down) : i # 1 => i - 1 \in 1..Len(down') /\ down'[i - 1] = down[i]
  BY <1>1, <1>2, <1>3 DEF Fields, Shrinks
<1>8. \A p \in mine : /\ mine = {p} /\ p \in replies /\ p.id = m.id
                      /\ p.reg \in Regs /\ p.of \in {"register", "unregister"}
  BY <1>1 DEF UpInv, WaitingInv, WaitingIds, Fields
\* What becomes of the registration whose call is settled.
<1>9. /\ \A r \in Regs : (\A p \in mine : p.reg # r) => regs'[r] = regs[r]
      /\ \A p \in mine : p.of = "unregister" => regs'[p.reg] = "removed"
      /\ \A p \in mine : p.of = "register" /\ m.outcome = "done" => regs'[p.reg] = "registered"
      /\ \A p \in mine : p.of = "register" /\ m.outcome = "refused" => regs'[p.reg] = "rejected"
  <2>1. CASE mine = {}
    BY <1>3, <2>1
  <2>2. ASSUME NEW p \in mine, regs' =
                [regs EXCEPT ![p.reg] =
                   IF p.of = "unregister" THEN "removed"
                   ELSE Becomes(p.reg, IF m.outcome = "done" THEN "registered" ELSE "rejected")]
        PROVE  /\ \A r \in Regs : r # p.reg => regs'[r] = regs[r]
               /\ p.of = "unregister" => regs'[p.reg] = "removed"
               /\ p.of = "register" /\ m.outcome = "done" => regs'[p.reg] = "registered"
               /\ p.of = "register" /\ m.outcome = "refused" => regs'[p.reg] = "rejected"
    <3>1. p \in replies /\ p.reg \in Regs /\ regs \in [Regs -> Statuses]
      BY <1>8 DEF Types, Statuses
    <3>2. p.of = "register" => Becomes(p.reg, "registered") = "registered"
                                  /\ Becomes(p.reg, "rejected") = "rejected"
      BY <3>1 DEF UpInv, AskedInv, FirstAsked, Becomes
    <3>. HIDE DEF m, mine
    <3>3. regs'[p.reg] = IF p.of = "unregister" THEN "removed"
                   ELSE Becomes(p.reg, IF m.outcome = "done" THEN "registered" ELSE "rejected")
      BY <2>2, <3>1
    <3>4. \A r \in Regs : r # p.reg => regs'[r] = regs[r]
      BY <2>2, <3>1
    <3>. QED  BY <3>2, <3>3, <3>4
  <2>3. ASSUME NEW p \in mine
        PROVE  mine = {p}
    BY <1>8
  <2>. HIDE DEF m, mine
  <2>. QED  BY <1>3, <2>1, <2>2, <2>3
<1>10. m = down[1] /\ \A p \in replies : p \in mine <=> p.id = m.id
  OBVIOUS
<1>. HIDE DEF m, mine
<1>11. \A q \in replies' : q \in replies /\ q.id # m.id
  BY <1>3, <1>10
<1>12. OrderInv'
  <2>1. \A i, j \in 1..Len(down') : i < j => i + 1 < j + 1
    OBVIOUS
  <2>2. DownOrder(down, used.calls)'
    <3>1. \A i \in 1..Len(down') : ReplyAt(down', i) => down'[i].id \in 1..used.calls
      BY <1>7 DEF UpInv, OrderInv, DownOrder, ReplyAt
    <3>2. \A i, j \in 1..Len(down') : i < j /\ ReplyAt(down', i) /\ ReplyAt(down', j)
                                         => down'[i].id < down'[j].id
      <4>1. \A i \in 1..Len(down') : ReplyAt(down', i) => ReplyAt(down, i + 1)
        BY <1>7 DEF ReplyAt
      <4>. QED  BY <1>7, <2>1, <4>1 DEF UpInv, OrderInv, DownOrder
    <3>. QED  BY <1>3, <3>1, <3>2 DEF DownOrder
  <2>3. CrossOrder(up, down)'
    <3>1. \A i \in 1..Len(down') : ReplyAt(down', i) => ReplyAt(down, i + 1)
      BY <1>7 DEF ReplyAt
    <3>. QED  BY <1>3, <1>7, <3>1 DEF UpInv, OrderInv, CrossOrder
  <2>. QED  BY <1>3, <2>2, <2>3 DEF UpInv, OrderInv
<1>13. WaitingInv'
  <2>1. WaitingIds(up, replies, used.calls)'
    BY <1>3, <1>11 DEF UpInv, WaitingInv, WaitingIds
  <2>2. Underway(up, down, replies)'
    <3>. SUFFICES ASSUME NEW p \in replies'
                  PROVE  \/ \E j \in 1..Len(up) : Asked(up[j]) /\ up[j].id = p.id
                         \/ \E i \in 1..Len(down') : ReplyAt(down', i) /\ down'[i].id = p.id
      BY <1>3 DEF Underway
    <3>1. ASSUME NEW i \in 1..Len(down), ReplyAt(down, i), down[i].id = p.id
          PROVE  \E k \in 1..Len(down') : ReplyAt(down', k) /\ down'[k].id = p.id
      <4>1. i # 1
        BY <1>10, <1>11, <3>1
      <4>. QED  BY <1>7, <3>1, <4>1 DEF ReplyAt
    <3>. QED  BY <1>11, <3>1 DEF UpInv, WaitingInv, Underway
  <2>. QED  BY <2>1, <2>2 DEF WaitingInv
<1>14. AskedInv'
  <2>1. FirstAsked(replies, regs)'
    <3>1. ASSUME NEW q \in replies', q.of = "register" PROVE regs'[q.reg] = "registering"
      <4>1. q \in replies /\ q.id # m.id /\ q.reg \in Regs /\ q.id \in Nat
        BY <1>1, <1>11 DEF Fields
      <4>2. m.id < q.id
        BY <1>4, <1>5, <1>10, <4>1 DEF UpInv, WaitingInv, Underway
      <4>3. \A p \in mine : p.reg # q.reg
        <5>. SUFFICES ASSUME NEW p \in mine, p.reg = q.reg PROVE FALSE
          OBVIOUS
        <5>1. p \in replies /\ p.id = m.id
          BY <1>8
        <5>2. q.id <= m.id
          BY <3>1, <4>1, <5>1 DEF UpInv, AskedInv, FirstAsked
        <5>. QED  BY <1>4, <4>1, <4>2, <5>2
      <4>4. regs[q.reg] = "registering"
        BY <3>1, <4>1 DEF UpInv, AskedInv, FirstAsked
      <4>. QED  BY <1>9, <4>1, <4>3, <4>4
    <3>2. \A q, s \in replies' : q.of = "register" /\ s.reg = q.reg => q.id <= s.id
      BY <1>11 DEF UpInv, AskedInv, FirstAsked
    <3>. QED  BY <3>1, <3>2 DEF FirstAsked
  <2>2. AskedOnce(up, replies, regs, routes)'
    <3>. SUFFICES ASSUME NEW j \in 1..Len(up), up[j].of = "register"
                  PROVE  /\ up[j].reg \notin routes
                         /\ regs'[up[j].reg] \notin {"none", "registered"}
                         /\ \A p \in replies' : p.reg = up[j].reg => up[j].id <= p.id
                         /\ \A k \in 1..Len(up) : k # j /\ up[k].of = "register"
                                                     => up[k].reg # up[j].reg
      BY <1>3 DEF AskedOnce
    <3>1. /\ up[j].reg \notin routes /\ regs[up[j].reg] \notin {"none", "registered"}
          /\ \A p \in replies : p.reg = up[j].reg => up[j].id <= p.id
          /\ \A k \in 1..Len(up) : k # j /\ up[k].of = "register" => up[k].reg # up[j].reg
      BY DEF UpInv, AskedInv, AskedOnce
    <3>2. Asked(up[j]) /\ up[j].reg \in Regs /\ up[j].id \in Nat
      BY <1>1 DEF Fields, Asked
    <3>3. ~(up[j].id <= m.id)
      BY <1>4, <1>5, <3>2
    <3>4. \A p \in mine : p.reg # up[j].reg
      BY <1>8, <3>1, <3>3
    <3>. QED  BY <1>9, <1>11, <3>1, <3>2, <3>4
  <2>3. NeverAsked(replies, regs, routes)'
    <3>1. \A r \in Regs : regs'[r] = "none" => regs[r] = "none"
      <4>. TAKE r \in Regs
      <4>1. CASE \A p \in mine : p.reg # r
        BY <1>9, <4>1
      <4>2. ASSUME NEW p \in mine, p.reg = r PROVE regs'[r] # "none"
        <5>1. p.of \in {"register", "unregister"}
          BY <1>8
        <5>. QED  BY <1>4, <1>9, <4>2, <5>1
      <4>. QED  BY <4>1, <4>2
    <3>. QED  BY <1>3, <1>11, <3>1 DEF UpInv, AskedInv, NeverAsked
  <2>. QED  BY <2>1, <2>2, <2>3 DEF AskedInv
<1>15. RoutesInv'
  \* The reply at the head settles its call, and the others what they did.
  <2>1. \A i \in 1..Len(down) : \A of, r : i # 1 /\ SettlesAt(down, replies, i, of, r)
           => i - 1 \in 1..Len(down') /\ SettlesAt(down', replies', i - 1, of, r)
    BY <1>7, <1>11 DEF SettlesAt
  <2>2. \A of, r : SettlesAt(down, replies, 1, of, r)
           => m.outcome = "done" /\ mine # {} /\ \A p \in mine : p.of = of /\ p.reg = r
    BY <1>6, <1>8, <1>10 DEF SettlesAt
  <2>3. \A i \in 1..Len(down') : ReplyAt(down', i) => ReplyAt(down, i + 1)
    BY <1>7 DEF ReplyAt
  \* What the bridge has done for the call that is settled.
  <2>4. \A p \in mine :
           IF p.of = "register" /\ m.outcome = "done"
           THEN p.reg \in routes \/ \E k \in 1..Len(down) : SettlesAt(down, replies, k, "unregister", p.reg)
           ELSE p.reg \notin routes
    BY <1>4, <1>8, <1>10 DEF UpInv, RoutesInv, RepliesTrue
  <2>5. RoutesHeard(down, replies, regs, routes)'
    <3>. SUFFICES ASSUME NEW r \in routes
                  PROVE  \/ regs'[r] = "registered"
                         \/ \E i \in 1..Len(down') : SettlesAt(down', replies', i, "register", r)
      BY <1>3 DEF RoutesHeard
    <3>1. r \in Regs
      BY DEF Types
    <3>2. ASSUME NEW p \in mine, p.reg = r PROVE regs'[r] = "registered"
      <4>1. p.of = "register" /\ m.outcome = "done"
        BY <2>4, <3>2
      <4>2. mine = {p}
        BY <1>8
      <4>. QED  BY <1>9, <3>1, <3>2, <4>1, <4>2
    <3>3. CASE \A p \in mine : p.reg # r
      <4>1. regs'[r] = regs[r]
        BY <1>9, <3>1, <3>3
      <4>2. ~SettlesAt(down, replies, 1, "register", r)
        BY <2>2, <3>3
      <4>. QED  BY <2>1, <4>1, <4>2 DEF UpInv, RoutesInv, RoutesHeard
    <3>. QED  BY <3>2, <3>3
  <2>6. HandlersRouted(down, replies, regs, routes)'
    <3>. SUFFICES ASSUME NEW r \in Regs, regs'[r] = "registered"
                  PROVE  \/ r \in routes
                         \/ \E i \in 1..Len(down') : SettlesAt(down', replies', i, "unregister", r)
      BY <1>3 DEF HandlersRouted
    <3>1. r \in routes \/ \E i \in 1..Len(down) : SettlesAt(down, replies, i, "unregister", r)
      <4>1. CASE regs'[r] = regs[r]
        BY <4>1 DEF UpInv, RoutesInv, HandlersRouted
      <4>2. CASE regs'[r] # regs[r]
        <5>1. PICK p \in mine : p.reg = r
          BY <1>9, <4>2
        <5>2. p.of = "register" /\ m.outcome = "done"
          BY <1>4, <1>8, <1>9, <5>1
        <5>. QED  BY <2>4, <5>1, <5>2
      <4>. QED  BY <4>1, <4>2
    <3>2. ~SettlesAt(down, replies, 1, "unregister", r)
      <4>. SUFFICES ASSUME SettlesAt(down, replies, 1, "unregister", r) PROVE FALSE
        OBVIOUS
      <4>1. PICK p \in mine : p.of = "unregister" /\ p.reg = r
        BY <2>2
      <4>2. mine = {p}
        BY <1>8
      <4>. QED  BY <1>9, <4>1, <4>2
    <3>. QED  BY <2>1, <3>1, <3>2
  <2>7. RepliesTrue(down, replies, routes)'
    <3>. SUFFICES ASSUME NEW q \in replies', NEW i \in 1..Len(down'),
                         ReplyAt(down', i), down'[i].id = q.id
                  PROVE  IF q.of = "register" /\ down'[i].outcome = "done"
                         THEN q.reg \in routes
                                \/ \E k \in 1..Len(down') : SettlesAt(down', replies', k, "unregister", q.reg)
                         ELSE q.reg \notin routes
      BY <1>3 DEF RepliesTrue
    <3>1. i + 1 \in 1..Len(down) /\ i + 1 # 1 /\ ReplyAt(down, i + 1) /\ down'[i] = down[i + 1]
      BY <1>7, <2>3
    <3>2. IF q.of = "register" /\ down'[i].outcome = "done"
          THEN q.reg \in routes
                 \/ \E k \in 1..Len(down) : SettlesAt(down, replies, k, "unregister", q.reg)
          ELSE q.reg \notin routes
      BY <1>11, <3>1 DEF UpInv, RoutesInv, RepliesTrue
    <3>3. q.of = "register" => ~SettlesAt(down, replies, 1, "unregister", q.reg)
      <4>. SUFFICES ASSUME q.of = "register", SettlesAt(down, replies, 1, "unregister", q.reg)
                    PROVE  FALSE
        OBVIOUS
      <4>1. PICK p \in mine : p.reg = q.reg
        BY <2>2
      <4>2. p \in replies /\ p.id = m.id /\ q \in replies
        BY <1>8, <1>11, <4>1
      <4>3. q.id <= m.id
        BY <4>1, <4>2 DEF UpInv, AskedInv, FirstAsked
      <4>4. m.id < q.id /\ q.id \in Nat
        BY <1>1, <1>5, <1>11, <3>1 DEF Fields
      <4>. QED  BY <1>4, <4>3, <4>4
    <3>. QED  BY <2>1, <3>2, <3>3
  <2>8. InvokesConfirmed(down, replies, regs)'
    <3>. SUFFICES ASSUME NEW k \in 1..Len(down'), down'[k].type = "invoke"
                  PROVE  \/ regs'[down'[k].reg] = "registered"
                         \/ \E i \in 1..Len(down') : i < k
                               /\ SettlesAt(down', replies', i, "register", down'[k].reg)
      BY DEF InvokesConfirmed
    <3>. DEFINE r == down'[k].reg
    <3>1. k + 1 \in 1..Len(down) /\ down'[k] = down[k + 1] /\ 1 < k + 1
      BY <1>7
    <3>2. r \in Regs
      BY <1>1, <3>1 DEF Fields
    <3>3. \/ regs[r] = "registered"
          \/ \E i \in 1..Len(down) : i < k + 1 /\ SettlesAt(down, replies, i, "register", r)
      BY <3>1 DEF UpInv, RoutesInv, InvokesConfirmed
    <3>4. \A p \in mine : p.reg = r => p.of = "register" /\ m.outcome = "done"
      BY <1>4, <1>8, <1>10, <3>1 DEF UpInv, RoutesInv, InvokesKept
    <3>5. (\E p \in mine : p.reg = r) => regs'[r] = "registered"
      <4>. SUFFICES ASSUME NEW p \in mine, p.reg = r PROVE regs'[r] = "registered"
        OBVIOUS
      <4>1. mine = {p} /\ p.of = "register" /\ m.outcome = "done"
        BY <1>8, <3>4
      <4>. QED  BY <1>9, <3>2, <4>1
    <3>6. CASE \E p \in mine : p.reg = r
      BY <3>5, <3>6
    <3>7. CASE \A p \in mine : p.reg # r
      <4>1. regs'[r] = regs[r]
        BY <1>9, <3>2, <3>7
      <4>2. ~SettlesAt(down, replies, 1, "register", r)
        BY <2>2, <3>7
      <4>3. \A i \in 1..Len(down) : i < k + 1 => i - 1 < k
        BY <1>7
      <4>. QED  BY <2>1, <3>3, <4>1, <4>2, <4>3
    <3>. QED  BY <3>6, <3>7
  <2>9. InvokesKept(down, replies)'
    <3>. SUFFICES ASSUME NEW k \in 1..Len(down'), NEW i \in 1..Len(down'), NEW p \in replies',
                         down'[k].type = "invoke", i < k, ReplyAt(down', i),
                         down'[i].id = p.id, p.reg = down'[k].reg
                  PROVE  p.of = "register" /\ down'[i].outcome = "done"
      BY DEF InvokesKept
    <3>1. k + 1 \in 1..Len(down) /\ down'[k] = down[k + 1]
      BY <1>7
    <3>2. i + 1 \in 1..Len(down) /\ down'[i] = down[i + 1] /\ ReplyAt(down, i + 1)
      BY <1>7, <2>3
    <3>3. i + 1 < k + 1
      OBVIOUS
    <3>. QED  BY <1>11, <3>1, <3>2, <3>3 DEF UpInv, RoutesInv, InvokesKept
  <2>. QED  BY <2>5, <2>6, <2>7, <2>8, <2>9 DEF RoutesInv
<1>16. SlotsInv'
  <2>1. SameInvocations(down, down', 1)
    BY <1>2, DownMoves
  <2>2. down[1].type = "reply"
    BY <1>2, <1>10
  <2>. QED  BY <1>3, <1>7, <2>1, <2>2, SlotsUntouched
<1>. QED  BY <1>12, <1>13, <1>14, <1>15, <1>16 DEF UpInv

-----------------------------------------------------------------------------
(* The connection.                                                          *)

\* A connection begins with what is known, each asked for once.
LEMMA OpensUp ==
    ASSUME Types, DownInv, ~ListenerRegisters,
           NEW negotiated \in SUBSET Regs, NEW added \in SUBSET Regs, LinkOpens(negotiated, added)
    PROVE  UpInv'
<1>1. /\ UNCHANGED <<active, down, routes, pending>>
      /\ used' = [used EXCEPT !.connections = @ + 1, !.calls = @ + Len(up')]
  BY LinkOpensCases
<1>2. PICK sent \in Seq(Regs) :
        /\ Registers(sent, Known)
        /\ \A i, j \in 1..Len(sent) : sent[i] = sent[j] => i = j
        /\ \A i \in 1..Len(sent) : sent[i] \in Known
  BY LinkOpensCases
<1>. DEFINE call(i) == [id |-> used.calls + i, of |-> "register", reg |-> sent[i]]
            n == Len(sent)
<1>3. /\ n \in Nat /\ Len(up') = Len(up) + n
      /\ up = <<>> => \A i \in 1..n : up'[i] = call(i)
      /\ replies' = replies \cup {call(i) : i \in 1..n}
      /\ regs' = [r \in Regs |->
                 IF \E i \in 1..Len(sent) : r = sent[i] THEN "registering"
                 ELSE IF r \in Known THEN "rejected" ELSE regs[r]]
  BY <1>2, RegistersMessages
<1>4. /\ up = <<>> /\ down' = <<>> /\ replies = {} /\ active' = {} /\ routes' = {} /\ pending' = {}
      /\ \A r \in Regs : regs[r] \notin {"registering", "registered"}
  BY <1>1 DEF DownInv
<1>5. used.calls \in Nat
  BY DEF Types
<1>6. \A i \in 1..n : call(i).id = used.calls + i /\ call(i).of = "register" /\ call(i).reg = sent[i]
  OBVIOUS
<1>7. \A i \in 1..n : sent[i] \in Regs
  OBVIOUS
<1>8. used'.calls = used.calls + n
  <2>1. Len(up') = n
    BY <1>3, <1>4
  <2>. QED  BY <1>1, <2>1 DEF Types
<1>. HIDE DEF call
<1>9. Len(up') = n /\ replies' = {call(i) : i \in 1..n} /\ \A i \in 1..n : up'[i] = call(i)
  BY <1>3, <1>4
<1>. HIDE DEF n
<1>10. /\ \A i \in 1..n : Asked(up'[i]) /\ up'[i].id = used.calls + i
                            /\ up'[i].of = "register" /\ up'[i].reg = sent[i]
       /\ \A p \in replies' : \E i \in 1..n : p = up'[i]
  BY <1>6, <1>9 DEF Asked
<1>11. Len(down') = 0 /\ \A i \in 1..Len(down') : FALSE
  BY <1>4
<1>12. OrderInv'
  <2>1. \A i \in 1..n : used.calls + i \in 1..used'.calls
    BY <1>3, <1>5, <1>8
  <2>2. \A i, j \in 1..n : i < j => used.calls + i < used.calls + j
    BY <1>5
  <2>3. UpOrder(up, used.calls)'
    BY <1>9, <1>10, <2>1, <2>2 DEF UpOrder
  <2>4. DownOrder(down, used.calls)' /\ CrossOrder(up, down)'
    BY <1>11 DEF DownOrder, CrossOrder
  <2>. QED  BY <2>3, <2>4 DEF OrderInv
<1>13. \A i, j \in 1..n : up'[i].id = up'[j].id \/ up'[i].reg = up'[j].reg => i = j
  <2>1. \A i, j \in 1..n : used.calls + i = used.calls + j => i = j
    BY <1>5
  <2>2. \A i, j \in 1..n : sent[i] = sent[j] => i = j
    BY <1>2 DEF n
  <2>. QED  BY <1>10, <2>1, <2>2
<1>14. WaitingInv'
  <2>1. \A i \in 1..n : used.calls + i \in 1..used'.calls
    BY <1>3, <1>5, <1>8
  <2>2. WaitingIds(up, replies, used.calls)'
    BY <1>9, <1>10, <1>13, <2>1 DEF WaitingIds
  <2>3. Underway(up, down, replies)'
    BY <1>9, <1>10 DEF Underway
  <2>. QED  BY <2>2, <2>3 DEF WaitingInv
<1>15. /\ \A i \in 1..n : regs'[sent[i]] = "registering"
       /\ \A r \in Regs : regs'[r] # "registered"
       /\ \A r \in Regs : regs'[r] = "none" => \A i \in 1..n : r # sent[i]
  BY <1>3, <1>4, <1>7 DEF n
<1>16. AskedInv'
  <2>1. FirstAsked(replies, regs)'
    <3>1. \A p \in replies' : regs'[p.reg] = "registering"
      BY <1>10, <1>15
    <3>2. \A p, q \in replies' : q.reg = p.reg => p.id <= q.id
      <4>1. \A p, q \in replies' : q.reg = p.reg => q = p
        BY <1>10, <1>13
      <4>2. \A p \in replies' : p.id <= p.id
        <5>1. \A i \in 1..n : used.calls + i <= used.calls + i
          BY <1>5
        <5>. QED  BY <1>10, <5>1
      <4>. QED  BY <4>1, <4>2
    <3>. QED  BY <3>1, <3>2 DEF FirstAsked
  <2>2. AskedOnce(up, replies, regs, routes)'
    <3>. SUFFICES ASSUME NEW j \in 1..n
                  PROVE  /\ up'[j].reg \notin routes'
                         /\ regs'[up'[j].reg] \notin {"none", "registered"}
                         /\ \A p \in replies' : p.reg = up'[j].reg => up'[j].id <= p.id
                         /\ \A k \in 1..n : k # j => up'[k].reg # up'[j].reg
      BY <1>9 DEF AskedOnce
    <3>1. up'[j].reg \notin routes' /\ regs'[up'[j].reg] \notin {"none", "registered"}
      BY <1>4, <1>10, <1>15
    <3>2. \A p \in replies' : p.reg = up'[j].reg => up'[j].id <= p.id
      <4>1. \A p \in replies' : p.reg = up'[j].reg => p = up'[j]
        BY <1>10, <1>13
      <4>2. up'[j].id <= up'[j].id
        BY <1>5, <1>10
      <4>. QED  BY <4>1, <4>2
    <3>. QED  BY <1>13, <3>1, <3>2
  <2>3. NeverAsked(replies, regs, routes)'
    BY <1>4, <1>10, <1>15 DEF NeverAsked
  <2>. QED  BY <2>1, <2>2, <2>3 DEF AskedInv
<1>17. RoutesInv'
  <2>1. RoutesHeard(down, replies, regs, routes)'
    BY <1>4 DEF RoutesHeard
  <2>2. HandlersRouted(down, replies, regs, routes)'
    BY <1>15 DEF HandlersRouted
  <2>3. RepliesTrue(down, replies, routes)'
    BY <1>11 DEF RepliesTrue
  <2>4. InvokesConfirmed(down, replies, regs)' /\ InvokesKept(down, replies)'
    BY <1>11 DEF InvokesConfirmed, InvokesKept
  <2>. QED  BY <2>1, <2>2, <2>3, <2>4 DEF RoutesInv
<1>18. SlotsInv'
  <2>1. Numbers(up, down, active, pending, used.invocations)'
    BY <1>4, <1>9, <1>10, <1>11 DEF Numbers
  <2>2. InvokesNewest(up, down, active)' /\ InvokesCounted(down, pending)'
    BY <1>11 DEF InvokesNewest, InvokesCounted
  <2>3. BusyCounted(down, active, pending)'
    BY <1>4 DEF BusyCounted
  <2>. QED  BY <2>1, <2>2, <2>3 DEF SlotsInv
<1>. QED  BY <1>12, <1>14, <1>16, <1>17, <1>18 DEF UpInv

\* A connection that has closed leaves nothing on its way.
LEMMA ClosesDown ==
    ASSUME Types, LinkCloses
    PROVE  link' = "down" /\ DownInv'
<1>1. /\ link' = "down" /\ regs' = [r \in Regs |-> Lost(r)]
      /\ replies' = {} /\ active' = {} /\ up' = <<>> /\ down' = <<>>
      /\ routes' = {} /\ pending' = {}
  BY DEF LinkCloses
<1>2. \A r \in Regs : Lost(r) \notin {"registering", "registered"}
  BY DEF Lost, Becomes
<1>. QED  BY <1>1, <1>2 DEF DownInv

LEMMA DownStep ==
    ASSUME Types, DownInv, link = "down", TalkNext, ~ListenerRegisters
    PROVE  (link' = "up" => UpInv') /\ (link' = "down" => DownInv')
<1>1. ~Reply /\ ~Invoke /\ ~Cancel /\ ~Closing /\ ~LinkCloses
  BY DEF Reply, Invoke, Cancel, Receives, Closing, LinkCloses
<1>2. \A i \in Invocations : ~Ends(i) /\ ~BridgeGivesUp(i)
  BY DEF DownInv, Ends, BridgeGivesUp
<1>3. /\ \A refuses \in BOOLEAN : ~BridgeHandles(refuses)
      /\ \A r \in Regs : ~BridgeInvokes(r)
      /\ replies = {}
  BY DEF DownInv, BridgeHandles, BridgeInvokes
<1>4. ASSUME NEW r \in Regs, AddRegistration(r) PROVE link' = "down" /\ DownInv'
  <2>1. /\ UNCHANGED <<link, active, up, down, replies, routes, pending>>
        /\ \/ regs' = [regs EXCEPT ![r] = "rejected"]
           \/ regs' = [regs EXCEPT ![r] = "pending"]
    BY <1>4, AddRegistrationCases
  <2>2. \A q \in Regs : regs'[q] \notin {"registering", "registered"}
    BY <2>1 DEF DownInv, Types
  <2>. QED  BY <2>1, <2>2 DEF DownInv
<1>5. ASSUME NEW r \in Regs, Unregister(r) PROVE link' = "down" /\ DownInv'
  <2>1. /\ UNCHANGED <<link, active, up, down, replies, routes, pending>>
        /\ \/ regs' = regs
           \/ regs' = [regs EXCEPT ![r] = "removed"]
    BY <1>5, UnregisterCases
  <2>2. \A q \in Regs : regs'[q] \notin {"registering", "registered"}
    BY <2>1 DEF DownInv, Types
  <2>. QED  BY <2>1, <2>2 DEF DownInv
<1>6. ASSUME NEW negotiated \in SUBSET Regs, NEW added \in SUBSET Regs, LinkOpens(negotiated, added)
      PROVE  link' = "up" /\ UpInv'
  BY <1>6, LinkOpensCases, OpensUp
<1>. QED  BY <1>1, <1>2, <1>3, <1>4, <1>5, <1>6
          DEF TalkNext, Registering, HandlerEnds, TalkTimers, InvocationTimer, Bridge

LEMMA UpStep ==
    ASSUME Types, Types', UpInv, link = "up", TalkNext
    PROVE  (link' = "up" => UpInv') /\ (link' = "down" => DownInv')
<1>1. ASSUME NEW r \in Regs, AddRegistration(r) PROVE link' = "up" /\ UpInv'
  <2>1. /\ regs[r] = "none" /\ used'.invocations = used.invocations
        /\ UNCHANGED <<link, active, down, routes, pending>>
    BY <1>1, AddRegistrationCases
  <2>2. CASE UNCHANGED <<up, replies>>
    <3>1. \E status \in {"rejected", "pending", "removed"} : regs' = [regs EXCEPT ![r] = status]
      <4>1. \A call \in CallMessages : up' # Append(up, call)
        BY <2>2, AppendGrows DEF Types, Grows
      <4>. QED  BY <1>1, <4>1, AddRegistrationCases
    <3>2. used'.calls = used.calls
      <4>1. \A call \in CallMessages : up' # Append(up, call)
        BY <2>2, AppendGrows DEF Types, Grows
      <4>. QED  BY <1>1, <4>1, AddRegistrationCases
    <3>. QED  BY <2>1, <2>2, <3>1, <3>2, StatusSet
  <2>3. CASE ~UNCHANGED <<up, replies>>
    <3>1. PICK call \in CallMessages :
             /\ call.id = used.calls + 1 /\ call.of = "register" /\ call.reg = r
             /\ up' = Append(up, call) /\ replies' = replies \cup {call}
             /\ regs' = [regs EXCEPT ![r] = "registering"]
             /\ used'.calls = used.calls + 1
      BY <1>1, <2>3, AddRegistrationCases
    <3>. QED  BY <2>1, <3>1, CallSent
  <2>. QED  BY <2>2, <2>3
<1>2. ASSUME NEW r \in Regs, Unregister(r) PROVE link' = "up" /\ UpInv'
  <2>1. /\ used'.invocations = used.invocations
        /\ UNCHANGED <<link, active, down, routes, pending>>
    BY <1>2, UnregisterCases
  <2>2. CASE UNCHANGED <<up, replies>>
    <3>1. \A call \in CallMessages : up' # Append(up, call)
      BY <2>2, AppendGrows DEF Types, Grows
    <3>2. /\ used'.calls = used.calls
          /\ regs[r] \notin {"registered", "registering"}
          /\ regs' = regs \/ regs' = [regs EXCEPT ![r] = "removed"]
      BY <1>2, <3>1, UnregisterCases
    <3>3. CASE regs' = [regs EXCEPT ![r] = "removed"]
      BY <2>1, <2>2, <3>2, <3>3, StatusSet
    <3>4. CASE regs' = regs
      BY <2>1, <2>2, <3>2, <3>4
         DEF UpInv, OrderInv, WaitingInv, AskedInv, RoutesInv, SlotsInv
    <3>. QED  BY <3>2, <3>3, <3>4
  <2>3. CASE ~UNCHANGED <<up, replies>>
    <3>1. PICK call \in CallMessages :
             /\ call.id = used.calls + 1 /\ call.of = "unregister" /\ call.reg = r
             /\ up' = Append(up, call) /\ replies' = replies \cup {call}
             /\ regs' = regs /\ regs[r] \in {"registered", "registering"}
             /\ used'.calls = used.calls + 1
      BY <1>2, <2>3, UnregisterCases
    <3>. QED  BY <2>1, <3>1, CallSent
  <2>. QED  BY <2>2, <2>3
<1>3. CASE Reply
  <2>1. link' # "down"
    BY <1>3 DEF Reply, Unmatched
  <2>. QED  BY <1>3, <2>1, ReplyUp
<1>4. CASE Invoke
  BY <1>4, InvokeUp
<1>5. CASE Cancel
  BY <1>5, CancelUp
<1>6. ASSUME NEW i \in Invocations, Ends(i) PROVE link' = "up" /\ UpInv'
  BY <1>6, EndsUp
<1>7. ASSUME NEW p \in replies, ReplyTimesOut(p) PROVE link' = "up" /\ UpInv'
  BY <1>7, TimesOutUp
<1>8. \A negotiated, added \in SUBSET Regs : ~LinkOpens(negotiated, added)
  BY DEF LinkOpens
<1>9. CASE Closing
  BY <1>9 DEF Closing
<1>10. CASE LinkCloses
  BY <1>10, ClosesDown
<1>11. ASSUME NEW refuses \in BOOLEAN, BridgeHandles(refuses) PROVE link' = "up" /\ UpInv'
  <2>1. /\ Shrinks(up, up') /\ up' \in Seq(UpMessages)
        /\ UNCHANGED <<link, regs, replies, active, used>>
    BY <1>11, BridgeHandlesCases
  <2>2. CASE up[1].of = "answer"
    <3>1. down' = down /\ routes' = routes /\ pending' = pending \ {up[1].inv}
      BY <1>11, <2>2, BridgeHandlesCases
    <3>. QED  BY <2>1, <2>2, <3>1, BridgeHearsAnswer
  <2>3. CASE up[1].of # "answer"
    <3>1. PICK outcome \in {"done", "refused"} :
             /\ down' = Append(down, Done(up[1].id, outcome)) /\ pending' = pending
             /\ \/ up[1].of = "register" /\ outcome = "refused" /\ routes' = routes
                \/ up[1].of = "register" /\ outcome = "done" /\ routes' = routes \cup {up[1].reg}
                \/ up[1].of = "unregister" /\ outcome = "done" /\ routes' = routes \ {up[1].reg}
      BY <1>11, <2>3, BridgeHandlesCases
    <3>2. Asked(up[1])
      BY <2>3 DEF Asked
    <3>. QED  BY <2>1, <3>1, <3>2, BridgeRepliesUp
  <2>. QED  BY <2>2, <2>3
<1>12. ASSUME NEW r \in Regs, BridgeInvokes(r) PROVE link' = "up" /\ UpInv'
  BY <1>12, BridgeInvokesUp
<1>13. ASSUME NEW i \in Invocations, BridgeGivesUp(i) PROVE link' = "up" /\ UpInv'
  BY <1>13, GivesUpUp
<1>. QED  BY <1>1, <1>2, <1>3, <1>4, <1>5, <1>6, <1>7, <1>8, <1>9, <1>10, <1>11, <1>12, <1>13
          DEF TalkNext, Registering, HandlerEnds, TalkTimers, InvocationTimer, Bridge

\* A connection that ends or has failed is not up again before it has closed.
LEMMA EndingStep ==
    ASSUME Types, link \in {"closing", "failed"}, TalkNext
    PROVE  link' # "up" /\ (link' = "down" => DownInv')
<1>1. ASSUME NEW r \in Regs, Registering(r) PROVE link' = link
  BY <1>1 DEF Registering, AddRegistration, Unregister
<1>2. ~Reply /\ ~Invoke /\ ~Cancel /\ ~Closing
  BY DEF Reply, Invoke, Cancel, Receives, Closing
<1>3. ASSUME NEW i \in Invocations, Ends(i) PROVE link' = link
  BY <1>3 DEF Ends
<1>4. ASSUME NEW p \in replies, ReplyTimesOut(p) PROVE link' = link
  BY <1>4 DEF ReplyTimesOut
<1>5. \A negotiated, added \in SUBSET Regs : ~LinkOpens(negotiated, added)
  BY DEF LinkOpens
<1>6. CASE LinkCloses
  BY <1>6, ClosesDown
<1>7. ASSUME Bridge PROVE link' = link
  BY <1>7 DEF Bridge, BridgeHandles, BridgeInvokes, BridgeGivesUp
<1>. QED  BY <1>1, <1>2, <1>3, <1>4, <1>5, <1>6, <1>7
          DEF TalkNext, HandlerEnds, TalkTimers, InvocationTimer

LEMMA TalkInvariance ==
    ASSUME ~ListenerRegisters
    PROVE  TalkSpec => []TalkInv
<1>1. TalkInit => TalkInv
  <2>. SUFFICES ASSUME TalkInit PROVE TalkInv
    OBVIOUS
  <2>1. link = "down" /\ DownInv
    BY DEF TalkInit, DownInv
  <2>. QED  BY <2>1, InitTypes DEF TalkInv
<1>2. TalkInv /\ [TalkNext]_talkVars => TalkInv'
  <2>. SUFFICES ASSUME TalkInv, [TalkNext]_talkVars PROVE TalkInv'
    OBVIOUS
  <2>1. CASE TalkNext
    <3>1. Types /\ Types'
      BY <2>1, TypesNext DEF TalkInv
    <3>2. CASE link = "down"
      BY <2>1, <3>1, <3>2, DownStep DEF TalkInv
    <3>3. CASE link = "up"
      BY <2>1, <3>1, <3>3, UpStep DEF TalkInv
    <3>4. CASE link \in {"closing", "failed"}
      BY <2>1, <3>1, <3>4, EndingStep DEF TalkInv
    <3>. QED  BY <3>1, <3>2, <3>3, <3>4 DEF Types
  <2>2. CASE UNCHANGED talkVars
    BY <2>2 DEF talkVars, clientEnd, bridgeEnd, TalkInv, Types, UpInv, DownInv, OrderInv,
                WaitingInv, AskedInv, RoutesInv, SlotsInv
  <2>. QED  BY <2>1, <2>2
<1>. QED  BY <1>1, <1>2, PTL DEF TalkSpec

-----------------------------------------------------------------------------
(* Theorems.                                                                *)

\* Once all has been said, the bridge routes to exactly the registrations whose handlers the
\* client offers, whatever replies came late, were refused or crossed an unregistration.
THEOREM RoutesAreHandlers ==
    ASSUME ~ListenerRegisters
    PROVE  TalkSpec => []RegistrationsAgree
<1>1. TalkInv => RegistrationsAgree
  <2>. SUFFICES ASSUME Types, UpInv, up = <<>>, down = <<>>, replies = {}
                PROVE  {r \in Regs : regs[r] = "registered"} = routes
    BY DEF TalkInv, RegistrationsAgree
  <2>1. \A i \in 1..Len(down) : FALSE
    OBVIOUS
  <2>2. \A r \in routes : r \in Regs /\ regs[r] = "registered"
    BY <2>1 DEF UpInv, RoutesInv, RoutesHeard, Types
  <2>3. \A r \in Regs : regs[r] = "registered" => r \in routes
    BY <2>1 DEF UpInv, RoutesInv, HandlersRouted
  <2>. QED  BY <2>2, <2>3
<1>. QED  BY <1>1, TalkInvariance, PTL

\* An invocation that reaches the client finds its handler and a slot, whatever timeouts,
\* cancellations and answers crossed it: what the bridge counts as free the client has freed.
THEOREM EveryInvocationFits ==
    ASSUME ~ListenerRegisters
    PROVE  TalkSpec => []InvocationsAccepted
<1>1. TalkInv => InvocationsAccepted
  BY HeadAccepted DEF TalkInv, InvocationsAccepted
<1>. QED  BY <1>1, TalkInvariance, PTL
=============================================================================
