------------------------- MODULE WebConnectionProofs -------------------------
(***************************************************************************)
(* Proofs about WebConnection for any number of attempts, for an           *)
(* application that lets a socket close before it connects again (~Eager). *)
(*                                                                         *)
(* No two attempts are in progress because whoever begins one knows that   *)
(* the former is over: connect because #connectPromise names it, the timer *)
(* because it is set only when an attempt ends, and reconnect because it   *)
(* has aborted the attempt it found and has waited for it, while manual    *)
(* kept every close event from scheduling another.                         *)
(***************************************************************************)
EXTENDS WebConnection, FiniteSetTheorems, TLAPS

Outcomes == {"none", "pending", "ok", "retryable", "final"}
States == {"idle", "connecting", "reconnecting", "awaiting-approval", "connected",
           "disconnecting", "disconnected", "error"}
\* The fields of the object.
Fields ==
    [state : States, socket : Nat, connecting : Nat, abort : Nat, handshake : Nat,
     connectId : Nat, connectTimer : Nat, approval : BOOLEAN, timer : BOOLEAN,
     tries : Nat, manual : BOOLEAN, suppress : BOOLEAN, session : Nat,
     hs : [Attempts -> Outcomes]]


Phases == {"unused", "prepare", "auth", "load", "clear", "token", "handshake", "ended"}
Before == {"prepare", "auth", "load", "clear", "token"}
Attempt ==
    [pc : Phases, auto : BOOLEAN, fresh : BOOLEAN, aborted : BOOLEAN,
     auth : {"none", "resume", "pairing", "approval"}]
Activity ==
    [pc : {"idle", "waiting", "entered", "closing", "clearing", "attempt", "connecting"},
     sock : Nat, active : Nat, waited : BOOLEAN, preserve : BOOLEAN]
Operations ==
    [op : {"load", "save", "clear"}, a : Nat, handshake : Nat,
     for : {"attempt", "welcome", "refusal", "leave", "disconnect", "cleanup"}]

SocketStates == {"none", "connecting", "open", "closing", "closed"}
Live == {"connecting", "open"}

\* s is r with what waits for a handshake perhaps told of its end.
Follows(r, s) ==
    /\ s.socket = r.socket /\ s.connecting = r.connecting /\ s.abort = r.abort
    /\ s.handshake = r.handshake /\ s.timer = r.timer /\ s.manual = r.manual
    /\ \A b \in Attempts : s.hs[b] = "pending" => r.hs[b] = "pending"

-----------------------------------------------------------------------------
(* The synchronous parts. *)

LEMMA FollowsTrans ==
    ASSUME NEW r, NEW s, NEW t, Follows(r, s), Follows(s, t) PROVE Follows(r, t)
  BY DEF Follows

LEMMA RejectedFacts ==
    ASSUME NEW r \in Fields, NEW o \in Outcomes \ {"pending"}
    PROVE  LET s == Rejected(r, o)
           IN  /\ s \in Fields /\ Follows(r, s)
               /\ s.session = r.session /\ s.state = r.state
               /\ r.handshake \in Attempts => s.hs[r.handshake] # "pending"
<1>1. CASE r.handshake # None /\ r.hs[r.handshake] = "pending"
  <2> DEFINE s == [r EXCEPT !.hs[r.handshake] = o]
  <2>1. /\ s.hs = [r.hs EXCEPT ![r.handshake] = o]
        /\ s.socket = r.socket /\ s.connecting = r.connecting /\ s.abort = r.abort
        /\ s.handshake = r.handshake /\ s.timer = r.timer /\ s.manual = r.manual
        /\ s.session = r.session /\ s.state = r.state
    BY Zenon DEF Fields
  <2>2. r.hs \in [Attempts -> Outcomes]
    BY DEF Fields
  <2>4. s = [r EXCEPT !.hs = [r.hs EXCEPT ![r.handshake] = o]]
    BY Zenon
  <2>. HIDE DEF s
  <2>3. /\ s.hs \in [Attempts -> Outcomes]
        /\ \A b \in Attempts : s.hs[b] = IF b = r.handshake THEN o ELSE r.hs[b]
    BY <2>1, <2>2
  <2>5. s \in Fields
    BY <2>1, <2>2, <2>3, <2>4 DEF Fields
  <2>. QED  BY <1>1, <2>1, <2>3, <2>5 DEF Rejected, Follows, s
<1>2. CASE ~(r.handshake # None /\ r.hs[r.handshake] = "pending")
  BY <1>2 DEF Rejected, Follows, Attempts, None
<1>. QED  BY <1>1, <1>2

LEMMA FailedFacts ==
    ASSUME NEW r \in Fields, NEW o \in Outcomes \ {"pending"}
    PROVE  LET s == Failed(r, o)
           IN  /\ s \in Fields /\ Follows(r, s)
               /\ s.session = r.session /\ s.state = "error"
               /\ r.handshake \in Attempts => s.hs[r.handshake] # "pending"
<1> DEFINE q == Rejected(r, o)
<1>1. /\ q \in Fields /\ Follows(r, q) /\ q.session = r.session
      /\ r.handshake \in Attempts => q.hs[r.handshake] # "pending"
  BY RejectedFacts
<1>. HIDE DEF q
<1>2. LET s == [q EXCEPT !.approval = FALSE, !.state = "error"]
      IN  /\ s \in Fields /\ Follows(q, s) /\ s.session = q.session /\ s.state = "error"
          /\ s.hs = q.hs
  BY <1>1 DEF Fields, Follows, States
<1>. QED  BY <1>1, <1>2, FollowsTrans DEF Failed, q

LEMMA FailedForGoodFacts ==
    ASSUME NEW r \in Fields
    PROVE  LET s == FailedForGood(r)
           IN  /\ s \in Fields /\ Follows(r, s)
               /\ s.session = r.session /\ s.state = "error"
<1> DEFINE q == Failed(r, "final")
<1>1. q \in Fields /\ Follows(r, q) /\ q.session = r.session /\ q.state = "error"
  BY FailedFacts DEF Outcomes
<1>. HIDE DEF q
<1>2. LET s == [q EXCEPT !.suppress = TRUE]
      IN  s \in Fields /\ Follows(q, s) /\ s.session = q.session /\ s.state = q.state
  BY <1>1 DEF Fields, Follows
<1>. QED  BY <1>1, <1>2, FollowsTrans DEF FailedForGood, q

LEMMA ClearSessionFacts ==
    ASSUME NEW r \in Fields
    PROVE  LET s == ClearSession(r)
           IN  /\ s \in Fields /\ Follows(r, s) /\ s.hs = r.hs
               /\ s.session = None /\ s.state = r.state
  BY DEF Fields, Follows, ClearSession, None

LEMMA CancelFacts ==
    ASSUME NEW r \in Fields
    PROVE  LET s == CancelReconnect(r)
           IN  /\ s \in Fields /\ ~s.timer
               /\ s.socket = r.socket /\ s.connecting = r.connecting /\ s.abort = r.abort
               /\ s.handshake = r.handshake /\ s.manual = r.manual
               /\ s.session = r.session /\ s.state = r.state /\ s.hs = r.hs
  BY DEF Fields, CancelReconnect

LEMMA ScheduledFacts ==
    ASSUME NEW r \in Fields
    PROVE  LET s == Scheduled(r)
           IN  /\ s \in Fields
               /\ s.socket = r.socket /\ s.connecting = r.connecting /\ s.abort = r.abort
               /\ s.handshake = r.handshake /\ s.manual = r.manual
               /\ s.session = r.session /\ s.hs = r.hs
               /\ s.state \in {r.state, "reconnecting"}
<1> DEFINE s == [r EXCEPT !.timer = TRUE, !.tries = @ + 1, !.state = "reconnecting"]
<1>1. /\ s \in Fields
      /\ s.socket = r.socket /\ s.connecting = r.connecting /\ s.abort = r.abort
      /\ s.handshake = r.handshake /\ s.manual = r.manual
      /\ s.session = r.session /\ s.hs = r.hs /\ s.state = "reconnecting"
  <2>1. r.tries + 1 \in Nat /\ "reconnecting" \in States /\ TRUE \in BOOLEAN
    BY DEF Fields, States
  <2>2. s = [r EXCEPT !.timer = TRUE, !.tries = r.tries + 1, !.state = "reconnecting"]
    BY Zenon
  <2>. HIDE DEF s
  <2>. QED  BY <2>1, <2>2, Zenon DEF Fields
<1>. HIDE DEF s
<1>2. Scheduled(r) = r \/ Scheduled(r) = s
  BY DEF Scheduled, s
<1>. QED  BY <1>1, <1>2

LEMMA DroppedFacts ==
    ASSUME NEW r \in Fields, NEW a \in Nat
    PROVE  LET s == Dropped(r, a)
           IN  /\ s \in Fields /\ s.socket = (IF r.socket = a THEN None ELSE r.socket)
               /\ s.connecting = r.connecting /\ s.abort = r.abort
               /\ s.handshake = r.handshake /\ s.timer = r.timer /\ s.manual = r.manual
               /\ s.session = r.session /\ s.state = r.state
<1> DEFINE q == Rejected(r, "retryable")
<1>1. q \in Fields /\ Follows(r, q) /\ q.session = r.session /\ q.state = r.state
  BY RejectedFacts DEF Outcomes
<1>. HIDE DEF q
<1>2. LET s == [q EXCEPT !.socket = None]
      IN  /\ s \in Fields /\ s.socket = None
          /\ s.connecting = q.connecting /\ s.abort = q.abort
          /\ s.handshake = q.handshake /\ s.timer = q.timer /\ s.manual = q.manual
          /\ s.session = q.session /\ s.state = q.state
  BY <1>1 DEF Fields, None
<1>. QED  BY <1>1, <1>2 DEF Dropped, Follows, q

LEMMA AbortFacts ==
    ASSUME NEW r \in Fields, NEW a \in Nat
    PROVE  LET s == Abort(r, a)
           IN  /\ s \in Fields /\ Follows(r, s) /\ s.session = r.session
               /\ s.state \in {r.state, "error"}
<1> DEFINE q == [r EXCEPT !.suppress = TRUE]
<1>1. q \in Fields /\ Follows(r, q) /\ q.session = r.session /\ q.state = r.state
  BY DEF Fields, Follows
<1>. HIDE DEF q
<1>2. LET s == Rejected(q, "final")
      IN  s \in Fields /\ Follows(q, s) /\ s.session = q.session /\ s.state = q.state
  BY <1>1, RejectedFacts DEF Outcomes
<1>3. LET s == Failed(q, "final")
      IN  s \in Fields /\ Follows(q, s) /\ s.session = q.session /\ s.state = "error"
  BY <1>1, FailedFacts DEF Outcomes
<1>4. Follows(r, r)
  BY DEF Follows
<1>. QED  BY <1>1, <1>2, <1>3, <1>4, FollowsTrans DEF Abort, q

\* An attempt that ends leaves the socket alone; it schedules another only if nobody
\* has aborted it and no socket is left to close.
LEMMA EndedFacts ==
    ASSUME NEW r \in Fields, NEW a \in Attempts, NEW o \in Outcomes
    PROVE  LET s == Ended(r, a, o)
           IN  /\ s \in Fields
               /\ s.socket = r.socket /\ s.manual = r.manual /\ s.session = r.session
               /\ s.timer => r.timer \/ (~attempts[a].aborted /\ r.socket = None)
               /\ r.manual /\ attempts[a].aborted => s.state = r.state
               /\ s.connecting \in {r.connecting, None}
               /\ s.handshake \in {r.handshake, None} \ {a}
               /\ \A b \in Attempts : s.hs[b] = "pending" => r.hs[b] = "pending"
               /\ \/ s.state \in {r.state, "error"}
                  \/ s.state = "reconnecting" /\ r.socket = None
<1> DEFINE final == attempts[a].aborted \/ o = "final"
           left  == [r EXCEPT !.connectTimer = IF @ = a THEN None ELSE @,
                              !.handshake = IF @ = a THEN None ELSE @,
                              !.abort = IF @ = a THEN None ELSE @,
                              !.connecting = IF @ = a THEN None ELSE @,
                              !.hs[a] = "none"]
           told  == IF ~left.manual /\ left.state # "disconnected"
                    THEN Failed(left, IF final THEN "final" ELSE "retryable")
                    ELSE left
<1>1. /\ left \in Fields
      /\ left.socket = r.socket /\ left.manual = r.manual /\ left.session = r.session
      /\ left.timer = r.timer /\ left.state = r.state
      /\ left.connecting \in {r.connecting, None}
      /\ left.handshake \in {r.handshake, None} \ {a}
      /\ \A b \in Attempts : left.hs[b] = "pending" => r.hs[b] = "pending"
  <2> DEFINE most == [r EXCEPT !.connectTimer = IF @ = a THEN None ELSE @,
                              !.handshake = IF @ = a THEN None ELSE @,
                              !.abort = IF @ = a THEN None ELSE @,
                              !.connecting = IF @ = a THEN None ELSE @]
  <2>1. /\ most \in Fields
        /\ most.socket = r.socket /\ most.manual = r.manual /\ most.session = r.session
        /\ most.timer = r.timer /\ most.state = r.state /\ most.hs = r.hs
    BY DEF Fields, None
  <2>4. /\ most.connecting = (IF r.connecting = a THEN None ELSE r.connecting)
        /\ most.handshake = (IF r.handshake = a THEN None ELSE r.handshake)
    BY DEF Fields
  <2>5. a # None
    BY DEF Attempts, None
  <2>2. left = [most EXCEPT !.hs = [most.hs EXCEPT ![a] = "none"]]
    BY Zenon
  <2>. HIDE DEF most, left
  <2>3. /\ [most.hs EXCEPT ![a] = "none"] \in [Attempts -> Outcomes]
        /\ \A b \in Attempts : [most.hs EXCEPT ![a] = "none"][b] = "pending"
                                 => r.hs[b] = "pending"
    BY <2>1 DEF Fields, Outcomes
  <2>6. /\ left.socket = most.socket /\ left.manual = most.manual
        /\ left.session = most.session /\ left.timer = most.timer
        /\ left.state = most.state /\ left.connecting = most.connecting
        /\ left.handshake = most.handshake
        /\ left.hs = [most.hs EXCEPT ![a] = "none"] /\ left \in Fields
    BY <2>1, <2>2, <2>3 DEF Fields
  <2>. QED  BY <2>1, <2>3, <2>4, <2>5, <2>6
<1>. HIDE DEF left
<1>2. /\ told \in Fields
      /\ told.socket = r.socket /\ told.manual = r.manual /\ told.session = r.session
      /\ told.timer = r.timer
      /\ r.manual => told.state = r.state
      /\ told.connecting = left.connecting /\ told.handshake = left.handshake
      /\ \A b \in Attempts : told.hs[b] = "pending" => r.hs[b] = "pending"
      /\ told.state \in {r.state, "error"}
  <2>1. ASSUME NEW x \in {"final", "retryable"}
        PROVE  LET s == Failed(left, x)
               IN  /\ s \in Fields /\ Follows(left, s) /\ s.session = left.session
                   /\ s.state = "error"
    BY <1>1, FailedFacts DEF Outcomes
  <2>. QED  BY <1>1, <2>1 DEF Follows
<1>3. Ended(r, a, o) = IF o = "ok" THEN left
                       ELSE IF attempts[a].auto /\ ~final /\ told.socket = None
                            THEN Scheduled(told) ELSE told
  BY Zenon DEF Ended, left
<1>. HIDE DEF told
<1>4. LET s == Scheduled(told)
      IN  s \in Fields /\ s.socket = told.socket /\ s.manual = told.manual
          /\ s.session = told.session /\ s.connecting = told.connecting
          /\ s.handshake = told.handshake /\ s.hs = told.hs
          /\ s.state \in {told.state, "reconnecting"}
  BY <1>2, ScheduledFacts
<1>5. CASE Ended(r, a, o) = left
  BY <1>1, <1>5
<1>6. CASE Ended(r, a, o) = told
  <2>1. told.connecting \in {r.connecting, None} /\ told.handshake \in {r.handshake, None} \ {a}
    BY <1>1, <1>2
  <2>. QED  BY <1>2, <1>6, <2>1
<1>7. CASE Ended(r, a, o) = Scheduled(told) /\ ~attempts[a].aborted /\ told.socket = None
  <2> DEFINE s == Scheduled(told)
  <2>1. /\ s \in Fields /\ s.socket = r.socket /\ s.manual = r.manual
        /\ s.session = r.session /\ r.socket = None
        /\ s.state \in {r.state, "error", "reconnecting"}
    BY <1>1, <1>2, <1>4, <1>7
  <2>2. /\ s.connecting \in {r.connecting, None} /\ s.handshake \in {r.handshake, None} \ {a}
        /\ \A b \in Attempts : s.hs[b] = "pending" => r.hs[b] = "pending"
    BY <1>1, <1>2, <1>4
  <2>3. r.manual /\ attempts[a].aborted => s.state = r.state
    BY <1>7
  <2>. HIDE DEF s
  <2>. QED  BY <1>7, <2>1, <2>2, <2>3 DEF s
<1>. QED  BY <1>3, <1>5, <1>6, <1>7

LEMMA ClosedFacts ==
    ASSUME NEW w \in [Attempts -> SocketStates], NEW a \in Nat
    PROVE  LET v == Closed(w, a)
           IN  /\ v \in [Attempts -> SocketStates]
               /\ \A b \in Attempts : v[b] \in Live => w[b] \in Live /\ b # a
<1>1. CASE a # None /\ w[a] \in {"connecting", "open"}
  <2>1. Closed(w, a) = [w EXCEPT ![a] = "closing"]
    BY <1>1 DEF Closed
  <2>. QED  BY <2>1 DEF SocketStates, Live
<1>2. CASE ~(a # None /\ w[a] \in {"connecting", "open"})
  <2>1. Closed(w, a) = w
    BY <1>2 DEF Closed
  <2>. QED  BY <1>2, <2>1 DEF Live, None, Attempts
<1>. QED  BY <1>1, <1>2

-----------------------------------------------------------------------------
(* The inductive invariant. *)

ConnectionTypes ==
    /\ rt \in Fields
    /\ attempts \in [Attempts -> Attempt]
    /\ disc \in Activity /\ rec \in Activity
    /\ queued \in BOOLEAN
    /\ ws \in [Attempts -> SocketStates]
    /\ queue \in Seq(Operations)
    /\ stored \in Nat

\* The attempt in progress is the one the object's fields name; before its handshake
\* there is no socket.
Known ==
    \A a \in Attempts : Active(a) =>
        /\ rt.connecting = a /\ rt.abort = a
        /\ IF attempts[a].pc = "handshake" THEN rt.handshake = a ELSE rt.socket = None

\* A reconnection is scheduled when no socket is left, and by an attempt that ends or
\* has just been told that it will.
TimerInv ==
    rt.timer =>
        /\ rt.socket = None
        /\ \A a \in Attempts :
              Active(a) => attempts[a].pc = "handshake" /\ rt.hs[a] # "pending"

SocketInv == \A a \in Attempts : ws[a] \in Live => rt.socket = a

\* What disconnect and reconnect have taken down stays down until they go on.
Down(d) ==
    /\ rt.manual /\ ~rt.timer
    /\ rt.socket \in {None, d.sock}
    /\ \A a \in Attempts : Active(a) => attempts[a].aborted /\ a = d.active
    /\ \A a \in Attempts : ws[a] \notin Live

DiscInv ==
    /\ disc.pc \in {"closing", "clearing"} =>
           Down(disc) /\ rt.state \in {"disconnecting", "disconnected", "error"}
    /\ disc.pc = "clearing" =>
           rt.session = None /\ ~disc.preserve /\ \A a \in Attempts : ~Active(a)
RecInv ==
    /\ rec.pc \in {"closing", "attempt"} => Down(rec)
    /\ rec.pc = "attempt" => rt.socket = None
Exclusive ==
    ~(disc.pc \in {"closing", "clearing"} /\ rec.pc \in {"closing", "attempt", "connecting"})

\* A connect that may be made again finds an attempt to join, or no socket.
Resumable == queued /\ disc.pc = "idle" /\ rec.pc \notin {"closing", "attempt"}
QueuedInv ==
    Resumable =>
        /\ \A a \in Attempts :
              Active(a) /\ attempts[a].pc = "handshake" => rt.hs[a] = "pending"
        /\ (\A a \in Attempts : ~Active(a)) => rt.socket = None

\* An attempt waits for one operation of the store, and a disconnect for the last one.
QueueOK(q, phase, d) ==
    /\ \A i \in 1..Len(q) :
        /\ q[i].for = "attempt" => q[i].a \in Attempts /\ phase[q[i].a].pc = q[i].op
        /\ q[i].for = "attempt" => q[i].op \in {"load", "clear"}
        /\ q[i].op = "load" => q[i].for = "attempt"
        /\ q[i].for = "disconnect" => q[i].op = "clear" /\ d = "clearing" /\ i = Len(q)
    /\ \A i, j \in 1..Len(q) : q[i].for = "attempt" /\ q[j].for = "attempt" => i = j

ConnInv ==
    /\ ConnectionTypes
    /\ Known /\ TimerInv /\ SocketInv
    /\ DiscInv /\ RecInv /\ Exclusive
    /\ QueuedInv
    /\ QueueOK(queue, attempts, disc.pc)

-----------------------------------------------------------------------------
(* The queue of the store. *)

NoneWaits(q) == \A i \in 1..Len(q) : q[i].for # "attempt"
NoDisconnect(q) == \A i \in 1..Len(q) : q[i].for # "disconnect"

LEMMA QueueTail ==
    ASSUME NEW q \in Seq(Operations), q # <<>>, NEW phase, NEW d, QueueOK(q, phase, d)
    PROVE  /\ Tail(q) \in Seq(Operations) /\ Head(q) \in Operations
           /\ QueueOK(Tail(q), phase, d)
           /\ Head(q).for = "attempt" =>
                 /\ NoneWaits(Tail(q))
                 /\ Head(q).a \in Attempts /\ phase[Head(q).a].pc = Head(q).op
           /\ Head(q).for = "disconnect" => Tail(q) = <<>> /\ d = "clearing"
           /\ Head(q).op = "load" => Head(q).for = "attempt"
<1> DEFINE t == Tail(q)
<1>1. /\ Len(q) \in Nat /\ Len(q) > 0 /\ Len(t) = Len(q) - 1
      /\ t \in Seq(Operations) /\ Head(q) \in Operations /\ Head(q) = q[1]
      /\ \A i \in 1..Len(t) : t[i] = q[i + 1] /\ i + 1 \in 1..Len(q) /\ i + 1 # 1
  OBVIOUS
<1>. HIDE DEF t
<1>2. 1 \in 1..Len(q)
  BY <1>1
<1>3. QueueOK(t, phase, d)
  <2>1. ASSUME NEW i \in 1..Len(t)
        PROVE  /\ t[i].for = "attempt" => t[i].a \in Attempts
                                                /\ phase[t[i].a].pc = t[i].op
               /\ t[i].for = "attempt" => t[i].op \in {"load", "clear"}
               /\ t[i].op = "load" => t[i].for = "attempt"
               /\ t[i].for = "disconnect" =>
                      t[i].op = "clear" /\ d = "clearing" /\ i = Len(t)
    <3>1. t[i] = q[i + 1] /\ i + 1 \in 1..Len(q)
      BY <1>1
    <3>2. i + 1 = Len(q) => i = Len(t)
      BY <1>1
    <3>. QED  BY <3>1, <3>2 DEF QueueOK
  <2>2. ASSUME NEW i \in 1..Len(t), NEW j \in 1..Len(t),
               t[i].for = "attempt", t[j].for = "attempt"
        PROVE  i = j
    <3>1. i + 1 = j + 1
      BY <1>1, <2>2 DEF QueueOK
    <3>. QED  BY <3>1
  <2>. QED  BY <2>1, <2>2 DEF QueueOK
<1>4. Head(q).for = "attempt" => NoneWaits(t)
  BY <1>1, <1>2 DEF QueueOK, NoneWaits
<1>5. Head(q).for = "disconnect" => t = <<>>
  <2>1. Head(q).for = "disconnect" => Len(t) = 0
    BY <1>1, <1>2 DEF QueueOK
  <2>. QED  BY <1>1, <2>1
<1>. QED  BY <1>1, <1>2, <1>3, <1>4, <1>5 DEF QueueOK, t

LEMMA QueueAppend ==
    ASSUME NEW q \in Seq(Operations), NEW phase, NEW d, QueueOK(q, phase, d),
           NoDisconnect(q), NEW op \in Operations,
           op.op = "load" => op.for = "attempt",
           op.for = "attempt" => /\ NoneWaits(q)
                                 /\ op.a \in Attempts /\ phase[op.a].pc = op.op
                                 /\ op.op \in {"load", "clear"},
           op.for = "disconnect" => op.op = "clear" /\ d = "clearing"
    PROVE  /\ Append(q, op) \in Seq(Operations)
           /\ QueueOK(Append(q, op), phase, d)
<1> DEFINE p == Append(q, op)
<1>1. /\ p \in Seq(Operations) /\ Len(q) \in Nat /\ Len(p) = Len(q) + 1
      /\ \A i \in 1..Len(p) : p[i] = IF i = Len(p) THEN op ELSE q[i]
      /\ \A i \in 1..Len(p) : i # Len(p) => i \in 1..Len(q)
  OBVIOUS
<1>. HIDE DEF p
<1>2. ASSUME NEW i \in 1..Len(p)
      PROVE  /\ p[i].for = "attempt" => p[i].a \in Attempts /\ phase[p[i].a].pc = p[i].op
             /\ p[i].for = "attempt" => p[i].op \in {"load", "clear"}
             /\ p[i].op = "load" => p[i].for = "attempt"
             /\ p[i].for = "disconnect" => p[i].op = "clear" /\ d = "clearing" /\ i = Len(p)
  <2>1. CASE i = Len(p)
    BY <1>1, <2>1
  <2>2. CASE i # Len(p)
    BY <1>1, <2>2 DEF QueueOK, NoDisconnect
  <2>. QED  BY <2>1, <2>2
<1>3. ASSUME NEW i \in 1..Len(p), NEW j \in 1..Len(p), p[i].for = "attempt", p[j].for = "attempt"
      PROVE  i = j
  <2>1. CASE i = Len(p) \/ j = Len(p)
    BY <1>1, <1>3, <2>1 DEF NoneWaits
  <2>2. CASE i # Len(p) /\ j # Len(p)
    BY <1>1, <1>3, <2>2 DEF QueueOK
  <2>. QED  BY <2>1, <2>2
<1>. QED  BY <1>1, <1>2, <1>3 DEF QueueOK, p

\* What the queue says of the attempts and of the disconnect holds of others as well
\* when nothing in it is theirs.
LEMMA QueueOthers ==
    ASSUME NEW q, NEW phase, NEW d, QueueOK(q, phase, d),
           NEW phase2, NoneWaits(q) \/ \A a \in Attempts : phase2[a].pc = phase[a].pc,
           NEW e, NoDisconnect(q) \/ d = e
    PROVE  QueueOK(q, phase2, e)
  BY DEF QueueOK, NoneWaits, NoDisconnect

LEMMA NothingQueued ==
    ASSUME ConnInv
    PROVE  /\ disc.pc # "clearing" => NoDisconnect(queue)
           /\ (\A a \in Attempts : ~Active(a)) => NoneWaits(queue)
           /\ \A a \in Attempts :
                Active(a) /\ attempts[a].pc \notin {"load", "clear"} => NoneWaits(queue)
<1>1. disc.pc # "clearing" => NoDisconnect(queue)
  BY DEF ConnInv, QueueOK, NoDisconnect
<1>2. ASSUME NEW i \in 1..Len(queue), queue[i].for = "attempt"
      PROVE  /\ queue[i].a \in Attempts /\ Active(queue[i].a)
             /\ attempts[queue[i].a].pc \in {"load", "clear"}
             /\ \A a \in Attempts : Active(a) => a = queue[i].a
  <2>1. /\ queue[i].a \in Attempts
        /\ attempts[queue[i].a].pc \in {"load", "clear"}
    BY <1>2 DEF ConnInv, QueueOK
  <2>2. Active(queue[i].a)
    BY <2>1 DEF Active
  <2>. QED  BY <2>1, <2>2 DEF ConnInv, Known
<1>. QED  BY <1>1, <1>2 DEF NoneWaits

-----------------------------------------------------------------------------
(* The kinds of steps. *)

LEMMA AttemptsAreNumbers == \A a \in Attempts : a \in Nat /\ a # None
  BY DEF Attempts, None

\* An activity goes on as it was, or waits to begin.
Onward(d, e) ==
    \/ e.pc = d.pc /\ e.sock = d.sock /\ e.active = d.active /\ e.preserve = d.preserve
    \/ d.pc = "idle" /\ e.pc \in {"waiting", "entered"}

\* An event that begins no attempt and ends none.
LEMMA EventStep ==
    ASSUME ConnInv, ConnectionTypes',
           Follows(rt, rt'),
           disc.pc \in {"closing", "clearing"} => /\ rt'.state \in {rt.state, "error"}
                                                  /\ rt'.session \in {rt.session, None},
           \A a \in Attempts : /\ attempts'[a].pc = attempts[a].pc
                               /\ attempts[a].aborted => attempts'[a].aborted,
           \A a \in Attempts : ws'[a] \in Live => ws[a] \in Live,
           Onward(disc, disc'), Onward(rec, rec'),
           ~(queued' /\ disc'.pc = "idle"),
           QueueOK(queue', attempts', disc'.pc)
    PROVE  ConnInv'
<1>1. \A a \in Attempts : Active(a)' <=> Active(a)
  BY DEF Active
<1>2. Known'
  BY <1>1 DEF ConnInv, Known, Follows
<1>3. TimerInv'
  BY <1>1 DEF ConnInv, TimerInv, Follows
<1>4. SocketInv'
  BY DEF ConnInv, SocketInv, Follows
<1>6. DiscInv'
  <2>1. CASE disc'.pc \in {"closing", "clearing"}
    <3>1. /\ disc'.pc = disc.pc /\ disc'.sock = disc.sock /\ disc'.active = disc.active
          /\ disc'.preserve = disc.preserve
      BY <2>1 DEF Onward
    <3>2. Down(disc) /\ rt.state \in {"disconnecting", "disconnected", "error"}
      BY <2>1, <3>1 DEF ConnInv, DiscInv
    <3>3. Down(disc)'
      BY <1>1, <3>1, <3>2 DEF Down, Follows
    <3>. QED  BY <1>1, <2>1, <3>1, <3>2, <3>3 DEF ConnInv, DiscInv
  <2>2. CASE disc'.pc \notin {"closing", "clearing"}
    BY <2>2 DEF DiscInv
  <2>. QED  BY <2>1, <2>2
<1>7. RecInv'
  <2>1. CASE rec'.pc \in {"closing", "attempt"}
    <3>1. rec'.pc = rec.pc /\ rec'.sock = rec.sock /\ rec'.active = rec.active
      BY <2>1 DEF Onward
    <3>2. Down(rec) /\ (rec.pc = "attempt" => rt.socket = None)
      BY <2>1, <3>1 DEF ConnInv, RecInv
    <3>3. Down(rec)'
      BY <1>1, <3>1, <3>2 DEF Down, Follows
    <3>. QED  BY <3>1, <3>2, <3>3 DEF RecInv, Follows
  <2>2. CASE rec'.pc \notin {"closing", "attempt"}
    BY <2>2 DEF RecInv
  <2>. QED  BY <2>1, <2>2
<1>8. Exclusive'
  BY DEF ConnInv, Exclusive, Onward
<1>9. QueuedInv'
  BY DEF QueuedInv, Resumable
<1>. QED  BY <1>2, <1>3, <1>4, <1>6, <1>7, <1>8, <1>9 DEF ConnInv

\* The end of the attempt in progress.
LEMMA EndStep ==
    ASSUME ConnInv, NEW a \in Attempts, Active(a), End(a),
           NEW r \in Fields, NEW o \in Outcomes, rt' = Ended(r, a, o),
           r.socket = rt.socket, r.timer = rt.timer, r.manual = rt.manual,
           r.state = rt.state,
           UNCHANGED <<disc, rec, queued, ws>>,
           Resumable => rt.socket = None,
           stored' \in Nat, queue' \in Seq(Operations), NoneWaits(queue'), QueueOK(queue', attempts, disc.pc)
    PROVE  ConnInv'
<1>1. \A b \in Attempts : ~Active(b)'
  <2>1. attempts' = [attempts EXCEPT ![a] = [Unused EXCEPT !.pc = "ended"]]
    BY DEF End
  <2>2. \A b \in Attempts : attempts'[b] = IF b = a THEN [Unused EXCEPT !.pc = "ended"]
                                           ELSE attempts[b]
    BY <2>1 DEF ConnInv, ConnectionTypes
  <2>3. \A b \in Attempts : Active(b) => b = a
    BY DEF ConnInv, Known
  <2>. QED  BY <2>2, <2>3 DEF Active, Unused
<1>2. /\ rt'.socket = rt.socket /\ rt'.manual = rt.manual
      /\ rt'.timer => rt.timer \/ (~attempts[a].aborted /\ rt.socket = None)
      /\ rt.manual /\ attempts[a].aborted => rt'.state = rt.state
  BY EndedFacts
<1>3. Known' /\ TimerInv'
  BY <1>1, <1>2 DEF ConnInv, Known, TimerInv
<1>4. SocketInv' /\ Exclusive' /\ QueuedInv'
  BY <1>1, <1>2 DEF ConnInv, SocketInv, Exclusive, QueuedInv, Resumable
<1>5. DiscInv'
  <2>1. CASE disc.pc \in {"closing", "clearing"}
    <3>1. Down(disc) /\ rt.state \in {"disconnecting", "disconnected", "error"}
      BY <2>1 DEF ConnInv, DiscInv
    <3>2. attempts[a].aborted /\ disc.pc # "clearing"
      BY <3>1 DEF ConnInv, DiscInv, Down
    <3>3. Down(disc)'
      BY <1>1, <1>2, <3>1, <3>2 DEF Down
    <3>. QED  BY <1>2, <3>1, <3>2, <3>3 DEF DiscInv, Down
  <2>2. CASE disc.pc \notin {"closing", "clearing"}
    BY <2>2 DEF DiscInv
  <2>. QED  BY <2>1, <2>2
<1>6. RecInv'
  <2>1. CASE rec.pc \in {"closing", "attempt"}
    <3>1. Down(rec) /\ (rec.pc = "attempt" => rt.socket = None)
      BY <2>1 DEF ConnInv, RecInv
    <3>2. attempts[a].aborted
      BY <3>1 DEF Down
    <3>3. Down(rec)'
      BY <1>1, <1>2, <3>1, <3>2 DEF Down
    <3>. QED  BY <1>2, <3>1, <3>3 DEF RecInv
  <2>2. CASE rec.pc \notin {"closing", "attempt"}
    BY <2>2 DEF RecInv
  <2>. QED  BY <2>1, <2>2
<1>7. QueueOK(queue', attempts', disc'.pc)
  BY QueueOthers
<1>8. ConnectionTypes'
  <2>1. [Unused EXCEPT !.pc = "ended"] \in Attempt
    BY DEF Unused, Attempt, Phases
  <2>2. attempts' \in [Attempts -> Attempt]
    BY <2>1 DEF ConnInv, ConnectionTypes, End
  <2>. QED  BY <2>2, EndedFacts DEF ConnInv, ConnectionTypes
<1>. QED  BY <1>3, <1>4, <1>5, <1>6, <1>7, <1>8 DEF ConnInv

\* The attempt in progress comes closer to its handshake.
LEMMA MoveStep ==
    ASSUME ConnInv, ConnectionTypes', NEW a \in Attempts, NEW pc \in Before,
           attempts[a].pc \in Before, attempts' = [attempts EXCEPT ![a].pc = pc],
           Follows(rt, rt'), rt'.state = rt.state,
           UNCHANGED <<disc, rec, queued, ws>>,
           QueueOK(queue', attempts', disc.pc)
    PROVE  ConnInv'
<1>0. Active(a)
  BY DEF Active, Before
<1>1. \A b \in Attempts : /\ attempts'[b].pc = IF b = a THEN pc ELSE attempts[b].pc
                          /\ attempts'[b].aborted = attempts[b].aborted
  BY DEF ConnInv, ConnectionTypes, Attempt
<1>2. \A b \in Attempts : Active(b)' <=> Active(b)
  BY <1>0, <1>1 DEF Active, Before
<1>3. Known'
  BY <1>1, <1>2 DEF ConnInv, Known, Follows, Before
<1>4. ~rt.timer
  BY <1>0 DEF ConnInv, TimerInv, Before
<1>5. TimerInv' /\ SocketInv' /\ Exclusive'
  BY <1>4 DEF ConnInv, TimerInv, SocketInv, Exclusive, Follows
<1>6. DiscInv' /\ RecInv'
  <2>1. ASSUME NEW d, Down(d) PROVE Down(d)'
    BY <1>1, <1>2, <2>1 DEF Down, Follows
  <2>2. disc.pc # "clearing"
    BY <1>0 DEF ConnInv, DiscInv
  <2>. QED  BY <2>1, <2>2 DEF ConnInv, DiscInv, RecInv, Follows
<1>7. QueuedInv'
  <2>1. \A b \in Attempts : Active(b)' => attempts'[b].pc # "handshake"
    BY <1>0, <1>1, <1>2 DEF ConnInv, Known, Before
  <2>. QED  BY <1>0, <1>2, <2>1 DEF QueuedInv
<1>. QED  BY <1>3, <1>5, <1>6, <1>7 DEF ConnInv

LEMMA OpenedPhases ==
    ASSUME ConnInv, NEW a \in Attempts, NEW auth \in {"resume", "pairing", "approval"},
           attempts' = [attempts EXCEPT ![a].pc = "handshake", ![a].auth = auth]
    PROVE  /\ attempts' \in [Attempts -> Attempt]
           /\ \A b \in Attempts :
                 attempts'[b].pc = IF b = a THEN "handshake" ELSE attempts[b].pc
<1> DEFINE next == [attempts EXCEPT ![a].pc = "handshake"]
           one == [next[a] EXCEPT !.auth = auth]
<1>1. /\ next \in [Attempts -> Attempt]
      /\ \A b \in Attempts : next[b].pc = IF b = a THEN "handshake" ELSE attempts[b].pc
  BY DEF ConnInv, ConnectionTypes, Attempt, Phases
<1>2. attempts' = [next EXCEPT ![a] = one]
  BY Zenon
<1>. HIDE DEF next
<1>3. one \in Attempt /\ one.pc = next[a].pc
  BY <1>1 DEF Attempt
<1>. HIDE DEF one
<1>. QED  BY <1>1, <1>2, <1>3

\* The socket of the attempt in progress is made.
LEMMA OpenStep ==
    ASSUME ConnInv, NEW a \in Attempts, attempts[a].pc \in Before, ~attempts[a].aborted,
           NEW r \in Fields, NEW auth \in {"resume", "pairing", "approval"},
           r.socket = rt.socket, r.connecting = rt.connecting, r.abort = rt.abort,
           r.timer = rt.timer,
           rt' = [r EXCEPT !.handshake = a, !.hs[a] = "pending", !.socket = a,
                           !.manual = FALSE, !.suppress = FALSE, !.connectTimer = a],
           attempts' = [attempts EXCEPT ![a].pc = "handshake", ![a].auth = auth],
           ws' = [ws EXCEPT ![a] = "connecting"],
           UNCHANGED <<disc, rec, queued, stored>>,
           queue' \in Seq(Operations), NoneWaits(queue'), QueueOK(queue', attempts, disc.pc)
    PROVE  ConnInv'
<1>1. Active(a) /\ ~rt.timer /\ rt.socket = None /\ rt.connecting = a /\ rt.abort = a
  BY DEF ConnInv, TimerInv, Known, Active, Before
<1>2. disc.pc \notin {"closing", "clearing"} /\ rec.pc \notin {"closing", "attempt"}
  BY <1>1 DEF ConnInv, DiscInv, RecInv, Down
<1>3. /\ rt' \in Fields /\ rt'.hs[a] = "pending" /\ rt'.socket = a /\ rt'.handshake = a
      /\ rt'.timer = r.timer /\ rt'.connecting = r.connecting /\ rt'.abort = r.abort
  <2> DEFINE most == [r EXCEPT !.handshake = a, !.socket = a, !.manual = FALSE,
                               !.suppress = FALSE, !.connectTimer = a]
             hs == [r.hs EXCEPT ![a] = "pending"]
  <2>1. /\ most \in Fields /\ most.socket = a /\ most.handshake = a
        /\ most.timer = r.timer /\ most.connecting = r.connecting /\ most.abort = r.abort
    BY AttemptsAreNumbers DEF Fields
  <2>2. hs \in [Attempts -> Outcomes] /\ hs[a] = "pending"
    BY DEF Fields, Outcomes
  <2>3. rt' = [most EXCEPT !.hs = hs]
    BY Zenon
  <2>. HIDE DEF most, hs
  <2>. QED  BY <2>1, <2>2, <2>3 DEF Fields
<1>4. /\ ws' \in [Attempts -> SocketStates]
      /\ \A b \in Attempts : ws'[b] = IF b = a THEN "connecting" ELSE ws[b]
  BY DEF ConnInv, ConnectionTypes, SocketStates
<1>5. /\ attempts' \in [Attempts -> Attempt]
      /\ \A b \in Attempts : attempts'[b].pc = IF b = a THEN "handshake" ELSE attempts[b].pc
  BY OpenedPhases
<1>6. ConnectionTypes'
  BY <1>3, <1>4, <1>5 DEF ConnInv, ConnectionTypes
<1>7. \A b \in Attempts : Active(b)' <=> b = a
  <2>1. \A b \in Attempts : Active(b) => b = a
    BY <1>1 DEF ConnInv, Known
  <2>. QED  BY <1>1, <1>5, <2>1 DEF Active
<1>8. Known' /\ TimerInv'
  BY <1>1, <1>3, <1>5, <1>7 DEF Known, TimerInv
<1>9. SocketInv'
  BY <1>1, <1>3, <1>4, AttemptsAreNumbers DEF ConnInv, SocketInv
<1>10. DiscInv' /\ RecInv' /\ Exclusive'
  BY <1>2 DEF ConnInv, DiscInv, RecInv, Exclusive
<1>11. QueuedInv'
  BY <1>3, <1>5, <1>7 DEF QueuedInv
<1>12. QueueOK(queue', attempts', disc'.pc)
  BY QueueOthers
<1>. QED  BY <1>6, <1>8, <1>9, <1>10, <1>11, <1>12 DEF ConnInv

\* An attempt begins, when none is in progress and no socket is left.
LEMMA BeginStep ==
    ASSUME ConnInv, \A a \in Attempts : ~Active(a),
           NEW a \in Nat, NEW auto \in BOOLEAN, NEW fresh \in BOOLEAN,
           NEW reconnecting \in BOOLEAN, NEW r \in Fields,
           r.socket = None, ~r.timer, rt.socket = None,
           rt' = Begun(r, a, reconnecting), BeginAttempt(a, auto, fresh),
           disc' = disc, disc.pc \notin {"closing", "clearing"},
           rec' \in Activity, rec'.pc \notin {"closing", "attempt"},
           queued' \in BOOLEAN, UNCHANGED <<ws, queue, stored>>
    PROVE  ConnInv'
<1>1. /\ rt' \in Fields /\ rt'.socket = None /\ ~rt'.timer
      /\ rt'.connecting = a /\ rt'.abort = a
  BY DEF Begun, Fields, States
<1>2. \A b \in Attempts :
        attempts'[b] = IF b = a
                       THEN [Unused EXCEPT !.pc = IF PreparesLNA THEN "prepare" ELSE "auth",
                                           !.auto = auto, !.fresh = fresh]
                       ELSE attempts[b]
  BY DEF BeginAttempt, ConnInv, ConnectionTypes
<1>3. attempts' \in [Attempts -> Attempt]
  <2>1. [Unused EXCEPT !.pc = IF PreparesLNA THEN "prepare" ELSE "auth",
                       !.auto = auto, !.fresh = fresh] \in Attempt
    BY DEF Unused, Attempt, Phases
  <2>. QED  BY <2>1 DEF BeginAttempt, ConnInv, ConnectionTypes
<1>4. ConnectionTypes'
  BY <1>1, <1>3 DEF ConnInv, ConnectionTypes
<1>5. \A b \in Attempts : Active(b)' => b = a /\ attempts'[b].pc # "handshake"
  BY <1>2 DEF Active, Unused
<1>6. Known' /\ TimerInv' /\ QueuedInv'
  BY <1>1, <1>5 DEF Known, TimerInv, QueuedInv
<1>7. SocketInv'
  BY <1>1 DEF ConnInv, SocketInv
<1>8. DiscInv' /\ RecInv' /\ Exclusive'
  BY DEF DiscInv, RecInv, Exclusive
<1>9. QueueOK(queue', attempts', disc'.pc)
  BY NothingQueued, QueueOthers DEF ConnInv
<1>. QED  BY <1>4, <1>6, <1>7, <1>8, <1>9 DEF ConnInv

\* disconnect and reconnect take down what they find.
LEMMA TakeDownFacts ==
    ASSUME ConnInv, NEW r \in Fields, TakeDown(r), NEW preserve \in BOOLEAN,
           r.socket = rt.socket, r.connecting = rt.connecting, r.abort = rt.abort,
           r.handshake = rt.handshake, r.hs = rt.hs
    PROVE  /\ rt' \in Fields /\ attempts' \in [Attempts -> Attempt]
           /\ ws' \in [Attempts -> SocketStates]
           /\ Taken(preserve) \in Activity /\ Taken(preserve).pc = "closing"
           /\ Known' /\ TimerInv' /\ SocketInv'
           /\ \A a \in Attempts : attempts'[a].pc = attempts[a].pc
           /\ \A d : d = Taken(preserve) => Down(d)'
           /\ rt'.state \in {r.state, "error"}
<1>1. Taken(preserve) \in Activity
  BY DEF Taken, Activity, ConnInv, ConnectionTypes, Fields
<1> DEFINE q == [CancelReconnect(r) EXCEPT !.manual = TRUE]
<1>2. /\ q \in Fields /\ ~q.timer /\ q.manual /\ q.state = r.state
      /\ q.socket = rt.socket /\ q.connecting = rt.connecting /\ q.abort = rt.abort
      /\ q.handshake = rt.handshake /\ q.hs = rt.hs
  BY DEF CancelReconnect, Fields
<1>. HIDE DEF q
<1>3. rt' \in Fields /\ Follows(q, rt') /\ rt'.state \in {r.state, "error"}
  <2>1. rt' = Abort(q, r.abort) /\ r.abort \in Nat
    BY DEF TakeDown, q, Fields
  <2>. QED  BY <1>2, <2>1, AbortFacts
<1>4. /\ attempts' \in [Attempts -> Attempt]
      /\ \A a \in Attempts : /\ attempts'[a].pc = attempts[a].pc
                             /\ a = rt.abort => attempts'[a].aborted
  <2>1. attempts' = IF rt.abort = None THEN attempts
                    ELSE [attempts EXCEPT ![rt.abort].aborted = TRUE]
    BY DEF TakeDown, Aborted
  <2>. QED  BY <2>1, AttemptsAreNumbers DEF ConnInv, ConnectionTypes, Attempt
<1>5. /\ ws' \in [Attempts -> SocketStates]
      /\ \A b \in Attempts : ws'[b] \notin Live
  <2> DEFINE w == AbortCloses(ws, r.abort)
  <2>1. w \in [Attempts -> SocketStates] /\ \A b \in Attempts : w[b] \in Live => ws[b] \in Live
    BY ClosedFacts DEF AbortCloses, ConnInv, ConnectionTypes, Fields
  <2>2. ws' = Closed(w, r.socket) /\ r.socket \in Nat
    BY DEF TakeDown, Fields
  <2>. HIDE DEF w
  <2>. QED  BY <2>1, <2>2, ClosedFacts DEF ConnInv, SocketInv
<1>6. \A a \in Attempts : Active(a)' <=> Active(a)
  BY <1>4 DEF Active
<1>7. Known' /\ TimerInv' /\ SocketInv'
  BY <1>2, <1>3, <1>4, <1>5, <1>6 DEF ConnInv, Known, TimerInv, SocketInv, Follows
<1>8. ASSUME NEW d, d = Taken(preserve) PROVE Down(d)'
  <2>1. d.sock = rt.socket /\ d.active = rt.connecting
    BY <1>8 DEF Taken
  <2>. QED  BY <1>2, <1>3, <1>4, <1>5, <1>6, <2>1 DEF ConnInv, Known, Down, Follows
<1>. QED  BY <1>1, <1>3, <1>4, <1>5, <1>7, <1>8 DEF Taken

-----------------------------------------------------------------------------
(* The attempts. *)

LEMMA OpenSocketInv ==
    ASSUME ConnInv, NEW a \in Attempts, attempts[a].pc \in Before,
           NEW r \in Fields, NEW auth \in {"resume", "pairing", "approval"},
           OpenSocket(a, r, auth),
           Follows(rt, r), r.state = rt.state,
           UNCHANGED <<disc, rec, queued, stored>>,
           queue' \in Seq(Operations), NoneWaits(queue'), QueueOK(queue', attempts, disc.pc)
    PROVE  ConnInv'
<1>1. Active(a) /\ rt.socket = None /\ stored \in Nat
  BY DEF ConnInv, ConnectionTypes, Known, Active, Before
<1>2. CASE ws' = ws /\ End(a) /\ \E o \in {"final", "retryable"} : rt' = Ended(r, a, o)
  BY <1>1, <1>2, EndStep DEF Follows, Outcomes
<1>3. CASE ~(ws' = ws /\ End(a) /\ \E o \in {"final", "retryable"} : rt' = Ended(r, a, o))
  BY <1>1, <1>3, OpenStep DEF OpenSocket, Follows
<1>. QED  BY <1>2, <1>3

LEMMA FailsInv ==
    ASSUME ConnInv, NEW a \in Attempts, attempts[a].pc \in Before,
           NEW r \in Fields, Follows(rt, r), r.state = rt.state, Fails(a, r),
           UNCHANGED <<disc, rec, queued>>, stored' \in Nat,
           queue' \in Seq(Operations), NoneWaits(queue'), QueueOK(queue', attempts, disc.pc)
    PROVE  ConnInv'
<1>1. Active(a) /\ rt.socket = None
  BY DEF ConnInv, Known, Active, Before
<1>. QED  BY <1>1, EndStep DEF Fails, Follows, Outcomes

\* An attempt before its handshake asks the store, if it asks, alone and last.
LEMMA AsksStore ==
    ASSUME ConnInv, NEW a \in Attempts, attempts[a].pc \in Before,
           NEW q \in Seq(Operations), NoneWaits(q), NoDisconnect(q),
           QueueOK(q, attempts, disc.pc), NEW op \in {"load", "clear"},
           NEW phase, \A b \in Attempts : b # a => phase[b].pc = attempts[b].pc,
           phase[a].pc = op
    PROVE  /\ Append(q, Operation(op, a, None, "attempt")) \in Seq(Operations)
           /\ QueueOK(Append(q, Operation(op, a, None, "attempt")), phase, disc.pc)
<1>1. Operation(op, a, None, "attempt") \in Operations
  BY AttemptsAreNumbers DEF Operation, Operations, None
<1>2. QueueOK(q, phase, disc.pc)
  BY QueueOthers
<1>. QED  BY <1>1, <1>2, QueueAppend DEF Operation

LEMMA MovedTypes ==
    ASSUME ConnInv, NEW a \in Attempts, NEW pc \in Phases
    PROVE  LET next == [attempts EXCEPT ![a].pc = pc]
           IN  /\ next \in [Attempts -> Attempt]
               /\ \A b \in Attempts : next[b].pc = IF b = a THEN pc ELSE attempts[b].pc
  BY DEF ConnInv, ConnectionTypes, Attempt

LEMMA WithSessionInv ==
    ASSUME ConnInv, NEW a \in Attempts, attempts[a].pc \in Before, NEW s \in Nat,
           NEW q \in Seq(Operations), NoneWaits(q), NoDisconnect(q),
           QueueOK(q, attempts, disc.pc), WithSession(a, s, q),
           UNCHANGED <<disc, rec, queued, stored>>
    PROVE  ConnInv'
<1>1. CASE OpenSocket(a, [rt EXCEPT !.session = s], "resume") /\ queue' = q
  <2> DEFINE r == [rt EXCEPT !.session = s]
  <2>1. r \in Fields /\ Follows(rt, r) /\ r.state = rt.state
    BY DEF ConnInv, ConnectionTypes, Fields, Follows
  <2>. HIDE DEF r
  <2>2. OpenSocket(a, r, "resume")
    BY <1>1 DEF r
  <2>. QED  BY <1>1, <2>1, <2>2, OpenSocketInv
<1>2. CASE /\ rt' = ClearSession(rt)
           /\ attempts' = [attempts EXCEPT ![a].pc = "clear"]
           /\ queue' = Append(q, Operation("clear", a, None, "attempt"))
           /\ UNCHANGED ws
  <2>1. rt' \in Fields /\ Follows(rt, rt') /\ rt'.state = rt.state
    BY <1>2, ClearSessionFacts DEF ConnInv, ConnectionTypes
  <2>2. /\ attempts' \in [Attempts -> Attempt]
        /\ \A b \in Attempts : attempts'[b].pc = IF b = a THEN "clear" ELSE attempts[b].pc
    BY <1>2, MovedTypes DEF Phases
  <2>3. queue' \in Seq(Operations) /\ QueueOK(queue', attempts', disc.pc)
    BY <1>2, <2>2, AsksStore
  <2>4. ConnectionTypes'
    BY <1>2, <2>1, <2>2, <2>3 DEF ConnInv, ConnectionTypes
  <2>. QED  BY <1>2, <2>1, <2>3, <2>4, MoveStep DEF Before
<1>. QED  BY <1>1, <1>2 DEF WithSession

\* What an attempt before its handshake knows of the queue.
LEMMA BeforeFacts ==
    ASSUME ConnInv, NEW a \in Attempts, attempts[a].pc \in Before
    PROVE  /\ Active(a) /\ disc.pc # "clearing" /\ NoDisconnect(queue)
           /\ attempts[a].pc \notin {"load", "clear"} => NoneWaits(queue)
<1>1. Active(a)
  BY DEF Active, Before
<1>2. disc.pc # "clearing"
  BY <1>1 DEF ConnInv, DiscInv
<1>. QED  BY <1>1, <1>2, NothingQueued

LEMMA PreparedInv ==
    ASSUME ConnInv, NEW a \in Attempts, Prepared(a) PROVE ConnInv'
<1>1. /\ attempts[a].pc \in Before /\ NoneWaits(queue)
      /\ rt \in Fields /\ Follows(rt, rt) /\ ConnectionTypes
      /\ QueueOK(queue, attempts, disc.pc)
  BY BeforeFacts DEF Prepared, Before, ConnInv, ConnectionTypes, Follows
<1>2. CASE attempts' = [attempts EXCEPT ![a].pc = "auth"] /\ UNCHANGED <<rt, ws>>
  <2>1. attempts' \in [Attempts -> Attempt]
    BY <1>2, MovedTypes DEF Phases
  <2>2. ConnectionTypes'
    BY <1>1, <1>2, <2>1 DEF ConnectionTypes, Prepared
  <2>3. QueueOK(queue', attempts', disc.pc)
    BY <1>1, QueueOthers DEF Prepared
  <2>4. Follows(rt, rt') /\ rt'.state = rt.state /\ UNCHANGED <<disc, rec, queued, ws>>
    BY <1>1, <1>2 DEF Prepared
  <2>. QED  BY <1>1, <1>2, <2>2, <2>3, <2>4, MoveStep DEF Before
<1>3. CASE Fails(a, rt)
  <2>1. UNCHANGED <<disc, rec, queued, queue, stored>>
    BY DEF Prepared
  <2>. QED  BY <1>1, <1>3, <2>1, FailsInv DEF ConnectionTypes
<1>. QED  BY <1>2, <1>3 DEF Prepared

LEMMA AuthenticatesInv ==
    ASSUME ConnInv, NEW a \in Attempts, Authenticates(a) PROVE ConnInv'
<1>1. /\ attempts[a].pc \in Before /\ NoneWaits(queue) /\ NoDisconnect(queue)
      /\ rt \in Fields /\ Follows(rt, rt) /\ ConnectionTypes
      /\ queue \in Seq(Operations) /\ QueueOK(queue, attempts, disc.pc)
      /\ UNCHANGED <<disc, rec, queued, bridge, stored>>
  BY BeforeFacts DEF Authenticates, Before, ConnInv, ConnectionTypes, Follows
<1>2. CASE WithSession(a, rt.session, queue)
  BY <1>1, <1>2, WithSessionInv DEF Fields
<1>3. CASE /\ attempts' = [attempts EXCEPT ![a].pc = "load"]
           /\ queue' = Append(queue, Operation("load", a, None, "attempt"))
           /\ UNCHANGED <<rt, ws>>
  <2>1. /\ attempts' \in [Attempts -> Attempt]
        /\ \A b \in Attempts : attempts'[b].pc = IF b = a THEN "load" ELSE attempts[b].pc
    BY <1>3, MovedTypes DEF Phases
  <2>2. queue' \in Seq(Operations) /\ QueueOK(queue', attempts', disc.pc)
    BY <1>1, <1>3, <2>1, AsksStore
  <2>3. ConnectionTypes'
    BY <1>1, <1>3, <2>1, <2>2 DEF ConnectionTypes
  <2>4. Follows(rt, rt') /\ rt'.state = rt.state
    BY <1>1, <1>3
  <2>. QED  BY <1>1, <1>3, <2>2, <2>3, <2>4, MoveStep DEF Before
<1>. QED  BY <1>2, <1>3 DEF Authenticates

LEMMA TokenGivenInv ==
    ASSUME ConnInv, NEW a \in Attempts, TokenGiven(a) PROVE ConnInv'
<1>1. /\ attempts[a].pc \in Before /\ NoneWaits(queue)
      /\ rt \in Fields /\ Follows(rt, rt) /\ stored \in Nat
      /\ queue \in Seq(Operations) /\ QueueOK(queue, attempts, disc.pc)
      /\ UNCHANGED <<disc, rec, queued, queue, stored>>
  BY BeforeFacts DEF TokenGiven, Before, ConnInv, ConnectionTypes, Follows
<1>2. CASE OpenSocket(a, rt, "pairing") \/ OpenSocket(a, rt, "approval")
  BY <1>1, <1>2, OpenSocketInv
<1>3. CASE Fails(a, rt)
  BY <1>1, <1>3, FailsInv
<1>. QED  BY <1>2, <1>3 DEF TokenGiven

LEMMA SettlesInv ==
    ASSUME ConnInv, NEW a \in Attempts, Settles(a) PROVE ConnInv'
<1>1. /\ Active(a) /\ attempts[a].pc = "handshake" /\ rt.hs[a] # "pending"
      /\ rt \in Fields /\ rt.hs[a] \in Outcomes /\ stored \in Nat
      /\ queue \in Seq(Operations) /\ QueueOK(queue, attempts, disc.pc)
      /\ UNCHANGED <<disc, rec, queued, ws, queue, stored>>
  BY DEF Settles, ConnInv, ConnectionTypes, Fields, Active
<1>2. NoneWaits(queue)
  BY <1>1, NothingQueued
<1>3. ~Resumable
  BY <1>1 DEF ConnInv, QueuedInv
<1>. QED  BY <1>1, <1>2, <1>3, EndStep DEF Settles

-----------------------------------------------------------------------------
(* disconnect and reconnect. *)

LEMMA DisconnectStartsInv ==
    ASSUME ConnInv, NEW preserve \in BOOLEAN, DisconnectStarts(preserve),
           disc.pc \in {"idle", "waiting"}, rec.pc = "idle"
    PROVE  ConnInv'
<1> DEFINE r == [rt EXCEPT !.state = "disconnecting"]
<1>1. /\ r \in Fields /\ r.state = "disconnecting"
      /\ r.socket = rt.socket /\ r.connecting = rt.connecting /\ r.abort = rt.abort
      /\ r.handshake = rt.handshake /\ r.hs = rt.hs
  BY DEF ConnInv, ConnectionTypes, Fields, States
<1>2. TakeDown(r) /\ disc' = Taken(preserve)
      /\ UNCHANGED <<rec, queued, bridge, queue, stored>>
  BY DEF DisconnectStarts
<1>. HIDE DEF r
<1>3. /\ rt' \in Fields /\ attempts' \in [Attempts -> Attempt]
      /\ ws' \in [Attempts -> SocketStates]
      /\ disc' \in Activity /\ disc'.pc = "closing"
      /\ Known' /\ TimerInv' /\ SocketInv'
      /\ \A a \in Attempts : attempts'[a].pc = attempts[a].pc
      /\ \A d : d = disc' => Down(d)'
      /\ rt'.state \in {"disconnecting", "error"}
  BY <1>1, <1>2, TakeDownFacts
<1>4. ConnectionTypes'
  BY <1>2, <1>3 DEF ConnInv, ConnectionTypes
<1>5. DiscInv'
  BY <1>3 DEF DiscInv, Down
<1>6. RecInv' /\ Exclusive' /\ QueuedInv'
  BY <1>2, <1>3 DEF RecInv, Exclusive, QueuedInv, Resumable
<1>7. QueueOK(queue', attempts', disc'.pc)
  BY <1>2, <1>3, NothingQueued, QueueOthers DEF ConnInv
<1>. QED  BY <1>3, <1>4, <1>5, <1>6, <1>7 DEF ConnInv

LEMMA ReconnectStartsInv ==
    ASSUME ConnInv, ReconnectStarts PROVE ConnInv'
<1>1. TakeDown(rt) /\ rec' = Taken(TRUE) /\ disc.pc = "idle"
      /\ UNCHANGED <<disc, queued, bridge, queue, stored>>
  BY DEF ReconnectStarts
<1>2. rt \in Fields
  BY DEF ConnInv, ConnectionTypes
<1>3. /\ rt' \in Fields /\ attempts' \in [Attempts -> Attempt]
      /\ ws' \in [Attempts -> SocketStates]
      /\ rec' \in Activity /\ rec'.pc = "closing"
      /\ Known' /\ TimerInv' /\ SocketInv'
      /\ \A a \in Attempts : attempts'[a].pc = attempts[a].pc
      /\ \A d : d = rec' => Down(d)'
  BY <1>1, <1>2, TakeDownFacts
<1>4. ConnectionTypes'
  BY <1>1, <1>3 DEF ConnInv, ConnectionTypes
<1>5. RecInv'
  BY <1>3 DEF RecInv, Down
<1>6. DiscInv' /\ Exclusive' /\ QueuedInv'
  BY <1>1, <1>3 DEF DiscInv, Exclusive, QueuedInv, Resumable
<1>7. QueueOK(queue', attempts', disc'.pc)
  BY <1>1, <1>3, QueueOthers DEF ConnInv
<1>. QED  BY <1>3, <1>4, <1>5, <1>6, <1>7 DEF ConnInv

LEMMA IdleType == Idle \in Activity /\ Idle.pc = "idle"
  BY DEF Idle, Activity, None

LEMMA DisconnectedFacts ==
    ASSUME ConnInv, Down(disc)
    PROVE  LET s == Disconnected(rt)
           IN  /\ s \in Fields /\ s.socket = None /\ ~s.timer
               /\ ~disc.preserve => s.session = None
<1> DEFINE dropped == Dropped(rt, disc.sock)
           cleared == IF disc.preserve THEN dropped ELSE ClearSession(dropped)
<1>1. rt \in Fields /\ disc.sock \in Nat /\ ~rt.timer /\ rt.socket \in {None, disc.sock}
  BY DEF ConnInv, ConnectionTypes, Activity, Down
<1>2. dropped \in Fields /\ dropped.socket = None /\ ~dropped.timer
  BY <1>1, DroppedFacts
<1>. HIDE DEF dropped
<1>3. /\ cleared \in Fields /\ cleared.socket = None /\ ~cleared.timer
      /\ ~disc.preserve => cleared.session = None
  BY <1>2, ClearSessionFacts DEF Follows
<1>4. Disconnected(rt) = [cleared EXCEPT !.state = "disconnected", !.manual = FALSE]
  BY Zenon DEF Disconnected, dropped
<1>. HIDE DEF cleared
<1>. QED  BY <1>3, <1>4 DEF Fields, States

\* A disconnect that has waited for all it waits for ends.
LEMMA DisconnectEnds ==
    ASSUME ConnInv, disc.pc \in {"closing", "clearing"}, \A a \in Attempts : ~Active(a),
           rt' = Disconnected(rt), disc' = Idle, UNCHANGED <<attempts, rec, queued, ws>>,
           stored' \in Nat, queue' \in Seq(Operations), NoDisconnect(queue'),
           QueueOK(queue', attempts, disc.pc)
    PROVE  ConnInv'
<1>1. Down(disc) /\ rec.pc \notin {"closing", "attempt", "connecting"}
  BY DEF ConnInv, DiscInv, Exclusive
<1>2. rt' \in Fields /\ rt'.socket = None /\ ~rt'.timer
  BY <1>1, DisconnectedFacts
<1>3. ConnectionTypes'
  BY <1>2, IdleType DEF ConnInv, ConnectionTypes
<1>4. \A a \in Attempts : ~Active(a)'
  BY DEF Active
<1>5. Known' /\ TimerInv' /\ SocketInv' /\ QueuedInv'
  BY <1>1, <1>2, <1>4 DEF Known, TimerInv, SocketInv, QueuedInv, Down
<1>6. DiscInv' /\ RecInv' /\ Exclusive'
  BY <1>1, IdleType DEF DiscInv, RecInv, Exclusive
<1>7. QueueOK(queue', attempts', disc'.pc)
  BY QueueOthers
<1>. QED  BY <1>3, <1>5, <1>6, <1>7 DEF ConnInv

LEMMA DisconnectClosesInv ==
    ASSUME ConnInv, DisconnectCloses PROVE ConnInv'
<1>1. /\ disc.pc = "closing" /\ AttemptOver(disc) /\ Down(disc)
      /\ NoDisconnect(queue) /\ ConnectionTypes
      /\ UNCHANGED <<attempts, rec, queued, ws, bridge, stored>>
  BY NothingQueued DEF DisconnectCloses, ConnInv, DiscInv
<1>2. \A a \in Attempts : ~Active(a)
  BY <1>1, AttemptsAreNumbers DEF AttemptOver, Down
<1>3. CASE disc.preserve
  BY <1>1, <1>2, <1>3, DisconnectEnds DEF DisconnectCloses, ConnInv, ConnectionTypes
<1>4. CASE ~disc.preserve
  <2>1. /\ rt' = ClearSession(rt) /\ disc' = [disc EXCEPT !.pc = "clearing"]
        /\ queue' = Append(queue, Operation("clear", None, None, "disconnect"))
    BY <1>4 DEF DisconnectCloses
  <2>2. /\ rt' \in Fields /\ Follows(rt, rt') /\ rt'.session = None /\ rt'.state = rt.state
    BY <1>1, <2>1, ClearSessionFacts DEF ConnectionTypes
  <2>3. /\ disc' \in Activity /\ disc'.pc = "clearing" /\ ~disc'.preserve
        /\ disc'.sock = disc.sock /\ disc'.active = disc.active
    BY <1>1, <1>4, <2>1 DEF ConnectionTypes, Activity
  <2>4. queue' \in Seq(Operations) /\ QueueOK(queue', attempts', disc'.pc)
    <3>1. Operation("clear", None, None, "disconnect") \in Operations
      BY DEF Operation, Operations, None
    <3>2. QueueOK(queue, attempts, "clearing")
      BY <1>1, QueueOthers DEF ConnInv
    <3>. QED  BY <1>1, <2>1, <2>3, <3>1, <3>2, QueueAppend DEF Operation, ConnectionTypes
  <2>5. ConnectionTypes'
    BY <1>1, <2>2, <2>3, <2>4 DEF ConnectionTypes
  <2>6. \A a \in Attempts : ~Active(a)'
    BY <1>1, <1>2 DEF Active
  <2>7. Known' /\ TimerInv' /\ SocketInv' /\ QueuedInv'
    BY <1>1, <2>2, <2>3, <2>6 DEF Known, TimerInv, SocketInv, QueuedInv, Resumable, Down, Follows
  <2>8. Down(disc)'
    BY <1>1, <2>2, <2>3, <2>6 DEF Down, Follows
  <2>9. DiscInv'
    BY <1>1, <2>2, <2>3, <2>6, <2>8 DEF ConnInv, DiscInv
  <2>10. RecInv' /\ Exclusive'
    BY <1>1 DEF ConnInv, RecInv, Exclusive
  <2>. QED  BY <2>4, <2>5, <2>7, <2>9, <2>10 DEF ConnInv
<1>. QED  BY <1>3, <1>4

LEMMA ReconnectDropsInv ==
    ASSUME ConnInv, ReconnectDrops PROVE ConnInv'
<1>1. /\ rec.pc = "closing" /\ Down(rec) /\ rt' = Dropped(rt, rec.sock)
      /\ rec' = [rec EXCEPT !.pc = "attempt"] /\ rt \in Fields /\ rec.sock \in Nat
      /\ UNCHANGED <<attempts, disc, queued, ws, bridge, queue, stored>>
  BY DEF ReconnectDrops, ConnInv, RecInv, ConnectionTypes, Activity
<1>0. rt.socket \in {None, rec.sock}
  BY <1>1 DEF Down
<1>2. /\ rt' \in Fields /\ rt'.socket = None
      /\ rt'.connecting = rt.connecting /\ rt'.abort = rt.abort
      /\ rt'.handshake = rt.handshake /\ rt'.timer = rt.timer /\ rt'.manual = rt.manual
  BY <1>0, <1>1, DroppedFacts
<1>3. /\ rec' \in Activity /\ rec'.pc = "attempt"
      /\ rec'.sock = rec.sock /\ rec'.active = rec.active
  BY <1>1 DEF ConnInv, ConnectionTypes, Activity
<1>4. ConnectionTypes'
  BY <1>1, <1>2, <1>3 DEF ConnInv, ConnectionTypes
<1>5. \A a \in Attempts : Active(a)' <=> Active(a)
  BY <1>1 DEF Active
<1>6. Known'
  BY <1>1, <1>2, <1>5 DEF ConnInv, Known
<1>7. Down(rec)'
  BY <1>1, <1>2, <1>3, <1>5 DEF Down
<1>8. TimerInv' /\ SocketInv' /\ RecInv' /\ QueuedInv'
  BY <1>2, <1>3, <1>7 DEF TimerInv, SocketInv, RecInv, QueuedInv, Resumable, Down
<1>9. disc.pc \notin {"closing", "clearing"}
  BY <1>1 DEF ConnInv, Exclusive
<1>10. DiscInv' /\ Exclusive' /\ QueueOK(queue', attempts', disc'.pc)
  BY <1>1, <1>9 DEF ConnInv, DiscInv, Exclusive
<1>. QED  BY <1>4, <1>6, <1>8, <1>10 DEF ConnInv

LEMMA Next1Type == ASSUME ConnInv PROVE Next1 \in Nat
<1>1. IsFiniteSet(Attempts)
  BY WebConnectionAssumption, FS_Interval DEF WebConnectionAssumption, Attempts
<1>2. IsFiniteSet(Used)
  BY <1>1, FS_Subset DEF Used
<1>. QED  BY <1>2, FS_CardinalityType DEF Next1

LEMMA ReconnectConnectsInv ==
    ASSUME ConnInv, ReconnectConnects PROVE ConnInv'
<1>1. /\ rec.pc = "attempt" /\ AttemptOver(rec) /\ Down(rec) /\ rt.socket = None
      /\ UNCHANGED <<disc, queued, ws, bridge, queue, stored>>
      /\ ConnectionTypes /\ disc.pc \notin {"closing", "clearing"}
  BY DEF ReconnectConnects, ConnInv, RecInv, Exclusive
<1>2. \A a \in Attempts : ~Active(a)
  BY <1>1, AttemptsAreNumbers DEF AttemptOver, Down
<1> DEFINE r == [rt EXCEPT !.manual = FALSE]
<1>3. r \in Fields /\ r.socket = None /\ ~r.timer
  BY <1>1 DEF ConnectionTypes, Fields, Down
<1>4. rt' = Begun(r, Next1, TRUE) /\ BeginAttempt(Next1, FALSE, TRUE)
  BY DEF ReconnectConnects
<1>. HIDE DEF r
<1>5. rec' \in Activity /\ rec'.pc = "connecting"
  BY Next1Type DEF ReconnectConnects, Idle, Activity, None
<1>. QED  BY <1>1, <1>2, <1>3, <1>4, <1>5, Next1Type, BeginStep DEF ConnectionTypes

LEMMA ReconnectEndsInv ==
    ASSUME ConnInv, ReconnectEnds PROVE ConnInv'
<1>1. /\ rec.pc = "connecting" /\ rec' = Idle
      /\ UNCHANGED <<rt, attempts, disc, queued, ws, bridge, queue, stored>>
  BY DEF ReconnectEnds
<1>2. \A a \in Attempts : Active(a)' <=> Active(a)
  BY <1>1 DEF Active
<1>3. ConnectionTypes' /\ Known' /\ TimerInv' /\ SocketInv'
  BY <1>1, <1>2, IdleType DEF ConnInv, ConnectionTypes, Known, TimerInv, SocketInv
<1>4. Down(disc) => Down(disc)'
  BY <1>1, <1>2 DEF Down
<1>5. DiscInv' /\ RecInv' /\ Exclusive'
  BY <1>1, <1>2, <1>4, IdleType DEF ConnInv, DiscInv, RecInv, Exclusive
<1>6. QueuedInv'
  BY <1>1, <1>2 DEF ConnInv, QueuedInv, Resumable
<1>. QED  BY <1>1, <1>3, <1>5, <1>6 DEF ConnInv

\* connect begins when it may, and finds that no socket is left.
LEMMA ConnectBeginsInv ==
    ASSUME ConnInv, MayBegin, rt.socket = None, NEW fresh \in BOOLEAN, ConnectBegins(fresh),
           UNCHANGED <<disc, rec, ws, queue, stored>>, queued' \in BOOLEAN
    PROVE  ConnInv'
<1>1. \A a \in Attempts : ~Active(a)
  BY AttemptsAreNumbers DEF MayBegin, ConnInv, Known
<1> DEFINE r == CancelReconnect(rt)
<1>2. r \in Fields /\ r.socket = None /\ ~r.timer
  BY CancelFacts DEF ConnInv, ConnectionTypes
<1>3. rt' = Begun(r, Next1, FALSE) /\ BeginAttempt(Next1, FALSE, fresh)
  BY DEF ConnectBegins
<1>. HIDE DEF r
<1>4. /\ rec' \in Activity /\ rec'.pc \notin {"closing", "attempt"}
      /\ disc.pc \notin {"closing", "clearing"}
  BY DEF MayBegin, ConnInv, ConnectionTypes
<1>. QED  BY <1>1, <1>2, <1>3, <1>4, Next1Type, BeginStep

LEMMA QueuedConnectInv ==
    ASSUME ConnInv, QueuedConnect PROVE ConnInv'
<1>1. /\ queued /\ disc.pc = "idle" /\ queued' = FALSE
      /\ UNCHANGED <<disc, rec, ws, bridge, queue, stored>>
  BY DEF QueuedConnect
<1>2. CASE MayBegin
  <2>1. Resumable /\ \A a \in Attempts : ~Active(a)
    BY <1>1, <1>2, AttemptsAreNumbers DEF Resumable, MayBegin, ConnInv, Known
  <2>2. rt.socket = None
    BY <2>1 DEF ConnInv, QueuedInv
  <2>. QED  BY <1>1, <1>2, <2>2, ConnectBeginsInv DEF QueuedConnect
<1>3. CASE UNCHANGED <<rt, attempts>>
  <2>1. \A a \in Attempts : Active(a)' <=> Active(a)
    BY <1>3 DEF Active
  <2>2. Down(disc) => Down(disc)'
    BY <1>1, <1>3, <2>1 DEF Down
  <2>3. Down(rec) => Down(rec)'
    BY <1>1, <1>3, <2>1 DEF Down
  <2>. QED  BY <1>1, <1>3, <2>1, <2>2, <2>3
            DEF ConnInv, ConnectionTypes, Known, TimerInv, SocketInv, DiscInv, RecInv,
                Exclusive, QueuedInv, Resumable
<1>. QED  BY <1>2, <1>3 DEF QueuedConnect

-----------------------------------------------------------------------------
(* The events. *)

\* An event that changes the fields, the sockets and the queue only.
LEMMA QuietStep ==
    ASSUME ConnInv, Quiet, rt' \in Fields, Follows(rt, rt'),
           disc.pc \in {"closing", "clearing"} => /\ rt'.state \in {rt.state, "error"}
                                                  /\ rt'.session \in {rt.session, None},
           ws' \in [Attempts -> SocketStates],
           \A a \in Attempts : ws'[a] \in Live => ws[a] \in Live,
           UNCHANGED <<attempts, disc, rec, queued>>,
           stored' \in Nat, queue' \in Seq(Operations),
           QueueOK(queue', attempts, disc.pc)
    PROVE  ConnInv'
<1>1. ConnectionTypes'
  BY DEF ConnInv, ConnectionTypes
<1>2. ~(queued' /\ disc'.pc = "idle")
  BY DEF Quiet
<1>3. Onward(disc, disc') /\ Onward(rec, rec')
  BY DEF Onward
<1>4. \A a \in Attempts : /\ attempts'[a].pc = attempts[a].pc
                          /\ attempts[a].aborted => attempts'[a].aborted
  OBVIOUS
<1>. QED  BY <1>1, <1>2, <1>3, <1>4, EventStep

LEMMA Unpacked ==
    ASSUME ConnInv
    PROVE  /\ rt \in Fields /\ ws \in [Attempts -> SocketStates] /\ stored \in Nat
           /\ queue \in Seq(Operations) /\ QueueOK(queue, attempts, disc.pc)
           /\ rt.socket \in Nat /\ Follows(rt, rt)
           /\ \A a \in Attempts : ws[a] \in Live =>
                 disc.pc \notin {"closing", "clearing"} /\ NoDisconnect(queue)
<1>1. /\ rt \in Fields /\ ws \in [Attempts -> SocketStates] /\ stored \in Nat
      /\ queue \in Seq(Operations) /\ QueueOK(queue, attempts, disc.pc)
  BY DEF ConnInv, ConnectionTypes
<1>2. rt.socket \in Nat /\ Follows(rt, rt)
  BY <1>1 DEF Fields, Follows
<1>3. \A a \in Attempts : ws[a] \in Live => disc.pc \notin {"closing", "clearing"}
  BY DEF ConnInv, DiscInv, Down
<1>. QED  BY <1>1, <1>2, <1>3, NothingQueued

LEMMA ConnectInv ==
    ASSUME ConnInv, Quiet, Connect, ~Eager PROVE ConnInv'
<1>1. /\ UNCHANGED <<disc, rec, ws, bridge, queue, stored>>
      /\ rt.socket = None \/ disc.pc # "idle"
  BY DEF Connect
<1>2. CASE disc.pc # "idle" /\ queued' = TRUE /\ UNCHANGED <<rt, attempts>>
  <2>1. ConnectionTypes'
    BY <1>1, <1>2 DEF ConnInv, ConnectionTypes
  <2>2. Follows(rt, rt') /\ Onward(disc, disc') /\ Onward(rec, rec')
    BY <1>1, <1>2 DEF Follows, Onward
  <2>3. QueueOK(queue', attempts', disc'.pc)
    BY <1>1, <1>2 DEF ConnInv
  <2>. QED  BY <1>1, <1>2, <2>1, <2>2, <2>3, EventStep
<1>3. CASE MayBegin /\ queued' = queued /\ \E fresh \in BOOLEAN : ConnectBegins(fresh)
  <2>1. rt.socket = None
    BY <1>1, <1>3 DEF MayBegin
  <2>2. queued' \in BOOLEAN
    BY <1>3 DEF ConnInv, ConnectionTypes
  <2>. QED  BY <1>1, <1>3, <2>1, <2>2, ConnectBeginsInv
<1>. QED  BY <1>2, <1>3 DEF Connect

LEMMA DisconnectInv ==
    ASSUME ConnInv, Quiet, Disconnect PROVE ConnInv'
<1>. PICK preserve \in BOOLEAN :
        /\ disc.pc = "idle"
        /\ \/ /\ rec.pc = "idle"
              /\ DisconnectStarts(preserve)
           \/ /\ rec.pc # "idle"
              /\ disc' = [Idle EXCEPT !.pc = "waiting", !.preserve = preserve]
              /\ UNCHANGED <<rt, attempts, rec, queued, ws, bridge, queue, stored>>
  BY DEF Disconnect
<1>1. CASE rec.pc = "idle"
  BY <1>1, DisconnectStartsInv
<1>2. CASE rec.pc # "idle"
  <2>1. disc' \in Activity /\ disc'.pc = "waiting"
    <3>1. disc' = [Idle EXCEPT !.pc = "waiting", !.preserve = preserve]
      BY <1>2
    <3>. QED  BY <3>1, IdleType DEF Activity
  <2>2. ConnectionTypes'
    BY <1>2, <2>1 DEF ConnInv, ConnectionTypes
  <2>3. Follows(rt, rt') /\ Onward(disc, disc') /\ Onward(rec, rec')
    BY <1>2, <2>1 DEF Follows, Onward
  <2>4. QueueOK(queue', attempts', disc'.pc)
    BY <1>2, NothingQueued, QueueOthers DEF ConnInv
  <2>. QED  BY <1>2, <2>1, <2>2, <2>3, <2>4, EventStep
<1>. QED  BY <1>1, <1>2

LEMMA ReconnectInv ==
    ASSUME ConnInv, Quiet, Reconnect PROVE ConnInv'
<1>1. /\ rec.pc = "idle" /\ rec' = [Idle EXCEPT !.pc = "entered"]
      /\ UNCHANGED <<rt, attempts, disc, queued, ws, bridge, queue, stored>>
  BY DEF Reconnect
<1>2. rec' \in Activity /\ rec'.pc = "entered"
  BY <1>1 DEF Idle, Activity, None
<1>3. ConnectionTypes'
  BY <1>1, <1>2 DEF ConnInv, ConnectionTypes
<1>4. Follows(rt, rt') /\ Onward(disc, disc') /\ Onward(rec, rec')
  BY <1>1, <1>2 DEF Follows, Onward
<1>5. QueueOK(queue', attempts', disc'.pc) /\ ~(queued' /\ disc'.pc = "idle")
  BY <1>1 DEF ConnInv, Quiet
<1>. QED  BY <1>1, <1>3, <1>4, <1>5, EventStep

LEMMA CallerAbortsInv ==
    ASSUME ConnInv, Quiet, NEW a \in Attempts, CallerAborts(a) PROVE ConnInv'
<1>1. /\ rt' = Abort(rt, a) /\ ws' = AbortCloses(ws, a)
      /\ attempts' = [attempts EXCEPT ![a].aborted = TRUE]
      /\ UNCHANGED <<disc, rec, queued, bridge, queue, stored>>
  BY AttemptsAreNumbers DEF CallerAborts, Aborted
<1>2. /\ rt' \in Fields /\ Follows(rt, rt') /\ rt'.session = rt.session
      /\ rt'.state \in {rt.state, "error"}
  BY <1>1, Unpacked, AbortFacts, AttemptsAreNumbers
<1>3. /\ attempts' \in [Attempts -> Attempt]
      /\ \A b \in Attempts : /\ attempts'[b].pc = attempts[b].pc
                             /\ attempts[b].aborted => attempts'[b].aborted
  BY <1>1 DEF ConnInv, ConnectionTypes, Attempt
<1>4. /\ ws' \in [Attempts -> SocketStates]
      /\ \A b \in Attempts : ws'[b] \in Live => ws[b] \in Live
  BY <1>1, Unpacked, ClosedFacts, AttemptsAreNumbers DEF AbortCloses
<1>5. ConnectionTypes'
  BY <1>1, <1>2, <1>3, <1>4 DEF ConnInv, ConnectionTypes
<1>6. QueueOK(queue', attempts', disc'.pc) /\ ~(queued' /\ disc'.pc = "idle")
  BY <1>1, <1>3, Unpacked, QueueOthers DEF Quiet
<1>7. Onward(disc, disc') /\ Onward(rec, rec')
  BY <1>1 DEF Onward
<1>. QED  BY <1>1, <1>2, <1>3, <1>4, <1>5, <1>6, <1>7, EventStep

LEMMA ReconnectTimerFiresInv ==
    ASSUME ConnInv, Quiet, ReconnectTimerFires PROVE ConnInv'
<1>1. /\ rt.timer /\ rt.socket = None
      /\ UNCHANGED <<disc, rec, queued, ws, bridge, queue, stored>>
      /\ ConnectionTypes
  BY DEF ReconnectTimerFires, ConnInv, TimerInv
<1>2. \A a \in Attempts : ~Active(a)
  BY <1>1 DEF ConnInv, TimerInv, Quiet
<1>3. disc.pc \notin {"closing", "clearing"} /\ rec.pc \notin {"closing", "attempt"}
  BY <1>1 DEF ConnInv, DiscInv, RecInv, Down
<1> DEFINE r == [rt EXCEPT !.timer = FALSE]
<1>4. r \in Fields /\ r.socket = None /\ ~r.timer
  BY <1>1 DEF ConnectionTypes, Fields
<1>5. rt' = Begun(r, Next1, TRUE) /\ BeginAttempt(Next1, TRUE, FALSE)
  BY DEF ReconnectTimerFires
<1>. HIDE DEF r
<1>6. rec' \in Activity /\ rec'.pc \notin {"closing", "attempt"} /\ queued' \in BOOLEAN
  BY <1>1, <1>3 DEF ConnectionTypes
<1>. QED  BY <1>1, <1>2, <1>3, <1>4, <1>5, <1>6, Next1Type, BeginStep

LEMMA ConnectTimesOutInv ==
    ASSUME ConnInv, Quiet, ConnectTimesOut PROVE ConnInv'
<1> DEFINE r == [rt EXCEPT !.connectTimer = None]
<1>1. /\ r \in Fields /\ Follows(rt, r) /\ r.state = rt.state /\ r.session = rt.session
  BY Unpacked DEF Fields, Follows, None
<1>2. /\ UNCHANGED <<attempts, disc, rec, queued, bridge, queue, stored>>
      /\ \/ rt' = Failed(r, "retryable") /\ ws' = Closed(ws, rt.socket)
         \/ rt' = r /\ ws' = ws
  BY DEF ConnectTimesOut
<1>. HIDE DEF r
<1>3. /\ rt' \in Fields /\ Follows(r, rt')
      /\ rt'.session = rt.session /\ rt'.state \in {rt.state, "error"}
  BY <1>1, <1>2, FailedFacts DEF Outcomes, Follows
<1>4. /\ ws' \in [Attempts -> SocketStates]
      /\ \A a \in Attempts : ws'[a] \in Live => ws[a] \in Live
  BY <1>2, Unpacked, ClosedFacts
<1>. QED  BY <1>1, <1>2, <1>3, <1>4, Unpacked, FollowsTrans, QuietStep

LEMMA CloseWaitExpiresInv ==
    ASSUME ConnInv, Quiet, CloseWaitExpires PROVE ConnInv'
<1>1. /\ UNCHANGED <<rt, attempts, queued, ws, bridge, queue, stored>>
      /\ \/ disc' = [disc EXCEPT !.waited = TRUE] /\ rec' = rec
         \/ rec' = [rec EXCEPT !.waited = TRUE] /\ disc' = disc
  BY DEF CloseWaitExpires
<1>2. /\ disc' \in Activity /\ Onward(disc, disc') /\ disc'.pc = disc.pc
      /\ rec' \in Activity /\ Onward(rec, rec')
  BY <1>1 DEF ConnInv, ConnectionTypes, Activity, Onward
<1>3. ConnectionTypes'
  BY <1>1, <1>2 DEF ConnInv, ConnectionTypes
<1>4. QueueOK(queue', attempts', disc'.pc) /\ ~(queued' /\ disc'.pc = "idle")
  BY <1>1, <1>2 DEF ConnInv, Quiet
<1>. QED  BY <1>1, <1>2, <1>3, <1>4, Unpacked, EventStep

-----------------------------------------------------------------------------
(* The socket. *)

LEMMA ProtocolFailureFacts ==
    ASSUME ConnInv, NEW a \in Nat, ProtocolFailure(a)
    PROVE  /\ rt' \in Fields /\ Follows(rt, rt') /\ rt'.session = rt.session
           /\ rt'.state = "error"
           /\ ws' \in [Attempts -> SocketStates]
           /\ \A b \in Attempts : ws'[b] \in Live => ws[b] \in Live
  BY Unpacked, FailedForGoodFacts, ClosedFacts DEF ProtocolFailure

LEMMA SocketOpensInv ==
    ASSUME ConnInv, Quiet, NEW a \in Attempts, SocketOpens(a) PROVE ConnInv'
<1> DEFINE opened == [ws EXCEPT ![a] = "open"]
           named  == [rt EXCEPT !.connectId = a]
<1>1. /\ UNCHANGED <<attempts, disc, rec, queued, queue, stored>>
      /\ ws[a] = "connecting"
      /\ \/ rt' = named /\ ws' = opened
         \/ rt' = FailedForGood(named) /\ ws' = Closed(opened, a)
  BY DEF SocketOpens
<1>2. named \in Fields /\ Follows(rt, named)
      /\ named.state = rt.state /\ named.session = rt.session
  BY Unpacked, AttemptsAreNumbers DEF Fields, Follows
<1>3. /\ opened \in [Attempts -> SocketStates]
      /\ \A b \in Attempts : opened[b] \in Live => ws[b] \in Live
  BY <1>1, Unpacked DEF SocketStates, Live
<1>. HIDE DEF opened, named
<1>4. /\ rt' \in Fields /\ Follows(named, rt')
      /\ rt'.session = rt.session /\ rt'.state \in {rt.state, "error"}
  BY <1>1, <1>2, FailedForGoodFacts DEF Follows
<1>5. /\ ws' \in [Attempts -> SocketStates]
      /\ \A b \in Attempts : ws'[b] \in Live => ws[b] \in Live
  BY <1>1, <1>3, ClosedFacts, AttemptsAreNumbers
<1>. QED  BY <1>1, <1>2, <1>4, <1>5, Unpacked, FollowsTrans, QuietStep

LEMMA SocketClosedFacts ==
    ASSUME NEW r \in Fields, NEW a, r.socket = a
    PROVE  LET s == SocketClosed(r, a)
           IN  /\ s \in Fields /\ s.socket = None
               /\ s.connecting = r.connecting /\ s.abort = r.abort
               /\ s.handshake = r.handshake /\ s.manual = r.manual
               /\ s.session = r.session
               /\ r.manual => s.timer = r.timer /\ s.state = "disconnected"
               /\ r.handshake \in Attempts => s.hs[r.handshake] # "pending"
<1> DEFINE q == Rejected(r, "retryable")
           left == [q EXCEPT !.socket = None, !.approval = FALSE]
           gone == [left EXCEPT !.state = "disconnected"]
           held == [left EXCEPT !.suppress = FALSE, !.state = "error"]
<1>1. /\ q \in Fields /\ Follows(r, q) /\ q.session = r.session
      /\ r.handshake \in Attempts => q.hs[r.handshake] # "pending"
  BY RejectedFacts DEF Outcomes
<1>. HIDE DEF q
<1>2. /\ left \in Fields /\ left.socket = None
      /\ left.connecting = r.connecting /\ left.abort = r.abort
      /\ left.handshake = r.handshake /\ left.manual = r.manual
      /\ left.session = r.session /\ left.timer = r.timer /\ left.hs = q.hs
  BY <1>1 DEF Fields, Follows, None
<1>. HIDE DEF left
<1>3. ASSUME NEW s \in {gone, held}
      PROVE  /\ s \in Fields /\ s.socket = None
             /\ s.connecting = r.connecting /\ s.abort = r.abort
             /\ s.handshake = r.handshake /\ s.manual = r.manual
             /\ s.session = r.session /\ s.timer = r.timer /\ s.hs = q.hs
  BY <1>2, <1>3 DEF Fields, States
<1>4. gone.state = "disconnected"
  BY <1>2 DEF Fields
<1>5. SocketClosed(r, a) = IF r.manual THEN gone
                           ELSE IF r.suppress THEN held ELSE Scheduled(gone)
  <2>1. left.manual = r.manual
    BY <1>2
  <2>. QED  BY Zenon DEF SocketClosed, left, q
<1>. HIDE DEF gone, held
<1>6. CASE r.manual
  BY <1>1, <1>3, <1>4, <1>5, <1>6
<1>7. CASE ~r.manual /\ r.suppress
  BY <1>1, <1>3, <1>5, <1>7
<1>8. CASE ~r.manual /\ ~r.suppress
  BY <1>1, <1>3, <1>5, <1>8, ScheduledFacts
<1>. QED  BY <1>6, <1>7, <1>8

LEMMA SocketClosesInv ==
    ASSUME ConnInv, Quiet, NEW a \in Attempts, SocketCloses(a) PROVE ConnInv'
<1>1. /\ ws' = [ws EXCEPT ![a] = "closed"] /\ rt' = SocketClosed(rt, a)
      /\ UNCHANGED <<attempts, disc, rec, queued, bridge, queue, stored>>
  BY DEF SocketCloses
<1>2. /\ ws' \in [Attempts -> SocketStates]
      /\ \A b \in Attempts : ws'[b] \in Live => ws[b] \in Live /\ b # a
  BY <1>1, Unpacked DEF SocketStates, Live
<1>3. CASE rt.socket # a
  <2>1. rt' = rt
    BY <1>1, <1>3 DEF SocketClosed
  <2>. QED  BY <1>1, <1>2, <2>1, Unpacked, QuietStep
<1>4. CASE rt.socket = a
  <2>1. /\ rt' \in Fields /\ rt'.socket = None
        /\ rt'.connecting = rt.connecting /\ rt'.abort = rt.abort
        /\ rt'.handshake = rt.handshake /\ rt'.manual = rt.manual
        /\ rt'.session = rt.session
        /\ rt.manual => rt'.timer = rt.timer /\ rt'.state = "disconnected"
        /\ rt.handshake \in Attempts => rt'.hs[rt.handshake] # "pending"
    BY <1>1, <1>4, Unpacked, SocketClosedFacts
  <2>2. \A b \in Attempts : Active(b)' <=> Active(b)
    BY <1>1 DEF Active
  <2>3. ConnectionTypes'
    BY <1>1, <1>2, <2>1 DEF ConnInv, ConnectionTypes
  <2>4. Known' /\ SocketInv'
    BY <1>1, <1>2, <1>4, <2>1, <2>2 DEF ConnInv, Known, SocketInv
  <2>5. TimerInv'
    <3>1. \A b \in Attempts : Active(b) => attempts[b].pc = "handshake" /\ rt.handshake = b
      BY <1>4, AttemptsAreNumbers DEF ConnInv, Known
    <3>. QED  BY <1>1, <2>1, <2>2, <3>1 DEF TimerInv
  <2>6. Down(disc) => Down(disc)'
    BY <1>1, <1>2, <2>1, <2>2 DEF Down
  <2>7. Down(rec) => Down(rec)'
    BY <1>1, <1>2, <2>1, <2>2 DEF Down
  <2>8. DiscInv'
    BY <1>1, <2>1, <2>2, <2>6 DEF ConnInv, DiscInv, Down
  <2>9. RecInv' /\ Exclusive'
    BY <1>1, <2>1, <2>7 DEF ConnInv, RecInv, Exclusive
  <2>10. QueuedInv'
    BY <1>1 DEF QueuedInv, Resumable, Quiet
  <2>11. QueueOK(queue', attempts', disc'.pc)
    BY <1>1 DEF ConnInv
  <2>. QED  BY <2>3, <2>4, <2>5, <2>8, <2>9, <2>10, <2>11 DEF ConnInv
<1>. QED  BY <1>3, <1>4

LEMMA OperationType ==
    ASSUME NEW op \in {"load", "save", "clear"}, NEW a \in Nat, NEW handshake \in Nat,
           NEW for \in {"attempt", "welcome", "refusal", "leave", "disconnect", "cleanup"}
    PROVE  /\ Operation(op, a, handshake, for) \in Operations
           /\ Operation(op, a, handshake, for).op = op
           /\ Operation(op, a, handshake, for).for = for
  BY DEF Operation, Operations

\* A message has the store save or clear, behind what it does already.
LEMMA StoreIsAsked ==
    ASSUME ConnInv, NoDisconnect(queue), NEW op \in {"save", "clear"}, NEW a \in Nat,
           NEW handshake \in Nat, NEW for \in {"welcome", "refusal", "leave"}
    PROVE  LET q == Append(queue, Operation(op, a, handshake, for))
           IN  q \in Seq(Operations) /\ QueueOK(q, attempts, disc.pc)
<1> DEFINE o == Operation(op, a, handshake, for)
<1>1. o \in Operations /\ o.op = op /\ o.for = for
  BY OperationType
<1>. HIDE DEF o
<1>2. Append(queue, o) \in Seq(Operations) /\ QueueOK(Append(queue, o), attempts, disc.pc)
  BY <1>1, Unpacked, QueueAppend
<1>. QED  BY <1>2 DEF o

LEMMA MessageInv ==
    ASSUME ConnInv, Quiet, NEW a \in Attempts, Message(a) PROVE ConnInv'
<1>0. a \in Nat /\ rt.handshake \in Nat /\ None \in Nat
  BY Unpacked, AttemptsAreNumbers DEF Fields, None
<1>1. /\ Delivers(a) /\ UNCHANGED <<attempts, disc, rec, queued, stored>>
      /\ disc.pc \notin {"closing", "clearing"} /\ NoDisconnect(queue)
  <2>1. Delivers(a) /\ UNCHANGED <<attempts, disc, rec, queued, stored>>
    BY DEF Message, ApprovalRequired, Welcome, Unexpected, Refused, BridgeDisconnects
  <2>2. disc.pc \notin {"closing", "clearing"} /\ NoDisconnect(queue)
    BY <2>1, Unpacked DEF Delivers, Live
  <2>. QED  BY <2>1, <2>2
<1>2. ASSUME NEW w, rt' = w, w \in Fields, Follows(rt, w),
             \/ ws' = ws
             \/ \E b \in Nat : ws' = Closed(ws, b),
             \/ queue' = queue
             \/ \E op \in {"save", "clear"}, for \in {"welcome", "refusal", "leave"} :
                  \E h \in Nat : queue' = Append(queue, Operation(op, a, h, for))
      PROVE  ConnInv'
  <2>1. ws' \in [Attempts -> SocketStates] /\ \A b \in Attempts : ws'[b] \in Live => ws[b] \in Live
    BY <1>2, Unpacked, ClosedFacts
  <2>2. queue' \in Seq(Operations) /\ QueueOK(queue', attempts, disc.pc)
    <3>1. CASE queue' = queue
      BY <3>1, Unpacked
    <3>2. CASE queue' # queue
      <4>. PICK op \in {"save", "clear"}, for \in {"welcome", "refusal", "leave"} :
               \E h \in Nat : queue' = Append(queue, Operation(op, a, h, for))
        BY <1>2, <3>2
      <4>. PICK h \in Nat : queue' = Append(queue, Operation(op, a, h, for))
        OBVIOUS
      <4>. QED  BY <1>0, <1>1, StoreIsAsked
    <3>. QED  BY <3>1, <3>2
  <2>. QED  BY <1>1, <1>2, <2>1, <2>2, Unpacked, QuietStep
<1>3. FailedForGood(rt) \in Fields /\ Follows(rt, FailedForGood(rt))
  BY Unpacked, FailedForGoodFacts
<1>4. Failed(rt, "retryable") \in Fields /\ Follows(rt, Failed(rt, "retryable"))
  BY Unpacked, FailedFacts DEF Outcomes
<1>5. CASE ApprovalRequired(a)
  <2> DEFINE s == [rt EXCEPT !.approval = TRUE, !.connectTimer = a,
                             !.state = "awaiting-approval"]
  <2>1. s \in Fields /\ Follows(rt, s)
    BY <1>0, Unpacked DEF Fields, States, Follows
  <2>. HIDE DEF s
  <2>2. /\ queue' = queue
        /\ \/ rt' = s /\ ws' = ws
           \/ rt' = FailedForGood(rt) /\ ws' = Closed(ws, a)
    BY <1>5 DEF ApprovalRequired, ProtocolFailure, s
  <2>. QED  BY <1>0, <1>2, <1>3, <2>1, <2>2
<1>6. CASE Welcome(a)
  <2>1. \/ /\ queue' = Append(queue, Operation("save", a, rt.handshake, "welcome"))
           /\ rt' = rt /\ ws' = ws
        \/ rt' = FailedForGood(rt) /\ ws' = Closed(ws, a) /\ queue' = queue
    BY <1>6 DEF Welcome, ProtocolFailure
  <2>. QED  BY <1>0, <1>2, <1>3, <2>1, Unpacked
<1>7. CASE Unexpected(a)
  <2>1. rt' = FailedForGood(rt) /\ ws' = Closed(ws, a) /\ queue' = queue
    BY <1>7 DEF Unexpected, ProtocolFailure
  <2>. QED  BY <1>0, <1>2, <1>3, <2>1
<1>8. CASE \E code \in RefusalCodes : Refused(a, code)
  <2> DEFINE s == ClearSession(FailedForGood(rt))
  <2>1. s \in Fields /\ Follows(rt, s)
    BY <1>3, ClearSessionFacts, FollowsTrans
  <2>. HIDE DEF s
  <2>2. /\ ws' = ws
        /\ \/ rt' = rt /\ queue' = queue
           \/ rt' = s /\ queue' = Append(queue, Operation("clear", a, None, "refusal"))
           \/ rt' = FailedForGood(rt) /\ queue' = queue
           \/ rt' = Failed(rt, "retryable") /\ queue' = queue
    BY <1>8 DEF Refused, RefusalCodes, s
  <2>. QED  BY <1>0, <1>2, <1>3, <1>4, <2>1, <2>2, Unpacked
<1>9. CASE \E canResume \in BOOLEAN : BridgeDisconnects(a, canResume)
  <2> DEFINE s == [ClearSession(rt) EXCEPT !.suppress = TRUE]
  <2>1. s \in Fields /\ Follows(rt, s)
    BY Unpacked DEF ClearSession, Fields, Follows, None
  <2>. HIDE DEF s
  <2>2. \/ ws' = Closed(ws, rt.socket) /\ rt' = rt /\ queue' = queue
        \/ /\ rt' = s /\ ws' = ws
           /\ queue' = Append(queue, Operation("clear", a, None, "leave"))
    BY <1>9 DEF BridgeDisconnects, s
  <2>. QED  BY <1>0, <1>2, <2>1, <2>2, Unpacked
<1>. QED  BY <1>5, <1>6, <1>7, <1>8, <1>9 DEF Message

LEMMA RegistrationsSettleInv ==
    ASSUME ConnInv, Quiet, RegistrationsSettle PROVE ConnInv'
<1>1. /\ rt' = [rt EXCEPT !.hs = [rt.hs EXCEPT ![rt.handshake] = "ok"]]
      /\ UNCHANGED <<attempts, disc, rec, queued, ws, bridge, queue, stored>>
  BY Zenon DEF RegistrationsSettle
<1>2. /\ [rt.hs EXCEPT ![rt.handshake] = "ok"] \in [Attempts -> Outcomes]
      /\ \A b \in Attempts : [rt.hs EXCEPT ![rt.handshake] = "ok"][b] = "pending"
                               => rt.hs[b] = "pending"
  BY Unpacked DEF Fields, Outcomes
<1>3. /\ rt' \in Fields /\ Follows(rt, rt')
      /\ rt'.session = rt.session /\ rt'.state = rt.state
  BY <1>1, <1>2, Unpacked DEF Fields, Follows
<1>. QED  BY <1>1, <1>3, Unpacked, QuietStep

-----------------------------------------------------------------------------
(* The store. *)

LEMMA TailKeeps ==
    ASSUME NEW q \in Seq(Operations), q # <<>>, NoDisconnect(q) PROVE NoDisconnect(Tail(q))
<1>1. \A i \in 1..Len(Tail(q)) : Tail(q)[i] = q[i + 1] /\ i + 1 \in 1..Len(q)
  OBVIOUS
<1>. QED  BY <1>1 DEF NoDisconnect

\* What an operation that ends knows of itself and leaves behind.
LEMMA StoreFacts ==
    ASSUME ConnInv, queue # <<>>
    PROVE  LET h == Head(queue)
           IN  /\ h \in Operations /\ h.a \in Nat
               /\ Tail(queue) \in Seq(Operations)
               /\ QueueOK(Tail(queue), attempts, disc.pc)
               /\ disc.pc # "clearing" => NoDisconnect(Tail(queue))
               /\ h.for = "attempt" =>
                     /\ NoneWaits(Tail(queue)) /\ NoDisconnect(Tail(queue))
                     /\ h.a \in Attempts /\ attempts[h.a].pc = h.op
               /\ h.for = "disconnect" => Tail(queue) = <<>> /\ disc.pc = "clearing"
               /\ h.op = "load" => h.for = "attempt"
<1> DEFINE h == Head(queue)
<1>1. /\ h \in Operations /\ Tail(queue) \in Seq(Operations)
      /\ QueueOK(Tail(queue), attempts, disc.pc)
      /\ h.for = "attempt" =>
            /\ NoneWaits(Tail(queue))
            /\ h.a \in Attempts /\ attempts[h.a].pc = h.op
      /\ h.for = "disconnect" => Tail(queue) = <<>> /\ disc.pc = "clearing"
      /\ h.op = "load" => h.for = "attempt"
  BY Unpacked, QueueTail
<1>. HIDE DEF h
<1>2. h.a \in Nat /\ h.op \in {"load", "save", "clear"}
  BY <1>1 DEF Operations
<1>3. disc.pc # "clearing" => NoDisconnect(Tail(queue))
  BY Unpacked, NothingQueued, TailKeeps
<1>4. h.for = "attempt" => h.op \in {"load", "clear"}
  <2>1. 1 \in 1..Len(queue) /\ h = queue[1]
    BY Unpacked DEF h
  <2>. QED  BY <2>1, Unpacked DEF QueueOK
<1>5. h.for = "attempt" => disc.pc # "clearing"
  BY <1>1, <1>4, BeforeFacts DEF Before
<1>. QED  BY <1>1, <1>2, <1>3, <1>5 DEF h

LEMMA LoadedInv ==
    ASSUME ConnInv, Quiet, queue # <<>>, Head(queue).op = "load", NEW ok \in BOOLEAN,
           Loaded(Head(queue), ok), UNCHANGED <<rec, queued, bridge>>
    PROVE  ConnInv'
<1> DEFINE a == Head(queue).a
           q == Tail(queue)
<1>1. /\ a \in Attempts /\ attempts[a].pc = "load" /\ q \in Seq(Operations)
      /\ QueueOK(q, attempts, disc.pc) /\ NoneWaits(q) /\ NoDisconnect(q)
  BY StoreFacts
<1>2. \/ Fails(a, ClearSession(rt)) /\ queue' = q
      \/ WithSession(a, stored, q)
      \/ attempts' = [attempts EXCEPT ![a].pc = "token"] /\ queue' = q /\ UNCHANGED <<rt, ws>>
  BY DEF Loaded
<1>3. UNCHANGED <<disc, stored, rec, queued>>
  BY DEF Loaded
<1>. HIDE DEF a, q
<1>4. /\ attempts[a].pc \in Before /\ rt \in Fields /\ Follows(rt, rt) /\ stored \in Nat
      /\ ConnectionTypes
  BY <1>1, Unpacked DEF Before, ConnInv
<1>5. CASE Fails(a, ClearSession(rt)) /\ queue' = q
  <2>1. /\ ClearSession(rt) \in Fields /\ Follows(rt, ClearSession(rt))
        /\ ClearSession(rt).state = rt.state
    BY <1>4, ClearSessionFacts
  <2>. QED  BY <1>1, <1>3, <1>4, <1>5, <2>1, FailsInv
<1>6. CASE WithSession(a, stored, q)
  BY <1>1, <1>3, <1>4, <1>6, WithSessionInv
<1>7. CASE attempts' = [attempts EXCEPT ![a].pc = "token"] /\ queue' = q /\ UNCHANGED <<rt, ws>>
  <2>1. attempts' \in [Attempts -> Attempt]
    BY <1>1, <1>7, MovedTypes DEF Phases
  <2>2. ConnectionTypes'
    BY <1>1, <1>3, <1>4, <1>7, <2>1 DEF ConnectionTypes
  <2>3. QueueOK(queue', attempts', disc.pc)
    BY <1>1, <1>7, QueueOthers
  <2>4. Follows(rt, rt') /\ rt'.state = rt.state
    BY <1>4, <1>7
  <2>. QED  BY <1>1, <1>3, <1>4, <1>7, <2>2, <2>3, <2>4, MoveStep DEF Before
<1>. QED  BY <1>2, <1>5, <1>6, <1>7

LEMMA SavedInv ==
    ASSUME ConnInv, Quiet, queue # <<>>, NEW ok \in BOOLEAN,
           Saved(Head(queue), ok), UNCHANGED <<rec, queued, bridge>>
    PROVE  ConnInv'
<1> DEFINE h == Head(queue)
           q == Tail(queue)
<1>1. /\ h.a \in Nat /\ q \in Seq(Operations) /\ QueueOK(q, attempts, disc.pc)
      /\ disc.pc # "clearing" => NoDisconnect(q)
  BY StoreFacts
<1>2. /\ stored' \in {h.a, stored} /\ UNCHANGED <<attempts, disc, rec, queued>>
      /\ \/ queue' = q /\ UNCHANGED <<rt, ws>>
         \/ /\ IsPendingHandshake(h.a, h.handshake)
            /\ rt' = [rt EXCEPT !.approval = FALSE, !.session = h.a,
                                !.tries = 0, !.state = "connected"]
            /\ queue' = q /\ UNCHANGED ws
         \/ /\ IsPendingHandshake(h.a, h.handshake)
            /\ rt' = FailedForGood(ClearSession(rt))
            /\ ws' = Closed(ws, h.a)
            /\ queue' = Append(q, Operation("clear", h.a, None, "cleanup"))
  BY DEF Saved
<1>. HIDE DEF h, q
<1>3. stored' \in Nat
  BY <1>1, <1>2, Unpacked
<1>4. CASE queue' = q /\ UNCHANGED <<rt, ws>>
  BY <1>1, <1>2, <1>3, <1>4, Unpacked, QuietStep
<1>5. ASSUME IsPendingHandshake(h.a, h.handshake)
      PROVE  disc.pc \notin {"closing", "clearing"}
  BY <1>5 DEF IsPendingHandshake, ConnInv, DiscInv
<1>6. CASE /\ IsPendingHandshake(h.a, h.handshake)
           /\ rt' = [rt EXCEPT !.approval = FALSE, !.session = h.a,
                               !.tries = 0, !.state = "connected"]
           /\ queue' = q /\ UNCHANGED ws
  <2>1. rt' \in Fields /\ Follows(rt, rt')
    BY <1>1, <1>6, Unpacked DEF Fields, States, Follows
  <2>. QED  BY <1>1, <1>2, <1>3, <1>5, <1>6, <2>1, Unpacked, QuietStep
<1>7. CASE /\ IsPendingHandshake(h.a, h.handshake)
           /\ rt' = FailedForGood(ClearSession(rt))
           /\ ws' = Closed(ws, h.a)
           /\ queue' = Append(q, Operation("clear", h.a, None, "cleanup"))
  <2>1. rt' \in Fields /\ Follows(rt, rt')
    BY <1>7, Unpacked, ClearSessionFacts, FailedForGoodFacts, FollowsTrans
  <2>2. ws' \in [Attempts -> SocketStates] /\ \A b \in Attempts : ws'[b] \in Live => ws[b] \in Live
    BY <1>1, <1>7, Unpacked, ClosedFacts
  <2> DEFINE o == Operation("clear", h.a, None, "cleanup")
  <2>3. o \in Operations /\ o.op = "clear" /\ o.for = "cleanup"
    BY <1>1, OperationType DEF None
  <2>. HIDE DEF o
  <2>4. Append(q, o) \in Seq(Operations) /\ QueueOK(Append(q, o), attempts, disc.pc)
    BY <1>1, <1>5, <1>7, <2>3, QueueAppend
  <2>5. queue' = Append(q, o)
    BY <1>7 DEF o
  <2>. QED  BY <1>2, <1>3, <1>5, <1>7, <2>1, <2>2, <2>4, <2>5, Unpacked, QuietStep
<1>. QED  BY <1>2, <1>4, <1>6, <1>7

LEMMA ClearedInv ==
    ASSUME ConnInv, Quiet, queue # <<>>, Head(queue).op # "load", NEW ok \in BOOLEAN,
           Cleared(Head(queue), ok), UNCHANGED <<rec, queued, bridge>>
    PROVE  ConnInv'
<1> DEFINE h == Head(queue)
           q == Tail(queue)
<1>1. /\ h.a \in Nat /\ q \in Seq(Operations) /\ QueueOK(q, attempts, disc.pc)
      /\ h.for = "attempt" =>
            /\ NoneWaits(q) /\ NoDisconnect(q)
            /\ h.a \in Attempts /\ attempts[h.a].pc = h.op
      /\ h.for = "disconnect" => q = <<>> /\ disc.pc = "clearing"
      /\ h \in Operations
  BY StoreFacts
<1>0. h.for = "attempt" => h.op = "clear"
  <2>1. 1 \in 1..Len(queue) /\ h = queue[1]
    BY Unpacked
  <2>. QED  BY <2>1, Unpacked DEF QueueOK
<1>2. /\ stored' \in {None, stored} /\ queue' = q /\ UNCHANGED <<rec, queued>>
      /\ Cleared(h, ok)
  BY DEF Cleared
<1>. HIDE DEF h, q
<1>3. stored' \in Nat /\ rt.socket \in Nat /\ rt \in Fields /\ Follows(rt, rt)
  BY <1>2, Unpacked DEF None
<1>4. CASE h.for = "attempt"
  <2>1. /\ h.a \in Attempts /\ attempts[h.a].pc \in Before
        /\ NoneWaits(q) /\ NoDisconnect(q)
    BY <1>0, <1>1, <1>4 DEF Before
  <2>2. /\ disc' = disc
        /\ \/ Fails(h.a, rt)
           \/ attempts' = [attempts EXCEPT ![h.a].pc = "token"] /\ UNCHANGED <<rt, ws>>
    BY <1>2, <1>4 DEF Cleared
  <2>3. CASE Fails(h.a, rt)
    BY <1>1, <1>2, <1>3, <2>1, <2>2, <2>3, FailsInv
  <2>4. CASE attempts' = [attempts EXCEPT ![h.a].pc = "token"] /\ UNCHANGED <<rt, ws>>
    <3>1. attempts' \in [Attempts -> Attempt]
      BY <2>1, <2>4, MovedTypes DEF Phases
    <3>2. ConnectionTypes'
      BY <1>1, <1>2, <1>3, <2>2, <2>4, <3>1 DEF ConnInv, ConnectionTypes
    <3>3. QueueOK(queue', attempts', disc.pc)
      BY <1>1, <1>2, <2>1, QueueOthers
    <3>4. Follows(rt, rt') /\ rt'.state = rt.state
      BY <1>3, <2>4
    <3>. QED  BY <1>2, <2>1, <2>2, <2>4, <3>2, <3>3, <3>4, MoveStep DEF Before
  <2>. QED  BY <2>2, <2>3, <2>4
<1>5. CASE h.for = "disconnect"
  <2>1. rt' = Disconnected(rt) /\ disc' = Idle /\ UNCHANGED <<attempts, ws>>
    BY <1>2, <1>5 DEF Cleared
  <2>2. disc.pc = "clearing" /\ \A a \in Attempts : ~Active(a)
    BY <1>1, <1>5 DEF ConnInv, DiscInv
  <2>3. NoDisconnect(queue')
    BY <1>1, <1>2, <1>5 DEF NoDisconnect
  <2>. QED  BY <1>1, <1>2, <1>3, <2>1, <2>2, <2>3, DisconnectEnds
<1>6. CASE h.for = "leave"
  <2>1. /\ rt' \in {rt, Failed(rt, "final")} /\ ws' = Closed(ws, rt.socket)
        /\ UNCHANGED <<attempts, disc>>
    BY <1>2, <1>6 DEF Cleared
  <2>2. /\ rt' \in Fields /\ Follows(rt, rt') /\ rt'.session = rt.session
        /\ rt'.state \in {rt.state, "error"}
    BY <1>3, <2>1, FailedFacts DEF Outcomes
  <2>3. /\ ws' \in [Attempts -> SocketStates]
        /\ \A b \in Attempts : ws'[b] \in Live => ws[b] \in Live
    BY <1>3, <2>1, Unpacked, ClosedFacts
  <2>. QED  BY <1>1, <1>2, <1>3, <2>1, <2>2, <2>3, QuietStep
<1>7. CASE h.for \notin {"attempt", "disconnect", "leave"}
  <2>1. /\ UNCHANGED <<attempts, disc>>
        /\ ProtocolFailure(rt.socket) \/ UNCHANGED <<rt, ws>>
    BY <1>2, <1>7 DEF Cleared
  <2>2. /\ rt' \in Fields /\ Follows(rt, rt') /\ rt'.session = rt.session
        /\ rt'.state \in {rt.state, "error"}
        /\ ws' \in [Attempts -> SocketStates]
        /\ \A b \in Attempts : ws'[b] \in Live => ws[b] \in Live
    BY <1>3, <2>1, Unpacked, ProtocolFailureFacts
  <2>. QED  BY <1>1, <1>2, <1>3, <2>1, <2>2, QuietStep
<1>. QED  BY <1>4, <1>5, <1>6, <1>7

LEMMA StoreEndsInv ==
    ASSUME ConnInv, Quiet, StoreEnds PROVE ConnInv'
<1>1. queue # <<>> /\ UNCHANGED <<rec, queued, bridge>>
  BY DEF StoreEnds
<1>2. PICK ok \in BOOLEAN :
        CASE Head(queue).op = "load" -> Loaded(Head(queue), ok)
          [] Head(queue).op = "save" -> Saved(Head(queue), ok)
          [] OTHER -> Cleared(Head(queue), ok)
  BY DEF StoreEnds
<1>3. CASE Head(queue).op = "load"
  BY <1>1, <1>2, <1>3, LoadedInv
<1>4. CASE Head(queue).op = "save"
  BY <1>1, <1>2, <1>4, SavedInv
<1>5. CASE Head(queue).op \notin {"load", "save"}
  BY <1>1, <1>2, <1>5, ClearedInv
<1>. QED  BY <1>3, <1>4, <1>5

-----------------------------------------------------------------------------
(* The theorems. *)

LEMMA InitConnInv == ASSUME Init PROVE ConnInv
<1>1. rt \in Fields
  BY DEF Init, Fields, States, Outcomes, None
<1>2. Unused \in Attempt
  BY DEF Unused, Attempt, Phases
<1>3. ConnectionTypes
  <2>1. attempts \in [Attempts -> Attempt] /\ ws \in [Attempts -> SocketStates]
    BY <1>2 DEF Init, SocketStates
  <2>2. queue \in Seq(Operations) /\ stored \in Nat
    BY DEF Init, None
  <2>3. disc \in Activity /\ rec \in Activity /\ queued \in BOOLEAN
    BY IdleType DEF Init
  <2>. QED  BY <1>1, <2>1, <2>2, <2>3 DEF ConnectionTypes
<1>4. \A a \in Attempts : ~Active(a)
  BY DEF Init, Active, Unused
<1>5. Known /\ TimerInv /\ SocketInv /\ QueuedInv
  BY <1>4 DEF Init, Known, TimerInv, SocketInv, QueuedInv, Live
<1>6. DiscInv /\ RecInv /\ Exclusive
  BY IdleType DEF Init, DiscInv, RecInv, Exclusive
<1>7. QueueOK(queue, attempts, disc.pc)
  BY DEF Init, QueueOK
<1>. QED  BY <1>3, <1>5, <1>6, <1>7 DEF ConnInv

LEMMA DisconnectFollowsInv ==
    ASSUME ConnInv, DisconnectFollows PROVE ConnInv'
<1>1. disc.preserve \in BOOLEAN
  BY DEF ConnInv, ConnectionTypes, Activity
<1>. QED  BY <1>1, DisconnectStartsInv DEF DisconnectFollows

LEMMA StillConnInv ==
    ASSUME ConnInv, UNCHANGED vars PROVE ConnInv'
<1>1. \A a \in Attempts : Active(a)' <=> Active(a)
  BY DEF vars, Active
<1>2. Down(disc) => Down(disc)'
  BY <1>1 DEF vars, Down
<1>3. Down(rec) => Down(rec)'
  BY <1>1 DEF vars, Down
<1>4. ConnectionTypes' /\ Known' /\ TimerInv' /\ SocketInv' /\ Exclusive'
  BY <1>1 DEF vars, ConnInv, ConnectionTypes, Known, TimerInv, SocketInv, Exclusive
<1>5. DiscInv' /\ RecInv' /\ QueuedInv'
  BY <1>1, <1>2, <1>3 DEF vars, ConnInv, DiscInv, RecInv, QueuedInv, Resumable
<1>6. QueueOK(queue', attempts', disc'.pc)
  BY DEF vars, ConnInv
<1>. QED  BY <1>4, <1>5, <1>6 DEF ConnInv

LEMMA NextConnInv ==
    ASSUME ~Eager, ConnInv, [Next]_vars PROVE ConnInv'
<1>1. CASE Continuation
  BY <1>1, AuthenticatesInv, SettlesInv, DisconnectFollowsInv, DisconnectClosesInv,
     ReconnectStartsInv, ReconnectDropsInv, ReconnectConnectsInv, ReconnectEndsInv,
     QueuedConnectInv DEF Continuation
<1>2. CASE Quiet /\ Application
  BY <1>2, ConnectInv, DisconnectInv, ReconnectInv, CallerAbortsInv DEF Application
<1>3. CASE Quiet /\ Timers
  BY <1>3, ReconnectTimerFiresInv, ConnectTimesOutInv, CloseWaitExpiresInv DEF Timers
<1>4. CASE Quiet /\ Awaited
  BY <1>4, StoreEndsInv, PreparedInv, TokenGivenInv DEF Awaited
<1>5. CASE Quiet /\ RegistrationsSettle
  BY <1>5, RegistrationsSettleInv
<1>6. CASE Quiet /\ \E a \in Attempts : SocketOpens(a) \/ SocketCloses(a) \/ Message(a)
  BY <1>6, SocketOpensInv, SocketClosesInv, MessageInv
<1>7. CASE UNCHANGED vars
  BY <1>7, StillConnInv
<1>. QED  BY <1>1, <1>2, <1>3, <1>4, <1>5, <1>6, <1>7 DEF Next

\* The inductive invariant of the connection: what the object's fields say of the attempt,
\* the sockets, the timer, disconnect and reconnect in progress, and the queue is true.
THEOREM FieldsTellTheTruth ==
    ASSUME ~Eager PROVE Spec => []ConnInv
<1>1. Init => ConnInv
  BY InitConnInv
<1>2. ConnInv /\ [Next]_vars => ConnInv'
  BY NextConnInv
<1>. QED  BY <1>1, <1>2, PTL DEF Spec

\* Two attempts are never in progress: connect, reconnect and the reconnection timer
\* begin one (#beginConnect) only when the former has ended.
THEOREM AttemptsOneByOne ==
    ASSUME ~Eager PROVE Spec => []OneAttempt
<1>1. ConnInv => OneAttempt
  <2> SUFFICES ASSUME ConnInv PROVE OneAttempt
    OBVIOUS
  <2> DEFINE A == {a \in Attempts : Active(a)}
  <2>1. A \subseteq {rt.connecting}
    BY DEF ConnInv, Known
  <2>2. /\ IsFiniteSet({rt.connecting}) /\ Cardinality({rt.connecting}) = 1
    BY FS_Singleton
  <2>3. IsFiniteSet(A) /\ Cardinality(A) <= 1
    BY <2>1, <2>2, FS_Subset
  <2>. QED  BY <2>3 DEF OneAttempt
<1>. QED  BY <1>1, FieldsTellTheTruth, PTL

\* Nothing is left of a connection when disconnect has cleared the store: what it took
\* down has stayed down while it waited.
THEOREM NothingLeft ==
    ASSUME ~Eager PROVE Spec => DisconnectForgets
<1> DEFINE Forgets ==
      (disc.pc = "clearing" /\ disc'.pc = "idle" /\ stored' = None)
         => /\ rt'.session = None /\ ~rt'.timer /\ rt'.socket = None
            /\ \A a \in Attempts : /\ attempts'[a].pc \in {"unused", "ended"}
                                   /\ ws'[a] \in {"none", "closing", "closed"}
            /\ queue' = <<>>
<1>1. ASSUME ConnInv, [Next]_vars PROVE [Forgets]_vars
  <2> SUFFICES ASSUME Next, disc.pc = "clearing", disc'.pc = "idle" PROVE Forgets
    BY <1>1
  <2>1. ~disc.preserve /\ Down(disc) /\ \A a \in Attempts : ~Active(a)
    BY <1>1 DEF ConnInv, DiscInv
  <2>2. StoreEnds
    <3>1. ~Continuation
      BY DEF Continuation, Authenticates, Settles, DisconnectFollows, DisconnectCloses,
             ReconnectStarts, ReconnectDrops, ReconnectConnects, ReconnectEnds,
             QueuedConnect
    <3>2. ~Application
      BY DEF Application, Connect, Disconnect, Reconnect, CallerAborts
    <3>3. ~Timers
      BY DEF Timers, ReconnectTimerFires, ConnectTimesOut, CloseWaitExpires, Overdue
    <3>4. ~RegistrationsSettle /\ \A a \in Attempts : ~Prepared(a) /\ ~TokenGiven(a)
      BY DEF RegistrationsSettle, Prepared, TokenGiven
    <3>5. \A a \in Attempts : ~(SocketOpens(a) \/ SocketCloses(a) \/ Message(a))
      BY DEF SocketOpens, SocketCloses, Message, ApprovalRequired, Welcome, Unexpected,
             Refused, BridgeDisconnects
    <3>. QED  BY <3>1, <3>2, <3>3, <3>4, <3>5 DEF Next, Awaited
  <2>3. PICK ok \in BOOLEAN : Cleared(Head(queue), ok)
    BY <2>2 DEF StoreEnds, Loaded, Saved
  <2>4. Head(queue).for = "disconnect"
    BY <2>3 DEF Cleared
  <2>5. rt' = Disconnected(rt) /\ queue' = Tail(queue) /\ UNCHANGED <<attempts, ws>>
    BY <2>3, <2>4 DEF Cleared
  <2>6. queue' = <<>>
    BY <1>1, <2>2, <2>4, <2>5, StoreFacts DEF StoreEnds
  <2>7. rt'.session = None /\ ~rt'.timer /\ rt'.socket = None
    BY <1>1, <2>1, <2>5, DisconnectedFacts
  <2>8. \A a \in Attempts : /\ attempts'[a].pc \in {"unused", "ended"}
                            /\ ws'[a] \in {"none", "closing", "closed"}
    BY <1>1, <2>1, <2>5, Unpacked DEF Active, Down, SocketStates, Live
  <2>. QED  BY <2>6, <2>7, <2>8
<1>. HIDE DEF Forgets
<1>2. Spec => [][Forgets]_vars
  BY <1>1, FieldsTellTheTruth, PTL DEF Spec
<1>. QED  BY <1>2 DEF Forgets, DisconnectForgets

-----------------------------------------------------------------------------
(* The stored session.                                                     *)

Opening == {"connecting", "reconnecting", "awaiting-approval"}
Unanswered == {"silent", "asked", "approval"}
Answers == Unanswered \cup {"welcomed", "refused", "rejected", "left", "revoked"}

\* Attempts are used in their order.
UsedInv == \E n \in 0..MaxConnects : Used = 1..n

\* The handshake that is waited for is the one of the attempt in progress, and the
\* socket is its own.
HandshakeInv ==
    rt.handshake # None =>
        rt.handshake \in Attempts /\ attempts[rt.handshake].pc = "handshake"
OwnSocket ==
    \A a \in Attempts : attempts[a].pc = "handshake" => rt.socket \in {None, a}
SocketAlive ==
    rt.socket # None =>
        /\ rt.socket \in Attempts
        /\ ws[rt.socket] \in {"connecting", "open", "closing"}
        /\ rt.connecting \in {None} \cup Attempts

\* A reconnect has ended the handshake that it found.
Settled ==
    rec.pc \in {"closing", "attempt"} =>
        \A a \in Attempts : attempts[a].pc = "handshake" => rt.hs[a] # "pending"

\* The bridge answers on sockets that have been opened, and an attempt opens its own.
BridgeInv ==
    /\ bridge \in [Attempts -> Answers]
    /\ \A a \in Attempts :
        /\ ws[a] \in {"none", "connecting"} => bridge[a] = "silent"
        /\ attempts[a].pc \in Before \cup {"unused"} => ws[a] = "none"

\* A save that may still complete a handshake is the last operation.
Saves(q, r, answers) ==
    \A i \in 1..Len(q) : q[i].op = "save" =>
        /\ q[i].for = "welcome" /\ q[i].a \in Attempts /\ q[i].handshake # None
        /\ answers[q[i].a] \notin Unanswered
        /\ r.socket = q[i].a /\ r.state \in Opening => i = Len(q)

\* Whoever is connected has its session in the store and nothing behind it, until the
\* bridge takes the session back.
ConnectedInv ==
    rt.state = "connected" =>
        /\ \A a \in Attempts : Active(a) => attempts[a].pc = "handshake"
        /\ rt.socket = None => rec.pc = "attempt"
        /\ rt.socket # None => bridge[rt.socket] \notin Unanswered
        /\ rec.pc \in {"closing", "attempt"} => rec.active \in {None} \cup Attempts
        /\ IF rt.session # None
           THEN queue = <<>> /\ stored = rt.session /\ rt.socket \in {None, rt.session}
           ELSE \/ Len(queue) = 1 /\ queue[1].for = "leave"
                \/ /\ queue = <<>> /\ stored = None
                   /\ rt.socket # None => ws[rt.socket] = "closing"

Standing == UsedInv /\ HandshakeInv /\ OwnSocket /\ SocketAlive /\ BridgeInv
StoreInv == Standing /\ Settled /\ Saves(queue, rt, bridge) /\ ConnectedInv

-----------------------------------------------------------------------------
(* Steps that begin nothing. *)

\* s is r with less going on.
Calms(r, s) ==
    /\ s.socket \in {r.socket, None}
    /\ s.connecting \in {r.connecting, None}
    /\ s.handshake \in {r.handshake, None}
    /\ s.state \in Opening => r.state \in Opening \/ s.socket = None
    /\ s.state = "connected" => r.state = "connected"
    /\ \A b \in Attempts : s.hs[b] = "pending" => r.hs[b] = "pending"

AttemptsCalm ==
    \A a \in Attempts :
        \/ attempts'[a].pc = attempts[a].pc
        \/ attempts[a].pc \in Before /\ attempts'[a].pc \in Before
        \/ Active(a) /\ attempts'[a].pc = "ended" /\ rt'.handshake # a
SocketsCalm ==
    \A a \in Attempts :
        \/ ws'[a] = ws[a]
        \/ ws[a] = "connecting" /\ ws'[a] = "open"
        \/ ws[a] \in Live /\ ws'[a] = "closing"
        \/ ws[a] \in Live \cup {"closing"} /\ ws'[a] = "closed" /\ rt'.socket # a
BridgeCalm ==
    /\ bridge' \in [Attempts -> Answers]
    /\ \A a \in Attempts :
        \/ bridge'[a] = bridge[a]
        \/ /\ ws[a] \in Live /\ ws'[a] \notin {"none", "connecting"}
           /\ bridge'[a] \in Unanswered => bridge[a] \in Unanswered
Calm == Calms(rt, rt') /\ AttemptsCalm /\ SocketsCalm /\ BridgeCalm

LEMMA CalmsTrans ==
    ASSUME NEW r, NEW s, NEW t, Calms(r, s), Calms(s, t) PROVE Calms(r, t)
  BY DEF Calms

LEMMA FollowsCalms ==
    ASSUME NEW r, NEW s, Follows(r, s),
           s.state \in {r.state, "error", "disconnecting", "disconnected"}
    PROVE  Calms(r, s)
  BY DEF Follows, Calms, Opening

LEMMA EndedCalms ==
    ASSUME NEW r \in Fields, NEW a \in Attempts, NEW o \in Outcomes
    PROVE  LET s == Ended(r, a, o)
           IN  /\ Calms(r, s) /\ s.handshake # a
               /\ s.socket = r.socket /\ s.session = r.session
<1> DEFINE s == Ended(r, a, o)
<1>1. /\ s.socket = r.socket /\ s.session = r.session
      /\ s.connecting \in {r.connecting, None}
      /\ s.handshake \in {r.handshake, None} \ {a}
      /\ \A b \in Attempts : s.hs[b] = "pending" => r.hs[b] = "pending"
      /\ \/ s.state \in {r.state, "error"}
         \/ s.state = "reconnecting" /\ r.socket = None
  BY EndedFacts
<1>. HIDE DEF s
<1>2. Calms(r, s) /\ s.handshake # a
  BY <1>1 DEF Calms, Opening
<1>. QED  BY <1>1, <1>2 DEF s

LEMMA DroppedCalms ==
    ASSUME NEW r \in Fields, NEW a \in Nat
    PROVE  Calms(r, Dropped(r, a))
<1> DEFINE q == Rejected(r, "retryable")
<1>1. q \in Fields /\ Follows(r, q) /\ q.state = r.state
  BY RejectedFacts DEF Outcomes
<1>. HIDE DEF q
<1>2. Calms(r, q) /\ Calms(r, r)
  BY <1>1, FollowsCalms DEF Calms
<1>3. Calms(q, [q EXCEPT !.socket = None])
  BY <1>1 DEF Calms, Fields
<1>. QED  BY <1>2, <1>3, CalmsTrans DEF Dropped, q

LEMMA SocketClosedCalms ==
    ASSUME NEW r \in Fields, NEW a, r.socket = a
    PROVE  LET s == SocketClosed(r, a)
           IN  Calms(r, s) /\ s.state # "connected" /\ s.socket = None
<1> DEFINE q == Rejected(r, "retryable")
           left == [q EXCEPT !.socket = None, !.approval = FALSE]
           gone == [left EXCEPT !.state = "disconnected"]
           held == [left EXCEPT !.suppress = FALSE, !.state = "error"]
<1>1. q \in Fields /\ Follows(r, q) /\ q.state = r.state
  BY RejectedFacts DEF Outcomes
<1>. HIDE DEF q
<1>2. left \in Fields /\ Calms(q, left) /\ left.socket = None
  BY <1>1 DEF Fields, Calms, None
<1>3. Calms(r, left)
  BY <1>1, <1>2, FollowsCalms, CalmsTrans
<1>. HIDE DEF left
<1>4. /\ gone \in Fields /\ gone.socket = None /\ Calms(left, gone)
      /\ gone.state = "disconnected"
  BY <1>2 DEF Fields, Calms, States, Opening
<1>5. held \in Fields /\ held.socket = None /\ Calms(left, held) /\ held.state = "error"
  BY <1>2 DEF Fields, Calms, States, Opening
<1>6. SocketClosed(r, a) = IF r.manual THEN gone
                           ELSE IF r.suppress THEN held ELSE Scheduled(gone)
  <2>1. left.manual = r.manual /\ left.suppress = r.suppress
    <3>1. left.manual = q.manual /\ left.suppress = q.suppress
      BY <1>1 DEF left, Fields
    <3>2. q.suppress = r.suppress /\ q.manual = r.manual
      BY DEF q, Rejected, Fields
    <3>. QED  BY <3>1, <3>2
  <2>. QED  BY <2>1, Zenon DEF SocketClosed, left, q
<1>. HIDE DEF gone, held
<1>7. LET s == Scheduled(gone)
      IN  Calms(gone, s) /\ s.state # "connected" /\ s.socket = None
  <2> DEFINE s == Scheduled(gone)
  <2>1. /\ s.socket = gone.socket /\ s.connecting = gone.connecting
        /\ s.handshake = gone.handshake /\ s.hs = gone.hs
        /\ s.state \in {gone.state, "reconnecting"}
    BY <1>4, ScheduledFacts
  <2>. HIDE DEF s
  <2>2. Calms(gone, s) /\ s.state # "connected" /\ s.socket = None
    BY <1>4, <2>1 DEF Calms, Opening
  <2>. QED  BY <2>2 DEF s
<1>8. \A s : Calms(left, s) => Calms(r, s)
  BY <1>3, CalmsTrans
<1>9. CASE SocketClosed(r, a) = gone
  BY <1>4, <1>8, <1>9
<1>10. CASE SocketClosed(r, a) = held
  BY <1>5, <1>8, <1>10
<1>11. CASE SocketClosed(r, a) = Scheduled(gone)
  <2>1. Calms(left, Scheduled(gone))
    BY <1>4, <1>7, CalmsTrans
  <2>. QED  BY <1>7, <1>8, <1>11, <2>1
<1>. QED  BY <1>6, <1>9, <1>10, <1>11

LEMMA DisconnectedCalms ==
    ASSUME ConnInv, disc.sock \in Nat
    PROVE  LET s == Disconnected(rt)
           IN  Calms(rt, s) /\ s.state = "disconnected"
<1> DEFINE dropped == Dropped(rt, disc.sock)
           cleared == IF disc.preserve THEN dropped ELSE ClearSession(dropped)
<1>1. dropped \in Fields /\ Calms(rt, dropped)
  BY Unpacked, DroppedFacts, DroppedCalms
<1>. HIDE DEF dropped
<1>2. cleared \in Fields /\ Calms(dropped, cleared)
  <2>1. LET s == ClearSession(dropped)
        IN  s \in Fields /\ Follows(dropped, s) /\ s.state = dropped.state
    BY <1>1, ClearSessionFacts
  <2>. QED  BY <1>1, <2>1, FollowsCalms DEF Calms
<1>. HIDE DEF cleared
<1>3. LET s == [cleared EXCEPT !.state = "disconnected", !.manual = FALSE]
      IN  Calms(cleared, s) /\ s.state = "disconnected"
  BY <1>2 DEF Fields, Calms, Opening
<1>4. Disconnected(rt) = [cleared EXCEPT !.state = "disconnected", !.manual = FALSE]
  BY Zenon DEF Disconnected, cleared, dropped
<1>. QED  BY <1>1, <1>2, <1>3, <1>4, CalmsTrans

\* A socket that is told to close.
LEMMA ClosedCalms ==
    ASSUME NEW w \in [Attempts -> SocketStates], NEW a \in Nat
    PROVE  LET v == Closed(w, a)
           IN  /\ \A b \in Attempts :
                     v[b] = w[b] \/ (b = a /\ w[b] \in Live /\ v[b] = "closing")
               /\ a \in Attempts => v[a] \notin Live
<1>1. CASE a # None /\ w[a] \in {"connecting", "open"}
  <2>1. Closed(w, a) = [w EXCEPT ![a] = "closing"]
    BY <1>1 DEF Closed
  <2>. QED  BY <1>1, <2>1 DEF Live
<1>2. CASE ~(a # None /\ w[a] \in {"connecting", "open"})
  <2>1. Closed(w, a) = w
    BY <1>2 DEF Closed
  <2>. QED  BY <1>2, <2>1 DEF Live, None, Attempts
<1>. QED  BY <1>1, <1>2

LEMMA StandingKept ==
    ASSUME ConnInv, Standing, Calm PROVE Standing'
<1>1. UsedInv'
  <2>1. \A a \in Attempts : attempts'[a].pc = "unused" <=> attempts[a].pc = "unused"
    BY DEF Calm, AttemptsCalm, Active, Before
  <2>2. Used' = Used
    BY <2>1 DEF Used
  <2>. QED  BY <2>2 DEF Standing, UsedInv
<1>2. \A a \in Attempts : attempts'[a].pc = "handshake" => attempts[a].pc = "handshake"
  BY DEF Calm, AttemptsCalm, Before
<1>3. HandshakeInv' /\ OwnSocket'
  <2>1. \A a \in Attempts : attempts[a].pc = "handshake" /\ rt'.handshake = a
                              => attempts'[a].pc = "handshake"
    BY DEF Calm, AttemptsCalm, Before
  <2>. QED  BY <1>2, <2>1 DEF Calm, Calms, Standing, HandshakeInv, OwnSocket
<1>4. SocketAlive'
  BY DEF Calm, Calms, SocketsCalm, Standing, SocketAlive, Live
<1>5. BridgeInv'
  <2>1. \A a \in Attempts : ws'[a] \in {"none", "connecting"} => ws'[a] = ws[a]
    BY DEF Calm, SocketsCalm
  <2>2. \A a \in Attempts : ws[a] = "none" => ws'[a] = "none"
    BY DEF Calm, SocketsCalm, Live
  <2>3. \A a \in Attempts : attempts'[a].pc \in Before \cup {"unused"}
                              => attempts[a].pc \in Before \cup {"unused"}
    BY DEF Calm, AttemptsCalm, Before
  <2>4. \A a \in Attempts : ws'[a] \in {"none", "connecting"} => bridge'[a] = bridge[a]
    BY DEF Calm, BridgeCalm
  <2>. QED  BY <2>1, <2>2, <2>3, <2>4 DEF Calm, BridgeCalm, Standing, BridgeInv
<1>. QED  BY <1>1, <1>3, <1>4, <1>5 DEF Standing

\* Reconnect goes no further than it was.
RecCalm ==
    /\ rec'.pc \in {"closing", "attempt"} =>
           rec.pc \in {"closing", "attempt"} /\ rec'.active = rec.active
    /\ rec.pc = "attempt" => rec'.pc = "attempt"

LEMMA SettledKept ==
    ASSUME Settled, Calm, RecCalm PROVE Settled'
<1>1. \A a \in Attempts : attempts'[a].pc = "handshake" => attempts[a].pc = "handshake"
  BY DEF Calm, AttemptsCalm, Before
<1>. QED  BY <1>1 DEF Settled, Calm, Calms, RecCalm

LEMMA SavesKept ==
    ASSUME NEW q, Saves(q, rt, bridge), Calm PROVE Saves(q, rt', bridge')
<1>1. \A a \in Attempts : bridge[a] \notin Unanswered => bridge'[a] \notin Unanswered
  BY DEF Calm, BridgeCalm
<1>2. \A a \in Attempts : rt'.socket = a /\ rt'.state \in Opening
                            => rt.socket = a /\ rt.state \in Opening
  BY AttemptsAreNumbers DEF Calm, Calms
<1>. QED  BY <1>1, <1>2 DEF Saves

LEMMA SavesTail ==
    ASSUME NEW q \in Seq(Operations), q # <<>>, NEW r, NEW answers, Saves(q, r, answers)
    PROVE  Saves(Tail(q), r, answers)
<1> DEFINE t == Tail(q)
<1>1. /\ Len(t) = Len(q) - 1 /\ Len(q) \in Nat
      /\ \A i \in 1..Len(t) : t[i] = q[i + 1] /\ i + 1 \in 1..Len(q)
  OBVIOUS
<1>. HIDE DEF t
<1>2. Saves(t, r, answers)
  BY <1>1 DEF Saves
<1>. QED  BY <1>2 DEF t

LEMMA SavesAppend ==
    ASSUME NEW q \in Seq(Operations), NEW r, NEW answers, Saves(q, r, answers),
           NEW op \in Operations,
           op.op = "save" =>
               /\ op.for = "welcome" /\ op.a \in Attempts /\ op.handshake # None
               /\ answers[op.a] \notin Unanswered,
           \A i \in 1..Len(q) :
               q[i].op = "save" => r.socket # q[i].a \/ r.state \notin Opening
    PROVE  Saves(Append(q, op), r, answers)
<1> DEFINE p == Append(q, op)
<1>1. /\ \A i \in 1..Len(p) : p[i] = IF i = Len(p) THEN op ELSE q[i]
      /\ \A i \in 1..Len(p) : i # Len(p) => i \in 1..Len(q)
  OBVIOUS
<1>. HIDE DEF p
<1>2. Saves(p, r, answers)
  BY <1>1 DEF Saves
<1>. QED  BY <1>2 DEF p

\* The steps that change nothing for whoever is connected.
LEMMA ConnectedKept ==
    ASSUME Standing, ConnectedInv, Calm, RecCalm,
           rt'.state = "connected" =>
               /\ rt'.socket = rt.socket /\ rt'.session = rt.session
               /\ queue' = queue /\ stored' = stored
    PROVE  ConnectedInv'
<1>. SUFFICES ASSUME rt'.state = "connected" PROVE ConnectedInv'
  BY DEF ConnectedInv
<1>1. /\ rt.state = "connected" /\ rt'.socket = rt.socket /\ rt'.session = rt.session
      /\ queue' = queue /\ stored' = stored
  BY DEF Calm, Calms
<1>2. \A a \in Attempts : Active(a)' => attempts'[a].pc = "handshake"
  <2>1. \A a \in Attempts : Active(a) => attempts[a].pc = "handshake"
    BY <1>1 DEF ConnectedInv
  <2>2. \A a \in Attempts : Active(a)' => attempts'[a].pc = attempts[a].pc \/ attempts[a].pc \in Before
    BY DEF Calm, AttemptsCalm, Active
  <2>. QED  BY <2>1, <2>2 DEF Active, Before
<1>3. rt'.socket = None => rec'.pc = "attempt"
  BY <1>1 DEF ConnectedInv, RecCalm
<1>4. rt'.socket # None => bridge'[rt'.socket] \notin Unanswered
  BY <1>1 DEF ConnectedInv, Calm, BridgeCalm, Standing, SocketAlive
<1>5. rec'.pc \in {"closing", "attempt"} => rec'.active \in {None} \cup Attempts
  BY <1>1 DEF ConnectedInv, RecCalm
<1>6. rt'.socket # None /\ ws[rt'.socket] = "closing" => ws'[rt'.socket] = "closing"
  BY <1>1 DEF Calm, SocketsCalm, Standing, SocketAlive, Live
<1>. QED  BY <1>1, <1>2, <1>3, <1>4, <1>5, <1>6 DEF ConnectedInv

LEMMA CalmStep ==
    ASSUME ConnInv, StoreInv, Calm, RecCalm, Saves(queue', rt', bridge'),
           rt'.state = "connected" =>
               /\ rt'.socket = rt.socket /\ rt'.session = rt.session
               /\ queue' = queue /\ stored' = stored
    PROVE  StoreInv'
  BY StandingKept, SettledKept, ConnectedKept DEF StoreInv

LEMMA Steady ==
    ASSUME ConnInv, StoreInv, Calm, RecCalm, queue' = queue, stored' = stored,
           rt'.state = "connected" =>
               rt'.socket = rt.socket /\ rt'.session = rt.session
    PROVE  StoreInv'
<1>1. Saves(queue', rt', bridge')
  BY SavesKept DEF StoreInv
<1>. QED  BY <1>1, CalmStep

-----------------------------------------------------------------------------
(* Attempts. *)

\* Before its handshake an attempt is the only one, without a socket, and nobody is
\* connected.
LEMMA BeforeStore ==
    ASSUME ConnInv, StoreInv, NEW a \in Attempts, attempts[a].pc \in Before
    PROVE  /\ rt.state # "connected" /\ rt.socket = None /\ rt.connecting = a
           /\ ws[a] = "none" /\ bridge[a] = "silent"
           /\ \A b \in Attempts : attempts[b].pc # "handshake"
<1>1. Active(a) /\ attempts[a].pc # "handshake"
  BY DEF Active, Before
<1>2. rt.socket = None /\ rt.connecting = a
  BY <1>1 DEF ConnInv, Known
<1>3. \A b \in Attempts : attempts[b].pc # "handshake"
  <2>1. \A b \in Attempts : attempts[b].pc = "handshake" => Active(b)
    BY DEF Active
  <2>. QED  BY <1>1, <1>2, <2>1 DEF ConnInv, Known
<1>. QED  BY <1>1, <1>2, <1>3 DEF StoreInv, ConnectedInv, Standing, BridgeInv

LEMMA OpenedStore ==
    ASSUME ConnInv, StoreInv, NEW a \in Attempts, attempts[a].pc \in Before,
           ~attempts[a].aborted,
           rt'.socket = a, rt'.handshake = a, rt'.connecting = a, rt'.state = rt.state,
           \A b \in Attempts :
              /\ attempts'[b].pc = IF b = a THEN "handshake" ELSE attempts[b].pc
              /\ ws'[b] = IF b = a THEN "connecting" ELSE ws[b],
           UNCHANGED <<rec, bridge>>, Saves(queue', rt, bridge)
    PROVE  StoreInv'
<1>1. /\ rt.state # "connected" /\ rt.socket = None /\ rt.connecting = a
      /\ ws[a] = "none" /\ bridge[a] = "silent" /\ a # None
      /\ \A b \in Attempts : attempts[b].pc # "handshake"
  BY BeforeStore, AttemptsAreNumbers
<1>2. UsedInv'
  <2>1. \A b \in Attempts : attempts'[b].pc = "unused" <=> attempts[b].pc = "unused"
    BY DEF Before
  <2>2. Used' = Used
    BY <2>1 DEF Used
  <2>. QED  BY <2>2 DEF StoreInv, Standing, UsedInv
<1>3. HandshakeInv' /\ OwnSocket' /\ SocketAlive'
  BY <1>1 DEF HandshakeInv, OwnSocket, SocketAlive
<1>4. BridgeInv'
  BY <1>1 DEF StoreInv, Standing, BridgeInv, Before
<1>5. Settled'
  <2>1. Active(a)
    BY DEF Active, Before
  <2>2. rec.pc \notin {"closing", "attempt"}
    BY <2>1 DEF ConnInv, RecInv, Down
  <2>. QED  BY <2>2 DEF Settled
<1>6. Saves(queue', rt', bridge')
  BY <1>1 DEF Saves, Unanswered
<1>. QED  BY <1>1, <1>2, <1>3, <1>4, <1>5, <1>6 DEF StoreInv, Standing, ConnectedInv

LEMMA OpenStore ==
    ASSUME ConnInv, StoreInv, NEW a \in Attempts, attempts[a].pc \in Before,
           ~attempts[a].aborted,
           NEW r \in Fields, NEW auth \in {"resume", "pairing", "approval"},
           r.connecting = rt.connecting, r.state = rt.state,
           rt' = [r EXCEPT !.handshake = a, !.hs[a] = "pending", !.socket = a,
                           !.manual = FALSE, !.suppress = FALSE, !.connectTimer = a],
           attempts' = [attempts EXCEPT ![a].pc = "handshake", ![a].auth = auth],
           ws' = [ws EXCEPT ![a] = "connecting"],
           UNCHANGED <<rec, bridge>>, Saves(queue', rt, bridge)
    PROVE  StoreInv'
<1>1. /\ rt'.socket = a /\ rt'.handshake = a
      /\ rt'.connecting = r.connecting /\ rt'.state = r.state
  BY Zenon DEF Fields
<1>2. rt'.connecting = a /\ rt'.state = rt.state
  BY <1>1, BeforeStore
<1>3. \A b \in Attempts : attempts'[b].pc = IF b = a THEN "handshake" ELSE attempts[b].pc
  BY OpenedPhases
<1>4. \A b \in Attempts : ws'[b] = IF b = a THEN "connecting" ELSE ws[b]
  BY Unpacked
<1>. QED  BY <1>1, <1>2, <1>3, <1>4, OpenedStore

LEMMA EndStore ==
    ASSUME ConnInv, StoreInv, NEW a \in Attempts, Active(a), End(a),
           NEW r \in Fields, NEW o \in Outcomes, rt' = Ended(r, a, o),
           Calms(rt, r), r.socket = rt.socket, r.session = rt.session \/ rt.state # "connected",
           UNCHANGED <<rec, ws, bridge>>, Saves(queue', rt, bridge),
           rt.state = "connected" => queue' = queue /\ stored' = stored
    PROVE  StoreInv'
<1>1. /\ Calms(rt, rt') /\ rt'.handshake # a
      /\ rt'.socket = r.socket /\ rt'.session = r.session
  BY EndedCalms, CalmsTrans
<1>2. AttemptsCalm
  <2>1. \A b \in Attempts : attempts'[b].pc = IF b = a THEN "ended" ELSE attempts[b].pc
    BY DEF End, ConnInv, ConnectionTypes
  <2>. QED  BY <1>1, <2>1 DEF AttemptsCalm
<1>3. Calm
  BY <1>1, <1>2 DEF Calm, SocketsCalm, BridgeCalm, StoreInv, Standing, BridgeInv
<1>4. RecCalm
  BY DEF RecCalm
<1>5. Saves(queue', rt', bridge')
  BY <1>3, SavesKept
<1>6. rt'.state = "connected" => rt.state = "connected"
  BY <1>1 DEF Calms
<1>. QED  BY <1>1, <1>3, <1>4, <1>5, <1>6, CalmStep

LEMMA MoveStore ==
    ASSUME ConnInv, StoreInv, NEW a \in Attempts, NEW pc \in Before,
           attempts[a].pc \in Before, attempts' = [attempts EXCEPT ![a].pc = pc],
           Calms(rt, rt'), UNCHANGED <<rec, ws, bridge>>, Saves(queue', rt', bridge')
    PROVE  StoreInv'
<1>1. AttemptsCalm
  <2>1. \A b \in Attempts : attempts'[b].pc = IF b = a THEN pc ELSE attempts[b].pc
    <3>1. pc \in Phases
      BY DEF Before, Phases
    <3>. QED  BY <3>1, MovedTypes
  <2>. QED  BY <2>1 DEF AttemptsCalm
<1>2. Calm /\ RecCalm
  BY <1>1 DEF Calm, SocketsCalm, BridgeCalm, StoreInv, Standing, BridgeInv, RecCalm
<1>3. rt'.state # "connected"
  BY BeforeStore DEF Calms
<1>. QED  BY <1>2, <1>3, CalmStep

LEMMA OpenSocketStore ==
    ASSUME ConnInv, StoreInv, NEW a \in Attempts, attempts[a].pc \in Before,
           NEW r \in Fields, NEW auth \in {"resume", "pairing", "approval"},
           OpenSocket(a, r, auth), Follows(rt, r), r.state = rt.state,
           UNCHANGED <<rec, bridge>>, Saves(queue', rt, bridge)
    PROVE  StoreInv'
<1>1. /\ Active(a) /\ rt.state # "connected" /\ Calms(rt, r) /\ r.socket = rt.socket
      /\ r.connecting = rt.connecting
  BY BeforeStore, FollowsCalms DEF Active, Before, Follows
<1>2. CASE ws' = ws /\ End(a) /\ \E o \in {"final", "retryable"} : rt' = Ended(r, a, o)
  BY <1>1, <1>2, EndStore DEF Outcomes
<1>3. CASE ~(ws' = ws /\ End(a) /\ \E o \in {"final", "retryable"} : rt' = Ended(r, a, o))
  BY <1>1, <1>3, OpenStore DEF OpenSocket
<1>. QED  BY <1>2, <1>3

LEMMA FailsStore ==
    ASSUME ConnInv, StoreInv, NEW a \in Attempts, attempts[a].pc \in Before,
           NEW r \in Fields, Follows(rt, r), r.state = rt.state, Fails(a, r),
           UNCHANGED <<rec, bridge>>, Saves(queue', rt, bridge)
    PROVE  StoreInv'
<1>1. /\ Active(a) /\ rt.state # "connected" /\ Calms(rt, r) /\ r.socket = rt.socket
  BY BeforeStore, FollowsCalms DEF Active, Before, Follows
<1>2. rt' = Ended(r, a, "final") /\ End(a) /\ ws' = ws /\ "final" \in Outcomes
  BY DEF Fails, Outcomes
<1>. QED  BY <1>1, <1>2, EndStore

LEMMA UsedCount == ASSUME UsedInv PROVE \E n \in 0..MaxConnects : Used = 1..n /\ Next1 = n + 1
<1>1. PICK n \in 0..MaxConnects : Used = 1..n
  BY DEF UsedInv
<1>2. n \in Int /\ Cardinality(1..n) = n
  <2>1. n \in Nat
    BY WebConnectionAssumption DEF WebConnectionAssumption
  <2>. QED  BY <2>1, FS_Interval
<1>. QED  BY <1>1, <1>2 DEF Next1

LEMMA BegunStore ==
    ASSUME ConnInv, StoreInv, \A a \in Attempts : ~Active(a), rt.socket = None,
           rt'.socket = None, rt'.handshake = rt.handshake, rt'.state # "connected",
           NEW phase \in Before,
           \A b \in Attempts :
               attempts'[b].pc = IF b = Next1 THEN phase ELSE attempts[b].pc,
           rec'.pc \notin {"closing", "attempt"}, UNCHANGED <<ws, bridge, queue>>
    PROVE  StoreInv'
<1>1. PICK n \in 0..MaxConnects : Used = 1..n /\ Next1 = n + 1
  BY UsedCount DEF StoreInv, Standing
<1>2. n \in Nat /\ MaxConnects \in Nat
  BY WebConnectionAssumption DEF WebConnectionAssumption
<1>3. rt.handshake = None
  BY DEF StoreInv, Standing, HandshakeInv, Active
<1>4. \A b \in Attempts : attempts[b].pc # "handshake" /\ attempts'[b].pc # "handshake"
  BY DEF Active, Before
<1>5. \A b \in Attempts : attempts'[b].pc # "unused" <=> b \in Used \/ b = Next1
  BY DEF Used, Before
<1>6. UsedInv'
  <2>1. CASE Next1 \in Attempts
    <3>1. Used' = 1..(n + 1) /\ n + 1 \in 0..MaxConnects
      BY <1>1, <1>2, <1>5, <2>1 DEF Used, Attempts
    <3>. QED  BY <3>1 DEF UsedInv
  <2>2. CASE Next1 \notin Attempts
    <3>1. Used' = 1..n
      BY <1>1, <1>2, <1>5, <2>2 DEF Used, Attempts
    <3>. QED  BY <3>1 DEF UsedInv
  <2>. QED  BY <2>1, <2>2
<1>7. Next1 \in Attempts => attempts[Next1].pc = "unused"
  BY <1>1, <1>2 DEF Used
<1>8. HandshakeInv' /\ OwnSocket' /\ SocketAlive' /\ Settled'
  BY <1>3, <1>4 DEF HandshakeInv, OwnSocket, SocketAlive, Settled
<1>9. BridgeInv'
  BY <1>7 DEF StoreInv, Standing, BridgeInv
<1>10. Saves(queue', rt', bridge')
  BY AttemptsAreNumbers DEF StoreInv, Saves
<1>. QED  BY <1>6, <1>8, <1>9, <1>10 DEF StoreInv, Standing, ConnectedInv

LEMMA BeginStore ==
    ASSUME ConnInv, StoreInv, \A a \in Attempts : ~Active(a), rt.socket = None,
           NEW auto \in BOOLEAN, NEW fresh \in BOOLEAN, NEW reconnecting \in BOOLEAN,
           NEW r \in Fields, r.socket = None, r.handshake = rt.handshake,
           rt' = Begun(r, Next1, reconnecting), BeginAttempt(Next1, auto, fresh),
           rec'.pc \notin {"closing", "attempt"}, UNCHANGED <<ws, bridge, queue>>
    PROVE  StoreInv'
<1>1. rt'.socket = None /\ rt'.handshake = rt.handshake /\ rt'.state # "connected"
  BY DEF Begun, Fields
<1> DEFINE phase == IF PreparesLNA THEN "prepare" ELSE "auth"
<1>2. phase \in Before
  BY DEF Before
<1>3. \A b \in Attempts : attempts'[b].pc = IF b = Next1 THEN phase ELSE attempts[b].pc
  BY DEF BeginAttempt, ConnInv, ConnectionTypes, Unused
<1>. HIDE DEF phase
<1>. QED  BY <1>1, <1>2, <1>3, BegunStore

-----------------------------------------------------------------------------
LEMMA PreparedStore ==
    ASSUME ConnInv, StoreInv, NEW a \in Attempts, Prepared(a) PROVE StoreInv'
<1>1. /\ attempts[a].pc \in Before /\ rt \in Fields /\ Follows(rt, rt)
      /\ UNCHANGED <<rec, bridge, queue>>
  BY Unpacked DEF Prepared, Before
<1>2. Saves(queue', rt, bridge)
  BY <1>1 DEF StoreInv
<1>3. CASE attempts' = [attempts EXCEPT ![a].pc = "auth"] /\ UNCHANGED <<rt, ws>>
  BY <1>1, <1>2, <1>3, MoveStore, FollowsCalms DEF Before
<1>4. CASE Fails(a, rt)
  BY <1>1, <1>2, <1>4, FailsStore
<1>. QED  BY <1>3, <1>4 DEF Prepared

\* What an attempt asks of the store goes behind saves that complete nothing.
LEMMA AsksBehind ==
    ASSUME NEW q \in Seq(Operations), NEW r, r.socket = None, NEW answers,
           Saves(q, r, answers), NEW a \in Attempts, NEW op \in {"load", "clear"}
    PROVE  Saves(Append(q, Operation(op, a, None, "attempt")), r, answers)
<1> DEFINE o == Operation(op, a, None, "attempt")
<1>1. o \in Operations /\ o.op # "save"
  BY AttemptsAreNumbers, OperationType DEF None
<1>. HIDE DEF o
<1>2. \A i \in 1..Len(q) : q[i].op = "save" => r.socket # q[i].a
  BY AttemptsAreNumbers DEF Saves
<1>3. Saves(Append(q, o), r, answers)
  BY <1>1, <1>2, SavesAppend
<1>. QED  BY <1>3 DEF o

LEMMA WithSessionStore ==
    ASSUME ConnInv, StoreInv, NEW a \in Attempts, attempts[a].pc \in Before,
           NEW s \in Nat, NEW q \in Seq(Operations), Saves(q, rt, bridge),
           WithSession(a, s, q), UNCHANGED <<rec, bridge>>
    PROVE  StoreInv'
<1>1. CASE OpenSocket(a, [rt EXCEPT !.session = s], "resume") /\ queue' = q
  <2> DEFINE r == [rt EXCEPT !.session = s]
  <2>1. r \in Fields /\ Follows(rt, r) /\ r.state = rt.state
    BY Unpacked DEF Fields, Follows
  <2>. HIDE DEF r
  <2>2. OpenSocket(a, r, "resume")
    BY <1>1 DEF r
  <2>. QED  BY <1>1, <2>1, <2>2, OpenSocketStore
<1>2. CASE /\ rt' = ClearSession(rt)
           /\ attempts' = [attempts EXCEPT ![a].pc = "clear"]
           /\ queue' = Append(q, Operation("clear", a, None, "attempt"))
           /\ UNCHANGED ws
  <2>1. Follows(rt, rt') /\ rt'.state = rt.state
    BY <1>2, Unpacked, ClearSessionFacts
  <2>2. Calms(rt, rt') /\ rt'.socket = None
    BY <2>1, BeforeStore, FollowsCalms DEF Follows
  <2>3. Saves(q, rt', bridge')
    BY <2>2, AttemptsAreNumbers DEF Saves
  <2>4. Saves(queue', rt', bridge')
    BY <1>2, <2>2, <2>3, AsksBehind
  <2>. QED  BY <1>2, <2>2, <2>4, MoveStore DEF Before
<1>. QED  BY <1>1, <1>2 DEF WithSession

LEMMA AuthenticatesStore ==
    ASSUME ConnInv, StoreInv, NEW a \in Attempts, Authenticates(a) PROVE StoreInv'
<1>1. /\ attempts[a].pc \in Before /\ rt.session \in Nat /\ queue \in Seq(Operations)
      /\ UNCHANGED <<rec, bridge>> /\ Saves(queue, rt, bridge) /\ Follows(rt, rt)
  BY Unpacked DEF Authenticates, Before, Fields, StoreInv
<1>2. CASE WithSession(a, rt.session, queue)
  BY <1>1, <1>2, WithSessionStore
<1>3. CASE /\ attempts' = [attempts EXCEPT ![a].pc = "load"]
           /\ queue' = Append(queue, Operation("load", a, None, "attempt"))
           /\ UNCHANGED <<rt, ws>>
  <2>1. Calms(rt, rt') /\ rt'.socket = None
    BY <1>1, <1>3, BeforeStore, FollowsCalms
  <2>2. Saves(queue', rt', bridge')
    BY <1>1, <1>3, <2>1, AsksBehind
  <2>. QED  BY <1>1, <1>3, <2>1, <2>2, MoveStore DEF Before
<1>. QED  BY <1>2, <1>3 DEF Authenticates

LEMMA TokenGivenStore ==
    ASSUME ConnInv, StoreInv, NEW a \in Attempts, TokenGiven(a) PROVE StoreInv'
<1>1. /\ attempts[a].pc \in Before /\ rt \in Fields /\ Follows(rt, rt)
      /\ UNCHANGED <<rec, bridge, queue>> /\ Saves(queue', rt, bridge)
  BY Unpacked DEF TokenGiven, Before, StoreInv
<1>2. CASE OpenSocket(a, rt, "pairing") \/ OpenSocket(a, rt, "approval")
  BY <1>1, <1>2, OpenSocketStore
<1>3. CASE Fails(a, rt)
  BY <1>1, <1>3, FailsStore
<1>. QED  BY <1>2, <1>3 DEF TokenGiven

LEMMA SettlesStore ==
    ASSUME ConnInv, StoreInv, NEW a \in Attempts, Settles(a) PROVE StoreInv'
<1>1. /\ Active(a) /\ rt \in Fields /\ rt.hs[a] \in Outcomes /\ Calms(rt, rt)
      /\ UNCHANGED <<rec, ws, bridge, queue, stored>> /\ Saves(queue', rt, bridge)
      /\ rt' = Ended(rt, a, rt.hs[a]) /\ End(a)
  BY Unpacked DEF Settles, Active, Fields, StoreInv, Calms
<1>. QED  BY <1>1, EndStore

-----------------------------------------------------------------------------
\* disconnect and reconnect take down what they find.
LEMMA TakeDownCalms ==
    ASSUME ConnInv, StoreInv, NEW r \in Fields, TakeDown(r), bridge' = bridge,
           r.socket = rt.socket, r.connecting = rt.connecting, r.abort = rt.abort,
           r.handshake = rt.handshake, r.hs = rt.hs, r.session = rt.session,
           r.state \in {rt.state, "disconnecting"}
    PROVE  /\ Calm
           /\ rt'.socket = rt.socket /\ rt'.session = rt.session
           /\ rt'.state \in {r.state, "error"}
           /\ \A a \in Attempts : attempts'[a].pc = attempts[a].pc
           /\ \A a \in Attempts : attempts[a].pc = "handshake" => rt'.hs[a] # "pending"
<1> DEFINE q == [CancelReconnect(r) EXCEPT !.manual = TRUE]
<1>1. /\ q \in Fields /\ q.state = r.state /\ q.session = rt.session
      /\ q.socket = rt.socket /\ q.connecting = rt.connecting /\ q.abort = rt.abort
      /\ q.handshake = rt.handshake /\ q.hs = rt.hs
  BY DEF CancelReconnect, Fields
<1>2. rt' = Abort(q, rt.abort) /\ rt.abort \in Nat
  BY Unpacked DEF TakeDown, Fields
<1>. HIDE DEF q
<1>3. /\ Follows(q, rt') /\ rt'.state \in {q.state, "error"} /\ rt'.session = q.session
  BY <1>1, <1>2, AbortFacts
<1>4. Calms(rt, rt')
  BY <1>1, <1>3 DEF Calms, Follows, Opening
<1>5. ASSUME NEW a \in Attempts, attempts[a].pc = "handshake"
      PROVE  rt'.hs[a] # "pending"
  <2>1. rt.abort = a /\ rt.handshake = a /\ a # None
    BY <1>5, AttemptsAreNumbers DEF ConnInv, Known, Active
  <2> DEFINE s == [q EXCEPT !.suppress = TRUE]
  <2>2. s \in Fields /\ s.handshake = a
    BY <1>1, <2>1 DEF Fields
  <2>3. rt' \in {Rejected(s, "final"), Failed(s, "final")}
    BY <1>2, <1>5, <2>1 DEF Abort
  <2>. HIDE DEF s
  <2>4. Rejected(s, "final").hs[a] # "pending" /\ Failed(s, "final").hs[a] # "pending"
    BY <2>2, RejectedFacts, FailedFacts DEF Outcomes
  <2>. QED  BY <2>3, <2>4
<1>6. \A a \in Attempts : attempts'[a].pc = attempts[a].pc
  <2>1. attempts' = IF rt.abort = None THEN attempts
                    ELSE [attempts EXCEPT ![rt.abort].aborted = TRUE]
    BY DEF TakeDown, Aborted
  <2>. QED  BY <2>1 DEF ConnInv, ConnectionTypes, Attempt
<1>7. SocketsCalm
  <2> DEFINE w == AbortCloses(ws, rt.abort)
  <2>1. /\ w \in [Attempts -> SocketStates]
        /\ \A b \in Attempts : w[b] = ws[b] \/ (ws[b] \in Live /\ w[b] = "closing")
    BY <1>2, Unpacked, ClosedFacts, ClosedCalms DEF AbortCloses
  <2>2. ws' = Closed(w, rt.socket) /\ rt.socket \in Nat
    BY Unpacked DEF TakeDown
  <2>. HIDE DEF w
  <2>3. \A b \in Attempts : ws'[b] = w[b] \/ (w[b] \in Live /\ ws'[b] = "closing")
    BY <2>1, <2>2, ClosedCalms
  <2>. QED  BY <2>1, <2>3 DEF SocketsCalm, Live
<1>8. Calm
  BY <1>4, <1>6, <1>7 DEF Calm, AttemptsCalm, BridgeCalm, StoreInv, Standing, BridgeInv
<1>. QED  BY <1>1, <1>3, <1>5, <1>6, <1>8 DEF Follows

LEMMA DisconnectStartsStore ==
    ASSUME ConnInv, StoreInv, NEW preserve \in BOOLEAN, DisconnectStarts(preserve)
    PROVE  StoreInv'
<1> DEFINE r == [rt EXCEPT !.state = "disconnecting"]
<1>1. /\ r \in Fields /\ r.state = "disconnecting" /\ r.session = rt.session
      /\ r.socket = rt.socket /\ r.connecting = rt.connecting /\ r.abort = rt.abort
      /\ r.handshake = rt.handshake /\ r.hs = rt.hs
  BY Unpacked DEF Fields, States
<1>2. TakeDown(r) /\ UNCHANGED <<rec, bridge, queue, stored>>
  BY DEF DisconnectStarts
<1>. HIDE DEF r
<1>3. Calm /\ rt'.state # "connected"
  BY <1>1, <1>2, TakeDownCalms
<1>. QED  BY <1>2, <1>3, Steady DEF RecCalm

LEMMA ReconnectStartsStore ==
    ASSUME ConnInv, StoreInv, ReconnectStarts PROVE StoreInv'
<1>1. /\ TakeDown(rt) /\ rec' = Taken(TRUE) /\ rec.pc = "entered"
      /\ UNCHANGED <<bridge, queue, stored>> /\ rt \in Fields
  BY Unpacked DEF ReconnectStarts
<1>2. /\ Calm /\ rt'.socket = rt.socket /\ rt'.session = rt.session
      /\ \A a \in Attempts : attempts'[a].pc = attempts[a].pc
      /\ \A a \in Attempts : attempts[a].pc = "handshake" => rt'.hs[a] # "pending"
  BY <1>1, TakeDownCalms
<1>3. Standing' /\ Saves(queue', rt', bridge')
  BY <1>1, <1>2, StandingKept, SavesKept DEF StoreInv
<1>4. Settled'
  BY <1>2 DEF Settled
<1>5. ConnectedInv'
  <2>. SUFFICES ASSUME rt'.state = "connected" PROVE ConnectedInv'
    BY DEF ConnectedInv
  <2>1. rt.state = "connected" /\ rt.socket # None
    BY <1>1, <1>2 DEF Calm, Calms, StoreInv, ConnectedInv
  <2>2. rec'.active \in {None} \cup Attempts
    BY <1>1, <2>1 DEF Taken, StoreInv, Standing, SocketAlive
  <2>3. ws[rt.socket] = "closing" => ws'[rt.socket] = "closing"
    BY <1>2, <2>1 DEF Calm, SocketsCalm, Live, StoreInv, Standing, SocketAlive
  <2>4. \A a \in Attempts : Active(a)' => attempts'[a].pc = "handshake"
    BY <1>2, <2>1 DEF Active, StoreInv, ConnectedInv
  <2>. QED  BY <1>1, <1>2, <2>1, <2>2, <2>3, <2>4 DEF StoreInv, ConnectedInv
<1>. QED  BY <1>3, <1>4, <1>5 DEF StoreInv

\* An event that changes the fields and the sockets only, and that connects nobody.
LEMMA EventStore ==
    ASSUME ConnInv, StoreInv, Follows(rt, rt'), rt'.session = rt.session,
           rt'.state \in {rt.state, "error"},
           \A a \in Attempts : attempts'[a].pc = attempts[a].pc,
           ws' = ws \/ \E b \in Nat : ws' = Closed(ws, b),
           UNCHANGED <<bridge, queue, stored>>, RecCalm
    PROVE  StoreInv'
<1>1. Calms(rt, rt')
  BY FollowsCalms
<1>2. SocketsCalm
  BY Unpacked, ClosedCalms DEF SocketsCalm
<1>3. Calm
  BY <1>1, <1>2 DEF Calm, AttemptsCalm, BridgeCalm, StoreInv, Standing, BridgeInv
<1>. QED  BY <1>3, Steady DEF Follows

LEMMA DisconnectClosesStore ==
    ASSUME ConnInv, StoreInv, DisconnectCloses PROVE StoreInv'
<1>1. /\ disc.pc = "closing" /\ rt \in Fields /\ disc.sock \in Nat
      /\ rt.state \in {"disconnecting", "disconnected", "error"}
      /\ UNCHANGED <<attempts, rec, queued, ws, bridge, stored>>
  BY Unpacked DEF DisconnectCloses, ConnInv, ConnectionTypes, Activity, DiscInv
<1>2. ASSUME Calms(rt, rt') PROVE Calm /\ RecCalm
  BY <1>1, <1>2 DEF Calm, AttemptsCalm, SocketsCalm, BridgeCalm, StoreInv, Standing,
                    BridgeInv, RecCalm
<1>3. CASE disc.preserve
  <2>1. rt' = Disconnected(rt) /\ queue' = queue
    BY <1>3 DEF DisconnectCloses
  <2>2. Calms(rt, rt') /\ rt'.state = "disconnected"
    BY <1>1, <2>1, DisconnectedCalms
  <2>. QED  BY <1>1, <1>2, <2>1, <2>2, Steady
<1>4. CASE ~disc.preserve
  <2> DEFINE o == Operation("clear", None, None, "disconnect")
  <2>1. rt' = ClearSession(rt) /\ queue' = Append(queue, o)
    BY <1>4 DEF DisconnectCloses
  <2>2. o \in Operations /\ o.op # "save"
    BY OperationType DEF None
  <2>. HIDE DEF o
  <2>3. Follows(rt, rt') /\ rt'.state = rt.state
    BY <1>1, <2>1, ClearSessionFacts
  <2>4. Calm /\ RecCalm /\ rt'.state \notin Opening \cup {"connected"}
    BY <1>1, <1>2, <2>3, FollowsCalms DEF Opening
  <2>5. Saves(queue, rt', bridge')
    BY <2>4, SavesKept DEF StoreInv
  <2>6. Saves(queue', rt', bridge')
    BY <2>1, <2>2, <2>4, <2>5, SavesAppend, Unpacked
  <2>. QED  BY <2>4, <2>6, CalmStep
<1>. QED  BY <1>3, <1>4

LEMMA ReconnectDropsStore ==
    ASSUME ConnInv, StoreInv, ReconnectDrops PROVE StoreInv'
<1>1. /\ rec.pc = "closing" /\ Down(rec) /\ rt' = Dropped(rt, rec.sock)
      /\ rt \in Fields /\ rec.sock \in Nat
      /\ UNCHANGED <<attempts, disc, queued, ws, bridge, queue, stored>>
  BY DEF ReconnectDrops, ConnInv, RecInv, ConnectionTypes, Activity
<1>2. rec'.pc = "attempt" /\ rec'.active = rec.active
  BY DEF ReconnectDrops, ConnInv, ConnectionTypes, Activity
<1>3. rt'.socket = None /\ rt'.session = rt.session /\ Calms(rt, rt')
  BY <1>1, DroppedFacts, DroppedCalms DEF Down
<1>4. Calm /\ RecCalm
  BY <1>1, <1>2, <1>3 DEF Calm, AttemptsCalm, SocketsCalm, BridgeCalm, StoreInv,
                          Standing, BridgeInv, RecCalm
<1>5. Standing' /\ Settled' /\ Saves(queue', rt', bridge')
  BY <1>1, <1>4, StandingKept, SettledKept, SavesKept DEF StoreInv
<1>6. ConnectedInv'
  <2>1. \A a \in Attempts : Active(a)' <=> Active(a)
    BY <1>1 DEF Active
  <2>2. rt'.state = "connected" => rt.state = "connected"
    BY <1>3 DEF Calms
  <2>. QED  BY <1>1, <1>2, <1>3, <2>1, <2>2 DEF StoreInv, ConnectedInv
<1>. QED  BY <1>5, <1>6 DEF StoreInv

LEMMA ReconnectConnectsStore ==
    ASSUME ConnInv, StoreInv, ReconnectConnects PROVE StoreInv'
<1>1. /\ rec.pc = "attempt" /\ AttemptOver(rec) /\ Down(rec) /\ rt.socket = None
      /\ UNCHANGED <<ws, bridge, queue>> /\ rt \in Fields
  BY Unpacked DEF ReconnectConnects, ConnInv, RecInv
<1>2. \A a \in Attempts : ~Active(a)
  BY <1>1, AttemptsAreNumbers DEF AttemptOver, Down
<1> DEFINE r == [rt EXCEPT !.manual = FALSE]
<1>3. r \in Fields /\ r.socket = None /\ r.handshake = rt.handshake
  BY <1>1 DEF Fields
<1>4. rt' = Begun(r, Next1, TRUE) /\ BeginAttempt(Next1, FALSE, TRUE)
  BY DEF ReconnectConnects
<1>. HIDE DEF r
<1>5. rec'.pc = "connecting"
  BY DEF ReconnectConnects, Idle
<1>. QED  BY <1>1, <1>2, <1>3, <1>4, <1>5, BeginStore

LEMMA ReconnectEndsStore ==
    ASSUME ConnInv, StoreInv, ReconnectEnds PROVE StoreInv'
<1>1. /\ rec.pc = "connecting" /\ rec'.pc = "idle"
      /\ UNCHANGED <<rt, attempts, ws, bridge, queue, stored>>
  BY IdleType DEF ReconnectEnds
<1>. QED  BY <1>1, Unpacked, EventStore DEF RecCalm

LEMMA ConnectBeginsStore ==
    ASSUME ConnInv, StoreInv, MayBegin, rt.socket = None, NEW fresh \in BOOLEAN,
           ConnectBegins(fresh), UNCHANGED <<rec, ws, bridge, queue>>
    PROVE  StoreInv'
<1>1. \A a \in Attempts : ~Active(a)
  BY AttemptsAreNumbers DEF MayBegin, ConnInv, Known
<1> DEFINE r == CancelReconnect(rt)
<1>2. r \in Fields /\ r.socket = None /\ r.handshake = rt.handshake
  BY Unpacked, CancelFacts
<1>3. rt' = Begun(r, Next1, FALSE) /\ BeginAttempt(Next1, FALSE, fresh)
  BY DEF ConnectBegins
<1>. HIDE DEF r
<1>4. rec'.pc \notin {"closing", "attempt"}
  BY DEF MayBegin
<1>. QED  BY <1>1, <1>2, <1>3, <1>4, BeginStore

LEMMA QueuedConnectStore ==
    ASSUME ConnInv, StoreInv, QueuedConnect PROVE StoreInv'
<1>1. /\ queued /\ disc.pc = "idle" /\ UNCHANGED <<rec, ws, bridge, queue, stored>>
  BY DEF QueuedConnect
<1>2. CASE MayBegin
  <2>1. Resumable /\ \A a \in Attempts : ~Active(a)
    BY <1>1, <1>2, AttemptsAreNumbers DEF Resumable, MayBegin, ConnInv, Known
  <2>2. rt.socket = None
    BY <2>1 DEF ConnInv, QueuedInv
  <2>. QED  BY <1>1, <1>2, <2>2, ConnectBeginsStore DEF QueuedConnect
<1>3. CASE UNCHANGED <<rt, attempts>>
  BY <1>1, <1>3, Unpacked, EventStore DEF RecCalm
<1>. QED  BY <1>2, <1>3 DEF QueuedConnect

-----------------------------------------------------------------------------
LEMMA ConnectStore ==
    ASSUME ConnInv, StoreInv, Connect, ~Eager PROVE StoreInv'
<1>1. /\ UNCHANGED <<rec, ws, bridge, queue, stored>>
      /\ rt.socket = None \/ disc.pc # "idle"
  BY DEF Connect
<1>2. CASE UNCHANGED <<rt, attempts>>
  BY <1>1, <1>2, Unpacked, EventStore DEF RecCalm
<1>3. CASE MayBegin /\ \E fresh \in BOOLEAN : ConnectBegins(fresh)
  <2>1. rt.socket = None
    BY <1>1, <1>3 DEF MayBegin
  <2>. QED  BY <1>1, <1>3, <2>1, ConnectBeginsStore
<1>. QED  BY <1>2, <1>3 DEF Connect

LEMMA DisconnectStore ==
    ASSUME ConnInv, StoreInv, Disconnect PROVE StoreInv'
<1>1. CASE \E preserve \in BOOLEAN : DisconnectStarts(preserve)
  BY <1>1, DisconnectStartsStore
<1>2. CASE UNCHANGED <<rt, attempts, rec, queued, ws, bridge, queue, stored>>
  BY <1>2, Unpacked, EventStore DEF RecCalm
<1>. QED  BY <1>1, <1>2 DEF Disconnect

LEMMA ReconnectStore ==
    ASSUME ConnInv, StoreInv, Reconnect PROVE StoreInv'
<1>1. /\ rec.pc = "idle" /\ rec'.pc = "entered"
      /\ UNCHANGED <<rt, attempts, ws, bridge, queue, stored>>
  BY DEF Reconnect, Idle
<1>. QED  BY <1>1, Unpacked, EventStore DEF RecCalm

LEMMA CallerAbortsStore ==
    ASSUME ConnInv, StoreInv, NEW a \in Attempts, CallerAborts(a) PROVE StoreInv'
<1>1. /\ rt' = Abort(rt, a) /\ ws' = AbortCloses(ws, a)
      /\ attempts' = [attempts EXCEPT ![a].aborted = TRUE]
      /\ UNCHANGED <<rec, bridge, queue, stored>>
  BY AttemptsAreNumbers DEF CallerAborts, Aborted
<1>2. /\ Follows(rt, rt') /\ rt'.session = rt.session /\ rt'.state \in {rt.state, "error"}
  BY <1>1, Unpacked, AbortFacts, AttemptsAreNumbers
<1>3. \A b \in Attempts : attempts'[b].pc = attempts[b].pc
  BY <1>1 DEF ConnInv, ConnectionTypes, Attempt
<1>4. ws' = ws \/ \E b \in Nat : ws' = Closed(ws, b)
  BY <1>1, AttemptsAreNumbers DEF AbortCloses
<1>. QED  BY <1>1, <1>2, <1>3, <1>4, EventStore DEF RecCalm

LEMMA ReconnectTimerFiresStore ==
    ASSUME ConnInv, StoreInv, Quiet, ReconnectTimerFires PROVE StoreInv'
<1>1. /\ rt.timer /\ rt.socket = None /\ rt \in Fields /\ UNCHANGED <<rec, ws, bridge, queue>>
  BY Unpacked DEF ReconnectTimerFires, ConnInv, TimerInv
<1>2. \A a \in Attempts : ~Active(a)
  BY <1>1 DEF ConnInv, TimerInv, Quiet
<1>3. rec'.pc \notin {"closing", "attempt"}
  BY <1>1 DEF ConnInv, RecInv, Down
<1> DEFINE r == [rt EXCEPT !.timer = FALSE]
<1>4. r \in Fields /\ r.socket = None /\ r.handshake = rt.handshake
  BY <1>1 DEF Fields
<1>5. rt' = Begun(r, Next1, TRUE) /\ BeginAttempt(Next1, TRUE, FALSE)
  BY DEF ReconnectTimerFires
<1>. HIDE DEF r
<1>. QED  BY <1>1, <1>2, <1>3, <1>4, <1>5, BeginStore

LEMMA ConnectTimesOutStore ==
    ASSUME ConnInv, StoreInv, ConnectTimesOut PROVE StoreInv'
<1> DEFINE r == [rt EXCEPT !.connectTimer = None]
<1>1. /\ r \in Fields /\ Follows(rt, r) /\ r.state = rt.state /\ r.session = rt.session
  BY Unpacked DEF Fields, Follows, None
<1>2. /\ UNCHANGED <<attempts, rec, bridge, queue, stored>>
      /\ \/ rt' = Failed(r, "retryable") /\ ws' = Closed(ws, rt.socket)
         \/ rt' = r /\ ws' = ws
  BY DEF ConnectTimesOut
<1>. HIDE DEF r
<1>3. /\ Follows(rt, rt') /\ rt'.session = rt.session /\ rt'.state \in {rt.state, "error"}
  BY <1>1, <1>2, FailedFacts, FollowsTrans DEF Outcomes
<1>. QED  BY <1>2, <1>3, Unpacked, EventStore DEF RecCalm

LEMMA CloseWaitExpiresStore ==
    ASSUME ConnInv, StoreInv, CloseWaitExpires PROVE StoreInv'
<1>1. /\ UNCHANGED <<rt, attempts, queued, ws, bridge, queue, stored>>
      /\ rec' = rec \/ rec' = [rec EXCEPT !.waited = TRUE]
  BY DEF CloseWaitExpires
<1>2. RecCalm
  BY <1>1 DEF ConnInv, ConnectionTypes, Activity, RecCalm
<1>. QED  BY <1>1, <1>2, Unpacked, EventStore

-----------------------------------------------------------------------------
\* The bridge has not answered on a socket that opens.
LEMMA SocketOpensStore ==
    ASSUME ConnInv, StoreInv, NEW a \in Attempts, SocketOpens(a) PROVE StoreInv'
<1>1. /\ ws[a] = "connecting" /\ rt.socket = a /\ a # None /\ bridge[a] = "silent"
      /\ rt \in Fields /\ ws \in [Attempts -> SocketStates] /\ bridge \in [Attempts -> Answers]
      /\ UNCHANGED <<attempts, rec, queue, stored>>
  BY Unpacked, AttemptsAreNumbers DEF SocketOpens, ConnInv, SocketInv, Live, StoreInv,
                                      Standing, BridgeInv
<1>2. [ws EXCEPT ![a] = "open"][rt.socket] = "open"
  BY <1>1
<1>3. /\ rt' = [rt EXCEPT !.connectId = a]
      /\ ws' = [ws EXCEPT ![a] = "open"]
      /\ bridge' = [bridge EXCEPT ![a] = "asked"]
  BY <1>1, <1>2 DEF SocketOpens
<1>4. Calms(rt, rt') /\ rt'.state = rt.state
  BY <1>1, <1>3 DEF Calms, Fields
<1>5. SocketsCalm
  BY <1>1, <1>3 DEF SocketsCalm
<1>6. BridgeCalm
  <2>1. bridge' \in [Attempts -> Answers]
    BY <1>1, <1>3 DEF Answers, Unanswered
  <2>. QED  BY <1>1, <1>3, <2>1 DEF BridgeCalm, Live, Unanswered
<1>7. Calm /\ RecCalm
  BY <1>1, <1>4, <1>5, <1>6 DEF Calm, AttemptsCalm, RecCalm
<1>8. rt'.state # "connected"
  BY <1>1, <1>4 DEF StoreInv, ConnectedInv, Unanswered
<1>. QED  BY <1>1, <1>7, <1>8, Steady

LEMMA SocketClosesStore ==
    ASSUME ConnInv, StoreInv, NEW a \in Attempts, SocketCloses(a) PROVE StoreInv'
<1>1. /\ ws[a] \in Live \cup {"closing"} /\ rt' = SocketClosed(rt, a)
      /\ \A b \in Attempts : ws'[b] = IF b = a THEN "closed" ELSE ws[b]
      /\ rt \in Fields /\ UNCHANGED <<attempts, rec, bridge, queue, stored>>
  BY Unpacked DEF SocketCloses, Live
<1>2. CASE rt.socket # a
  <2>1. rt' = rt
    BY <1>1, <1>2 DEF SocketClosed
  <2>2. Calm /\ RecCalm
    BY <1>1, <1>2, <2>1 DEF Calm, Calms, AttemptsCalm, SocketsCalm, BridgeCalm, RecCalm,
                            StoreInv, Standing, BridgeInv
  <2>. QED  BY <1>1, <2>1, <2>2, Steady
<1>3. CASE rt.socket = a
  <2>1. Calms(rt, rt') /\ rt'.state # "connected" /\ rt'.socket = None /\ a # None
    BY <1>1, <1>3, SocketClosedCalms, AttemptsAreNumbers
  <2>2. Calm /\ RecCalm
    BY <1>1, <2>1 DEF Calm, AttemptsCalm, SocketsCalm, BridgeCalm, RecCalm, StoreInv,
                      Standing, BridgeInv
  <2>. QED  BY <1>1, <2>1, <2>2, Steady
<1>. QED  BY <1>2, <1>3

\* An answer of the bridge changes what it has said on the socket in use.
LEMMA AnswerCalm ==
    ASSUME ConnInv, StoreInv, NEW a \in Attempts, Delivers(a), Calms(rt, rt'),
           ws' = ws \/ \E b \in Nat : ws' = Closed(ws, b),
           NEW x \in Answers, bridge' = [bridge EXCEPT ![a] = x],
           x \in Unanswered => bridge[a] \in Unanswered,
           UNCHANGED <<attempts, rec>>
    PROVE  /\ Calm /\ RecCalm /\ bridge'[a] = x
           /\ rt.socket = a /\ a # None
           /\ bridge[a] \in Unanswered => rt.state # "connected"
           /\ \A i \in 1..Len(queue) :
                 queue[i].op = "save" /\ bridge[a] \in Unanswered => queue[i].a # a
<1>1. /\ ws[a] = "open" /\ rt.socket = a /\ a # None /\ bridge \in [Attempts -> Answers]
      /\ ws \in [Attempts -> SocketStates]
  BY Unpacked, AttemptsAreNumbers DEF Delivers, StoreInv, Standing, BridgeInv
<1>2. \A b \in Attempts : ws'[b] = ws[b] \/ (ws[b] \in Live /\ ws'[b] = "closing")
  BY <1>1, ClosedCalms
<1>3. SocketsCalm /\ AttemptsCalm /\ RecCalm
  BY <1>2 DEF SocketsCalm, AttemptsCalm, RecCalm
<1>4. BridgeCalm
  BY <1>1, <1>2 DEF BridgeCalm, Live
<1>5. bridge[a] \in Unanswered => rt.state # "connected"
  BY <1>1 DEF StoreInv, ConnectedInv
<1>6. \A i \in 1..Len(queue) :
        queue[i].op = "save" /\ bridge[a] \in Unanswered => queue[i].a # a
  BY DEF StoreInv, Saves
<1>. QED  BY <1>1, <1>3, <1>4, <1>5, <1>6 DEF Calm

LEMMA ApprovalRequiredStore ==
    ASSUME ConnInv, StoreInv, NEW a \in Attempts, ApprovalRequired(a) PROVE StoreInv'
<1>1. /\ Delivers(a) /\ bridge[a] = "asked" /\ bridge' = [bridge EXCEPT ![a] = "approval"]
      /\ UNCHANGED <<attempts, rec, queue, stored>>
      /\ \/ /\ rt.state \in {"connecting", "reconnecting"} /\ ws' = ws
            /\ rt' = [rt EXCEPT !.approval = TRUE, !.connectTimer = a,
                                !.state = "awaiting-approval"]
         \/ rt' = FailedForGood(rt) /\ ws' = Closed(ws, a)
  BY DEF ApprovalRequired, ProtocolFailure
<1>2. a \in Nat /\ rt \in Fields
  BY AttemptsAreNumbers, Unpacked
<1>3. Calms(rt, rt') /\ rt'.state # "connected"
  <2>1. CASE rt' = FailedForGood(rt)
    BY <1>2, <2>1, FailedForGoodFacts, FollowsCalms
  <2>2. CASE /\ rt.state \in {"connecting", "reconnecting"}
             /\ rt' = [rt EXCEPT !.approval = TRUE, !.connectTimer = a,
                                 !.state = "awaiting-approval"]
    BY <1>2, <2>2 DEF Fields, Calms, Opening
  <2>. QED  BY <1>1, <2>1, <2>2
<1>4. "approval" \in Answers /\ bridge[a] \in Unanswered
  BY <1>1 DEF Answers, Unanswered
<1>5. Calm /\ RecCalm
  BY <1>1, <1>2, <1>3, <1>4, AnswerCalm
<1>. QED  BY <1>1, <1>3, <1>5, Steady

\* The save of a welcome is the first for its attempt.
LEMMA WelcomeStore ==
    ASSUME ConnInv, StoreInv, NEW a \in Attempts, Welcome(a) PROVE StoreInv'
<1>1. /\ Delivers(a) /\ bridge[a] \in Unanswered
      /\ bridge' = [bridge EXCEPT ![a] = "welcomed"]
      /\ UNCHANGED <<attempts, rec, stored>>
      /\ a \in Nat /\ rt \in Fields /\ rt.handshake \in Nat
      /\ "welcomed" \in Answers \ Unanswered
  BY AttemptsAreNumbers, Unpacked DEF Welcome, Answers, Unanswered, Fields
<1>2. CASE rt.handshake # None /\ rt.connectId = a
  <2> DEFINE o == Operation("save", a, rt.handshake, "welcome")
  <2>1. queue' = Append(queue, o) /\ UNCHANGED <<rt, ws>>
    BY <1>2 DEF Welcome
  <2>2. /\ o \in Operations /\ o.op = "save" /\ o.for = "welcome" /\ o.a = a
        /\ o.handshake # None
    BY <1>1, <1>2, OperationType DEF Operation
  <2>. HIDE DEF o
  <2>3. Calms(rt, rt')
    BY <2>1 DEF Calms
  <2>4. /\ Calm /\ RecCalm /\ rt'.socket = a /\ rt'.state # "connected"
        /\ bridge'[a] \notin Unanswered
        /\ \A i \in 1..Len(queue) : queue[i].op = "save" => queue[i].a # a
    BY <1>1, <2>1, <2>3, AnswerCalm
  <2>5. Saves(queue, rt', bridge')
    BY <2>4, SavesKept DEF StoreInv
  <2>6. Saves(queue', rt', bridge')
    BY <2>1, <2>2, <2>4, <2>5, SavesAppend, Unpacked
  <2>. QED  BY <1>1, <2>4, <2>6, CalmStep
<1>3. CASE ~(rt.handshake # None /\ rt.connectId = a)
  <2>1. rt' = FailedForGood(rt) /\ ws' = Closed(ws, a) /\ queue' = queue
    BY <1>3 DEF Welcome, ProtocolFailure
  <2>2. Calms(rt, rt') /\ rt'.state # "connected"
    BY <1>1, <2>1, FailedForGoodFacts, FollowsCalms
  <2>3. Calm /\ RecCalm
    BY <1>1, <2>1, <2>2, AnswerCalm
  <2>. QED  BY <1>1, <2>1, <2>2, <2>3, Steady
<1>. QED  BY <1>2, <1>3

LEMMA RefusedStore ==
    ASSUME ConnInv, StoreInv, NEW a \in Attempts, NEW code \in RefusalCodes, Refused(a, code)
    PROVE  StoreInv'
<1> DEFINE s == ClearSession(FailedForGood(rt))
           o == Operation("clear", a, None, "refusal")
           x == IF code = "RATE_LIMITED" THEN "refused" ELSE "rejected"
<1>1. /\ Delivers(a) /\ bridge[a] \in Unanswered /\ bridge' = [bridge EXCEPT ![a] = x]
      /\ UNCHANGED <<attempts, rec, ws, stored>>
      /\ \/ rt' = rt /\ queue' = queue
         \/ rt' = s /\ queue' = Append(queue, o)
         \/ rt' = FailedForGood(rt) /\ queue' = queue
         \/ rt' = Failed(rt, "retryable") /\ queue' = queue
  BY DEF Refused, RefusalCodes, Unanswered
<1>2. rt \in Fields /\ a \in Nat /\ x \in Answers \ Unanswered
  BY Unpacked, AttemptsAreNumbers DEF Answers, Unanswered
<1>3. o \in Operations /\ o.op # "save"
  BY <1>2, OperationType DEF None
<1>4. /\ FailedForGood(rt) \in Fields /\ FailedForGood(rt).state = "error"
      /\ Calms(rt, FailedForGood(rt)) /\ Follows(rt, FailedForGood(rt))
  BY <1>2, FailedForGoodFacts, FollowsCalms
<1>5. Failed(rt, "retryable").state = "error" /\ Calms(rt, Failed(rt, "retryable"))
  BY <1>2, FailedFacts, FollowsCalms DEF Outcomes
<1>6. s.state = "error" /\ Calms(rt, s)
  BY <1>4, ClearSessionFacts, FollowsTrans, FollowsCalms
<1>. HIDE DEF s, o, x
<1>7. Calms(rt, rt') /\ rt'.state \in {rt.state, "error"}
  BY <1>1, <1>4, <1>5, <1>6 DEF Calms
<1>8. Calm /\ RecCalm /\ rt.state # "connected"
  BY <1>1, <1>2, <1>7, AnswerCalm
<1>9. rt'.state # "connected"
  BY <1>7, <1>8
<1>10. CASE queue' = queue
  BY <1>1, <1>8, <1>9, <1>10, Steady
<1>11. CASE rt' = s /\ queue' = Append(queue, o)
  <2>1. Saves(queue, rt', bridge') /\ rt'.state \notin Opening
    BY <1>6, <1>8, <1>11, SavesKept DEF StoreInv, Opening
  <2>2. Saves(queue', rt', bridge')
    BY <1>3, <1>11, <2>1, SavesAppend, Unpacked
  <2>. QED  BY <1>8, <1>9, <2>2, CalmStep
<1>. QED  BY <1>1, <1>10, <1>11

LEMMA UnexpectedStore ==
    ASSUME ConnInv, StoreInv, NEW a \in Attempts, Unexpected(a) PROVE StoreInv'
<1>1. /\ rt' = FailedForGood(rt) /\ ws' = Closed(ws, a) /\ a \in Nat
      /\ UNCHANGED <<attempts, rec, bridge, queue, stored>>
  BY AttemptsAreNumbers DEF Unexpected, ProtocolFailure
<1>2. /\ Follows(rt, rt') /\ rt'.session = rt.session /\ rt'.state = "error"
  BY <1>1, Unpacked, FailedForGoodFacts
<1>. QED  BY <1>1, <1>2, EventStore DEF RecCalm

\* The bridge takes back the session of a store at rest.
LEMMA BridgeDisconnectsStore ==
    ASSUME ConnInv, StoreInv, NEW a \in Attempts, NEW canResume \in BOOLEAN,
           BridgeDisconnects(a, canResume)
    PROVE  StoreInv'
<1> DEFINE x == IF canResume THEN "left" ELSE "revoked"
           o == Operation("clear", a, None, "leave")
<1>1. /\ Delivers(a) /\ rt.session # None /\ rt.state = "connected" /\ bridge[a] = "welcomed"
      /\ bridge' = [bridge EXCEPT ![a] = x]
      /\ UNCHANGED <<attempts, rec, stored>>
      /\ rt \in Fields /\ rt.socket \in Nat /\ a \in Nat /\ x \in Answers \ Unanswered
  BY Unpacked, AttemptsAreNumbers DEF BridgeDisconnects, Answers, Unanswered
<1>2. queue = <<>> /\ rt.socket = a /\ a # None
  BY <1>1, AttemptsAreNumbers DEF Delivers, StoreInv, ConnectedInv
<1>3. CASE canResume
  <2>1. ws' = Closed(ws, rt.socket) /\ UNCHANGED <<rt, queue>>
    BY <1>3 DEF BridgeDisconnects
  <2>2. Calms(rt, rt')
    BY <2>1 DEF Calms
  <2>. HIDE DEF x
  <2>3. Calm /\ RecCalm
    BY <1>1, <2>1, <2>2, AnswerCalm
  <2>. QED  BY <1>1, <2>1, <2>3, Steady
<1>4. CASE ~canResume
  <2>1. /\ rt' = [ClearSession(rt) EXCEPT !.suppress = TRUE] /\ ws' = ws
        /\ queue' = Append(queue, o)
    BY <1>4 DEF BridgeDisconnects
  <2>2. o.for = "leave" /\ o.op # "save"
    BY <1>1, OperationType DEF None
  <2>. HIDE DEF o, x
  <2>3. /\ Calms(rt, rt') /\ rt'.session = None /\ rt'.state = rt.state
        /\ rt'.socket = rt.socket
    BY <1>1, <2>1 DEF ClearSession, Fields, Calms
  <2>4. Calm /\ RecCalm /\ bridge'[a] = x
    BY <1>1, <2>1, <2>3, AnswerCalm
  <2>5. Len(queue') = 1 /\ queue'[1] = o
    BY <1>2, <2>1
  <2>6. Standing' /\ Settled'
    BY <2>4, StandingKept, SettledKept DEF StoreInv
  <2>7. Saves(queue', rt', bridge')
    BY <2>2, <2>5 DEF Saves
  <2>8. ConnectedInv'
    <3>1. \A b \in Attempts : Active(b)' <=> Active(b)
      BY <1>1 DEF Active
    <3>2. bridge'[rt'.socket] \notin Unanswered
      BY <1>1, <1>2, <2>3, <2>4
    <3>. QED  BY <1>1, <1>2, <2>2, <2>3, <2>5, <3>1, <3>2 DEF StoreInv, ConnectedInv
  <2>. QED  BY <2>6, <2>7, <2>8 DEF StoreInv
<1>. QED  BY <1>3, <1>4

LEMMA RegistrationsSettleStore ==
    ASSUME ConnInv, StoreInv, RegistrationsSettle PROVE StoreInv'
<1>1. /\ rt' = [rt EXCEPT !.hs = [rt.hs EXCEPT ![rt.handshake] = "ok"]]
      /\ UNCHANGED <<attempts, rec, ws, bridge, queue, stored>>
  BY Zenon DEF RegistrationsSettle
<1>2. \A b \in Attempts : [rt.hs EXCEPT ![rt.handshake] = "ok"][b] = "pending"
                            => rt.hs[b] = "pending"
  BY Unpacked DEF Fields
<1>3. Follows(rt, rt') /\ rt'.session = rt.session /\ rt'.state = rt.state
  BY <1>1, <1>2, Unpacked DEF Fields, Follows
<1>. QED  BY <1>1, <1>3, EventStore DEF RecCalm

-----------------------------------------------------------------------------
\* What an operation that ends leaves behind; whoever is connected has taken its leave.
LEMMA EndsFacts ==
    ASSUME ConnInv, StoreInv, queue # <<>>
    PROVE  /\ Tail(queue) \in Seq(Operations) /\ Head(queue) \in Operations
           /\ Saves(Tail(queue), rt, bridge)
           /\ rt.state = "connected" =>
                 /\ Head(queue).for = "leave" /\ Tail(queue) = <<>>
                 /\ rt.session = None
           /\ Head(queue).op = "save" =>
                 /\ Head(queue).for = "welcome" /\ Head(queue).a \in Attempts
                 /\ Head(queue).handshake # None
                 /\ bridge[Head(queue).a] \notin Unanswered
                 /\ rt.socket = Head(queue).a /\ rt.state \in Opening => Tail(queue) = <<>>
<1>0. queue \in Seq(Operations)
  BY Unpacked
<1>1. /\ Tail(queue) \in Seq(Operations) /\ Head(queue) \in Operations
      /\ Head(queue) = queue[1] /\ 1 \in 1..Len(queue)
      /\ Len(queue) = 1 => Tail(queue) = <<>>
  <2> DEFINE t == Tail(queue)
  <2>1. Len(t) = Len(queue) - 1 /\ t \in Seq(Operations)
    BY <1>0
  <2>. HIDE DEF t
  <2>2. Len(queue) = 1 => t = <<>>
    BY <2>1
  <2>. QED  BY <1>0, <2>1, <2>2 DEF t
<1>2. Saves(Tail(queue), rt, bridge)
  BY <1>0, SavesTail DEF StoreInv
<1>3. rt.state = "connected" =>
        /\ Head(queue).for = "leave" /\ Tail(queue) = <<>>
        /\ rt.session = None
  BY <1>1 DEF StoreInv, ConnectedInv
<1>4. queue[1].op = "save" =>
        /\ queue[1].for = "welcome" /\ queue[1].a \in Attempts /\ queue[1].handshake # None
        /\ bridge[queue[1].a] \notin Unanswered
        /\ rt.socket = queue[1].a /\ rt.state \in Opening => 1 = Len(queue)
  BY <1>1 DEF StoreInv, Saves
<1>. QED  BY <1>1, <1>2, <1>3, <1>4

LEMMA LoadedStore ==
    ASSUME ConnInv, StoreInv, queue # <<>>, Head(queue).op = "load", NEW ok \in BOOLEAN,
           Loaded(Head(queue), ok), UNCHANGED <<rec, bridge>>
    PROVE  StoreInv'
<1> DEFINE a == Head(queue).a
           q == Tail(queue)
<1>1. /\ a \in Attempts /\ attempts[a].pc \in Before /\ q \in Seq(Operations)
      /\ Saves(q, rt, bridge)
  BY StoreFacts, EndsFacts DEF Before
<1>2. \/ Fails(a, ClearSession(rt)) /\ queue' = q
      \/ WithSession(a, stored, q)
      \/ attempts' = [attempts EXCEPT ![a].pc = "token"] /\ queue' = q /\ UNCHANGED <<rt, ws>>
  BY DEF Loaded
<1>. HIDE DEF a, q
<1>3. rt \in Fields /\ stored \in Nat /\ Calms(rt, rt)
  BY Unpacked DEF Calms
<1>4. CASE Fails(a, ClearSession(rt)) /\ queue' = q
  <2>1. /\ ClearSession(rt) \in Fields /\ Follows(rt, ClearSession(rt))
        /\ ClearSession(rt).state = rt.state
    BY <1>3, ClearSessionFacts
  <2>. QED  BY <1>1, <1>4, <2>1, FailsStore
<1>5. CASE WithSession(a, stored, q)
  BY <1>1, <1>3, <1>5, WithSessionStore
<1>6. CASE attempts' = [attempts EXCEPT ![a].pc = "token"] /\ queue' = q /\ UNCHANGED <<rt, ws>>
  BY <1>1, <1>3, <1>6, MoveStore DEF Before
<1>. QED  BY <1>2, <1>4, <1>5, <1>6

LEMMA SavedStore ==
    ASSUME ConnInv, StoreInv, queue # <<>>, Head(queue).op = "save", NEW ok \in BOOLEAN,
           Saved(Head(queue), ok), UNCHANGED <<rec, bridge>>
    PROVE  StoreInv'
<1> DEFINE h == Head(queue)
           q == Tail(queue)
<1>1. /\ q \in Seq(Operations) /\ Saves(q, rt, bridge)
      /\ rt.state # "connected"
      /\ h.a \in Attempts /\ h.handshake # None /\ bridge[h.a] \notin Unanswered
      /\ rt.socket = h.a /\ rt.state \in Opening => q = <<>>
  BY EndsFacts
<1>2. UNCHANGED <<attempts, rec, bridge>>
  BY DEF Saved
<1>3. \/ queue' = q /\ UNCHANGED <<rt, ws>>
      \/ /\ IsPendingHandshake(h.a, h.handshake) /\ stored' = h.a
         /\ rt' = [rt EXCEPT !.approval = FALSE, !.session = h.a,
                             !.tries = 0, !.state = "connected"]
         /\ queue' = q /\ UNCHANGED ws
      \/ /\ rt' = FailedForGood(ClearSession(rt)) /\ ws' = Closed(ws, h.a)
         /\ queue' = Append(q, Operation("clear", h.a, None, "cleanup"))
  BY DEF Saved
<1>. HIDE DEF h, q
<1>4. rt \in Fields /\ h.a \in Nat /\ ws \in [Attempts -> SocketStates]
  BY <1>1, Unpacked, AttemptsAreNumbers
<1>5. CASE queue' = q /\ UNCHANGED <<rt, ws>>
  <2>1. Calm /\ RecCalm
    BY <1>2, <1>5 DEF Calm, Calms, AttemptsCalm, SocketsCalm, BridgeCalm, RecCalm,
                      StoreInv, Standing, BridgeInv
  <2>. QED  BY <1>1, <1>2, <1>5, <2>1, CalmStep
<1>6. CASE /\ IsPendingHandshake(h.a, h.handshake) /\ stored' = h.a
           /\ rt' = [rt EXCEPT !.approval = FALSE, !.session = h.a,
                               !.tries = 0, !.state = "connected"]
           /\ queue' = q /\ UNCHANGED ws
  <2>1. /\ rt'.socket = rt.socket /\ rt'.connecting = rt.connecting
        /\ rt'.handshake = rt.handshake /\ rt'.hs = rt.hs
        /\ rt'.session = h.a /\ rt'.state = "connected"
    BY <1>4, <1>6 DEF Fields
  <2>2. /\ rt.socket = h.a /\ rt.handshake # None /\ q = <<>> /\ h.a # None
    BY <1>1, <1>6, AttemptsAreNumbers DEF IsPendingHandshake, Opening
  <2>3. Standing' /\ Settled'
    <3>1. Used' = Used
      BY <1>2 DEF Used
    <3>. QED  BY <1>2, <1>6, <2>1, <3>1 DEF StoreInv, Standing, UsedInv, HandshakeInv,
                                            OwnSocket, SocketAlive, BridgeInv, Settled
  <2>4. Saves(queue', rt', bridge')
    BY <1>6, <2>2 DEF Saves
  <2>5. \A b \in Attempts : Active(b)' => attempts'[b].pc = "handshake"
    BY <1>2, <2>2 DEF ConnInv, Known, Active
  <2>6. rec'.pc \in {"closing", "attempt"} => rec'.active \in {None} \cup Attempts
    <3>1. rt.handshake \in Attempts /\ Active(rt.handshake)
      BY <2>2 DEF StoreInv, Standing, HandshakeInv, Active
    <3>. QED  BY <1>2, <3>1 DEF ConnInv, RecInv, Down
  <2>. QED  BY <1>1, <1>2, <1>6, <2>1, <2>2, <2>3, <2>4, <2>5, <2>6
            DEF StoreInv, ConnectedInv
<1>7. CASE /\ rt' = FailedForGood(ClearSession(rt)) /\ ws' = Closed(ws, h.a)
           /\ queue' = Append(q, Operation("clear", h.a, None, "cleanup"))
  <2> DEFINE o == Operation("clear", h.a, None, "cleanup")
  <2>1. o \in Operations /\ o.op # "save"
    BY <1>4, OperationType DEF None
  <2>2. queue' = Append(q, o)
    BY <1>7
  <2>. HIDE DEF o
  <2>3. Follows(rt, rt') /\ rt'.state = "error"
    BY <1>4, <1>7, ClearSessionFacts, FailedForGoodFacts, FollowsTrans
  <2>4. SocketsCalm
    BY <1>4, <1>7, ClosedCalms DEF SocketsCalm
  <2>5. Calm /\ RecCalm
    BY <1>2, <2>3, <2>4, FollowsCalms DEF Calm, AttemptsCalm, BridgeCalm, RecCalm,
                                          StoreInv, Standing, BridgeInv
  <2>6. Saves(q, rt', bridge') /\ rt'.state \notin Opening
    BY <1>1, <2>3, <2>5, SavesKept DEF Opening
  <2>7. Saves(queue', rt', bridge')
    BY <1>1, <2>1, <2>2, <2>6, SavesAppend
  <2>. QED  BY <2>3, <2>5, <2>7, CalmStep
<1>. QED  BY <1>3, <1>5, <1>6, <1>7

LEMMA ClearedStore ==
    ASSUME ConnInv, StoreInv, queue # <<>>, Head(queue).op \notin {"load", "save"},
           NEW ok \in BOOLEAN, Cleared(Head(queue), ok), UNCHANGED <<rec, bridge>>
    PROVE  StoreInv'
<1> DEFINE h == Head(queue)
           q == Tail(queue)
<1>1. /\ q \in Seq(Operations) /\ Saves(q, rt, bridge)
      /\ rt.state = "connected" => h.for = "leave" /\ q = <<>> /\ rt.session = None
      /\ h.for = "attempt" => h.a \in Attempts /\ attempts[h.a].pc = "clear"
  <2>1. h.op = "clear"
    BY EndsFacts DEF Operations
  <2>. QED  BY <2>1, EndsFacts, StoreFacts
<1>2. queue' = q /\ UNCHANGED <<rec, bridge>> /\ Cleared(h, ok)
  BY DEF Cleared
<1>. HIDE DEF h, q
<1>3. /\ rt.socket \in Nat /\ rt \in Fields /\ ws \in [Attempts -> SocketStates]
      /\ Follows(rt, rt) /\ Calms(rt, rt)
  BY Unpacked DEF Calms
<1>4. ASSUME Calms(rt, rt'), UNCHANGED attempts,
             ws' = ws \/ \E b \in Nat : ws' = Closed(ws, b)
      PROVE  Calm /\ RecCalm /\ Saves(queue', rt', bridge')
  <2>1. SocketsCalm
    BY <1>3, <1>4, ClosedCalms DEF SocketsCalm
  <2>2. Calm /\ RecCalm
    BY <1>2, <1>4, <2>1 DEF Calm, AttemptsCalm, BridgeCalm, RecCalm, StoreInv, Standing,
                            BridgeInv
  <2>. QED  BY <1>1, <1>2, <2>2, SavesKept
<1>5. CASE h.for = "attempt"
  <2>1. h.a \in Attempts /\ attempts[h.a].pc \in Before
    BY <1>1, <1>5 DEF Before
  <2>2. CASE Fails(h.a, rt)
    BY <1>1, <1>2, <1>3, <2>1, <2>2, FailsStore
  <2>3. CASE attempts' = [attempts EXCEPT ![h.a].pc = "token"] /\ UNCHANGED <<rt, ws>>
    BY <1>1, <1>2, <1>3, <2>1, <2>3, MoveStore DEF Before
  <2>. QED  BY <1>2, <1>5, <2>2, <2>3 DEF Cleared
<1>6. CASE h.for = "disconnect"
  <2>1. rt' = Disconnected(rt) /\ UNCHANGED <<attempts, ws>> /\ disc.sock \in Nat
    BY <1>2, <1>6 DEF Cleared, ConnInv, ConnectionTypes, Activity
  <2>2. Calms(rt, rt') /\ rt'.state = "disconnected"
    BY <2>1, DisconnectedCalms
  <2>. QED  BY <1>4, <2>1, <2>2, CalmStep
<1>7. CASE h.for = "leave"
  <2>1. /\ rt' = (IF ok THEN rt ELSE Failed(rt, "final")) /\ ws' = Closed(ws, rt.socket)
        /\ UNCHANGED attempts /\ stored' = IF ok THEN None ELSE stored
    BY <1>2, <1>7 DEF Cleared
  <2>2. Calms(rt, Failed(rt, "final")) /\ Failed(rt, "final").state = "error"
    BY <1>3, FailedFacts, FollowsCalms DEF Outcomes
  <2>3. Calms(rt, rt')
    BY <1>3, <2>1, <2>2
  <2>4. Calm /\ RecCalm /\ Saves(queue', rt', bridge')
    BY <1>3, <1>4, <2>1, <2>3
  <2>5. CASE rt'.state # "connected"
    BY <2>4, <2>5, CalmStep
  <2>6. CASE rt'.state = "connected"
    <3>1. /\ rt' = rt /\ rt.state = "connected" /\ stored' = None
          /\ q = <<>> /\ rt.session = None
      BY <1>1, <2>1, <2>2, <2>3, <2>6 DEF Calms
    <3>2. Standing' /\ Settled'
      BY <2>4, StandingKept, SettledKept DEF StoreInv
    <3>3. rt.socket # None => ws'[rt.socket] = "closing"
      BY <1>3, <2>1, ClosedCalms DEF StoreInv, Standing, SocketAlive, Live
    <3>4. \A b \in Attempts : Active(b)' <=> Active(b)
      BY <2>1 DEF Active
    <3>5. ConnectedInv'
      BY <1>2, <2>1, <3>1, <3>3, <3>4 DEF StoreInv, ConnectedInv
    <3>. QED  BY <2>4, <3>2, <3>5 DEF StoreInv
  <2>. QED  BY <2>5, <2>6
<1>8. CASE h.for \notin {"attempt", "disconnect", "leave"}
  <2>1. /\ UNCHANGED attempts
        /\ \/ rt' = FailedForGood(rt) /\ ws' = Closed(ws, rt.socket)
           \/ UNCHANGED <<rt, ws>>
    BY <1>2, <1>8 DEF Cleared, ProtocolFailure
  <2>2. Calms(rt, rt')
    BY <1>3, <2>1, FailedForGoodFacts, FollowsCalms
  <2>3. rt'.state # "connected"
    BY <1>1, <1>8, <2>2 DEF Calms
  <2>. QED  BY <1>3, <1>4, <2>1, <2>2, <2>3, CalmStep
<1>. QED  BY <1>5, <1>6, <1>7, <1>8

LEMMA StoreEndsStore ==
    ASSUME ConnInv, StoreInv, StoreEnds PROVE StoreInv'
<1>1. queue # <<>> /\ UNCHANGED <<rec, bridge>>
  BY DEF StoreEnds
<1>2. PICK ok \in BOOLEAN :
        CASE Head(queue).op = "load" -> Loaded(Head(queue), ok)
          [] Head(queue).op = "save" -> Saved(Head(queue), ok)
          [] OTHER -> Cleared(Head(queue), ok)
  BY DEF StoreEnds
<1>3. CASE Head(queue).op = "load"
  BY <1>1, <1>2, <1>3, LoadedStore
<1>4. CASE Head(queue).op = "save"
  BY <1>1, <1>2, <1>4, SavedStore
<1>5. CASE Head(queue).op \notin {"load", "save"}
  BY <1>1, <1>2, <1>5, ClearedStore
<1>. QED  BY <1>3, <1>4, <1>5

-----------------------------------------------------------------------------
LEMMA InitStoreInv == ASSUME Init PROVE StoreInv
<1>1. \A a \in Attempts : attempts[a].pc = "unused"
  BY DEF Init, Unused
<1>2. UsedInv
  <2>1. Used = 1..0
    BY <1>1 DEF Used
  <2>2. 0 \in 0..MaxConnects
    BY WebConnectionAssumption DEF WebConnectionAssumption
  <2>. QED  BY <2>1, <2>2 DEF UsedInv
<1>3. HandshakeInv /\ OwnSocket /\ SocketAlive /\ Settled /\ ConnectedInv
  BY <1>1 DEF Init, HandshakeInv, OwnSocket, SocketAlive, Settled, ConnectedInv
<1>4. BridgeInv /\ Saves(queue, rt, bridge)
  BY DEF Init, BridgeInv, Answers, Unanswered, Saves
<1>. QED  BY <1>2, <1>3, <1>4 DEF StoreInv, Standing

LEMMA NextStoreInv ==
    ASSUME ~Eager, ConnInv, StoreInv, [Next]_vars PROVE StoreInv'
<1>1. CASE Continuation
  <2>1. disc.preserve \in BOOLEAN
    BY DEF ConnInv, ConnectionTypes, Activity
  <2>2. DisconnectFollows => StoreInv'
    BY <2>1, DisconnectStartsStore DEF DisconnectFollows
  <2>. QED  BY <1>1, <2>2, AuthenticatesStore, SettlesStore, DisconnectClosesStore,
            ReconnectStartsStore, ReconnectDropsStore, ReconnectConnectsStore,
            ReconnectEndsStore, QueuedConnectStore DEF Continuation
<1>2. CASE Application
  BY <1>2, ConnectStore, DisconnectStore, ReconnectStore, CallerAbortsStore DEF Application
<1>3. CASE Quiet /\ Timers
  BY <1>3, ReconnectTimerFiresStore, ConnectTimesOutStore, CloseWaitExpiresStore DEF Timers
<1>4. CASE Awaited
  BY <1>4, StoreEndsStore, PreparedStore, TokenGivenStore DEF Awaited
<1>5. CASE RegistrationsSettle
  BY <1>5, RegistrationsSettleStore
<1>6. CASE \E a \in Attempts : SocketOpens(a) \/ SocketCloses(a) \/ Message(a)
  BY <1>6, SocketOpensStore, SocketClosesStore, ApprovalRequiredStore, WelcomeStore,
     UnexpectedStore, RefusedStore, BridgeDisconnectsStore DEF Message
<1>7. CASE UNCHANGED vars
  BY <1>7, Unpacked, EventStore DEF vars, RecCalm
<1>. QED  BY <1>1, <1>2, <1>3, <1>4, <1>5, <1>6, <1>7 DEF Next

\* What a reload resumes is what the bridge issued last (#acceptWelcome, the serialized
\* #sessionStoreTail): while connected with the store at rest, the stored session, the
\* one in memory and the socket are those of one welcome.  The save that completes a
\* handshake is the last operation of the store, for its attempt asked for it behind
\* everything earlier ones had left there.
THEOREM StoredSessionIsCurrent ==
    ASSUME ~Eager PROVE Spec => []StoredIsCurrent
<1>1. Init => ConnInv /\ StoreInv
  BY InitConnInv, InitStoreInv
<1>2. (ConnInv /\ StoreInv) /\ [Next]_vars => (ConnInv /\ StoreInv)'
  BY NextConnInv, NextStoreInv
<1>3. ConnInv /\ StoreInv => StoredIsCurrent
  <2> SUFFICES ASSUME ConnInv, StoreInv, rt.state = "connected", queue = <<>>, Quiet
               PROVE  /\ stored = rt.session
                      /\ rt.session # None => rt.session = rt.socket
                      /\ rt.session = None => ws[rt.socket] = "closing"
    BY DEF StoredIsCurrent
  <2>1. rt.socket # None
    <3> SUFFICES ASSUME rt.socket = None PROVE FALSE
      OBVIOUS
    <3>1. rec.pc = "attempt" /\ rec.active \in {None} \cup Attempts
      BY DEF StoreInv, ConnectedInv
    <3>2. ~AttemptOver(rec)
      BY <3>1 DEF Quiet
    <3>3. PICK a \in Attempts : Active(a)
      BY <3>1, <3>2 DEF AttemptOver
    <3>4. attempts[a].pc = "handshake" /\ rt.hs[a] = "pending"
      BY <3>3 DEF StoreInv, ConnectedInv, Quiet
    <3>. QED  BY <3>1, <3>4 DEF StoreInv, Settled
  <2>2. Len(queue) # 1
    OBVIOUS
  <2>. QED  BY <2>1, <2>2 DEF StoreInv, ConnectedInv
<1>. QED  BY <1>1, <1>2, <1>3, PTL DEF Spec


-----------------------------------------------------------------------------
(* The rejection of a credential.                                          *)

\* No attempt has been begun after a.
Latest(a) == \A b \in Attempts : b > a => attempts[b].pc = "unused"

LatestInv == \A a \in Attempts : Active(a) \/ rt.socket = a => Latest(a)
UnusedInv == \A a \in Attempts : attempts[a].pc = "unused" => ~attempts[a].auto
\* While the bridge has not answered on a socket, the handshake of its attempt waits.
AskingInv ==
    \A a \in Attempts : ws[a] \in Live /\ bridge[a] \in Unanswered =>
        /\ attempts[a].pc = "handshake" /\ rt.hs[a] = "pending" /\ rt.handshake = a
        /\ ws[a] = "open" => rt.connectId = a
\* A rejected attempt ends for good, the close of its socket is not a reason to
\* reconnect, and no reconnection is scheduled until another attempt is begun.
RefusedInv ==
    \A a \in Attempts : bridge[a] = "rejected" =>
        /\ attempts[a].pc = "handshake" => rt.hs[a] = "final"
        /\ rt.socket = a => rt.suppress
        /\ Latest(a) => ~rt.timer
FinalInv == LatestInv /\ UnusedInv /\ AskingInv /\ RefusedInv

\* s is r with nothing of a rejection undone.
Keeps(r, s) ==
    /\ s.connectId = r.connectId
    /\ s.socket \in {r.socket, None}
    /\ s.timer => r.timer
    /\ r.suppress => s.suppress
    /\ \A b \in Attempts : r.hs[b] # "pending" => s.hs[b] = r.hs[b]

LEMMA KeepsTrans ==
    ASSUME NEW r, NEW s, NEW t, Keeps(r, s), Keeps(s, t) PROVE Keeps(r, t)
  BY DEF Keeps

LEMMA RejectedKeeps ==
    ASSUME NEW r \in Fields, NEW o \in Outcomes \ {"pending"}
    PROVE  LET s == Rejected(r, o)
           IN  /\ Keeps(r, s) /\ s.suppress = r.suppress
               /\ r.handshake \in Attempts /\ r.hs[r.handshake] = "pending"
                    => s.hs[r.handshake] = o
<1>1. CASE r.handshake # None /\ r.hs[r.handshake] = "pending"
  <2> DEFINE s == [r EXCEPT !.hs[r.handshake] = o]
  <2>1. /\ s.hs = [r.hs EXCEPT ![r.handshake] = o]
        /\ s.socket = r.socket /\ s.connectId = r.connectId /\ s.timer = r.timer
        /\ s.suppress = r.suppress
    BY Zenon DEF Fields
  <2>2. r.hs \in [Attempts -> Outcomes]
    BY DEF Fields
  <2>. HIDE DEF s
  <2>3. \A b \in Attempts : s.hs[b] = IF b = r.handshake THEN o ELSE r.hs[b]
    BY <2>1, <2>2
  <2>. QED  BY <1>1, <2>1, <2>3 DEF Rejected, Keeps, s
<1>2. CASE ~(r.handshake # None /\ r.hs[r.handshake] = "pending")
  BY <1>2, AttemptsAreNumbers DEF Rejected, Keeps
<1>. QED  BY <1>1, <1>2

LEMMA FailedKeeps ==
    ASSUME NEW r \in Fields, NEW o \in Outcomes \ {"pending"}
    PROVE  LET s == Failed(r, o)
           IN  /\ Keeps(r, s)
               /\ r.handshake \in Attempts /\ r.hs[r.handshake] = "pending"
                    => s.hs[r.handshake] = o
<1> DEFINE q == Rejected(r, o)
           s == [q EXCEPT !.approval = FALSE, !.state = "error"]
<1>1. /\ q \in Fields /\ Keeps(r, q)
      /\ r.handshake \in Attempts /\ r.hs[r.handshake] = "pending"
            => q.hs[r.handshake] = o
  BY RejectedFacts, RejectedKeeps
<1>. HIDE DEF q
<1>2. Keeps(q, s) /\ s.hs = q.hs
  BY <1>1 DEF Fields, Keeps
<1>3. Failed(r, o) = s
  BY DEF Failed, q
<1>. HIDE DEF s
<1>. QED  BY <1>1, <1>2, <1>3, KeepsTrans

LEMMA FailedForGoodKeeps ==
    ASSUME NEW r \in Fields
    PROVE  LET s == FailedForGood(r)
           IN  /\ Keeps(r, s) /\ s.suppress
               /\ r.handshake \in Attempts /\ r.hs[r.handshake] = "pending"
                    => s.hs[r.handshake] = "final"
<1> DEFINE q == Failed(r, "final")
           s == [q EXCEPT !.suppress = TRUE]
<1>1. /\ q \in Fields /\ Keeps(r, q)
      /\ r.handshake \in Attempts /\ r.hs[r.handshake] = "pending"
            => q.hs[r.handshake] = "final"
  BY FailedFacts, FailedKeeps DEF Outcomes
<1>. HIDE DEF q
<1>2. Keeps(q, s) /\ s.hs = q.hs /\ s.suppress
  BY <1>1 DEF Fields, Keeps
<1>3. FailedForGood(r) = s
  BY DEF FailedForGood, q
<1>. HIDE DEF s
<1>. QED  BY <1>1, <1>2, <1>3, KeepsTrans

LEMMA ClearSessionKeeps ==
    ASSUME NEW r \in Fields PROVE Keeps(r, ClearSession(r)) /\ ClearSession(r).suppress = r.suppress
  BY DEF Fields, Keeps, ClearSession

LEMMA DroppedKeeps ==
    ASSUME NEW r \in Fields, NEW a \in Nat PROVE Keeps(r, Dropped(r, a))
<1> DEFINE q == Rejected(r, "retryable")
           s == [q EXCEPT !.socket = None]
<1>1. q \in Fields /\ Keeps(r, q) /\ Keeps(r, r)
  BY RejectedFacts, RejectedKeeps DEF Outcomes, Keeps
<1>. HIDE DEF q
<1>2. Keeps(q, s)
  BY <1>1 DEF Fields, Keeps
<1>3. Dropped(r, a) \in {r, s}
  BY DEF Dropped, q
<1>. HIDE DEF s
<1>. QED  BY <1>1, <1>2, <1>3, KeepsTrans

LEMMA AbortKeeps ==
    ASSUME NEW r \in Fields, NEW a \in Nat PROVE Keeps(r, Abort(r, a))
<1> DEFINE q == [r EXCEPT !.suppress = TRUE]
<1>1. q \in Fields /\ Keeps(r, q) /\ Keeps(r, r)
  BY DEF Fields, Keeps
<1>. HIDE DEF q
<1>2. Keeps(q, Rejected(q, "final")) /\ Keeps(q, Failed(q, "final"))
  BY <1>1, RejectedKeeps, FailedKeeps DEF Outcomes
<1>. QED  BY <1>1, <1>2, KeepsTrans DEF Abort, q

LEMMA DisconnectedKeeps ==
    ASSUME ConnInv PROVE Keeps(rt, Disconnected(rt))
<1> DEFINE dropped == Dropped(rt, disc.sock)
           cleared == IF disc.preserve THEN dropped ELSE ClearSession(dropped)
           s == [cleared EXCEPT !.state = "disconnected", !.manual = FALSE]
<1>1. rt \in Fields /\ disc.sock \in Nat
  BY DEF ConnInv, ConnectionTypes, Activity
<1>2. dropped \in Fields /\ Keeps(rt, dropped)
  BY <1>1, DroppedFacts, DroppedKeeps
<1>. HIDE DEF dropped
<1>3. cleared \in Fields /\ Keeps(dropped, cleared)
  BY <1>2, ClearSessionFacts, ClearSessionKeeps DEF Keeps
<1>. HIDE DEF cleared
<1>4. Keeps(cleared, s)
  BY <1>3 DEF Fields, Keeps
<1>5. Disconnected(rt) = s
  BY Zenon DEF Disconnected, s, cleared, dropped
<1>. HIDE DEF s
<1>. QED  BY <1>2, <1>3, <1>4, <1>5, KeepsTrans

\* The end of an attempt takes back its own handshake only, and schedules another when
\* it has not ended for good.
LEMMA EndedKeeps ==
    ASSUME NEW r \in Fields, NEW a \in Attempts, NEW o \in Outcomes
    PROVE  LET s == Ended(r, a, o)
           IN  /\ s.connectId = r.connectId /\ s.socket = r.socket
               /\ o = "final" /\ s.timer => r.timer
               /\ r.suppress => s.suppress
               /\ \A b \in Attempts : b # a /\ r.hs[b] # "pending" => s.hs[b] = r.hs[b]
<1> DEFINE final == attempts[a].aborted \/ o = "final"
           left  == [r EXCEPT !.connectTimer = IF @ = a THEN None ELSE @,
                              !.handshake = IF @ = a THEN None ELSE @,
                              !.abort = IF @ = a THEN None ELSE @,
                              !.connecting = IF @ = a THEN None ELSE @,
                              !.hs[a] = "none"]
           told  == IF ~left.manual /\ left.state # "disconnected"
                    THEN Failed(left, IF final THEN "final" ELSE "retryable")
                    ELSE left
           next == [told EXCEPT !.timer = TRUE, !.tries = @ + 1, !.state = "reconnecting"]
<1>1. /\ left \in Fields
      /\ left.connectId = r.connectId /\ left.socket = r.socket /\ left.timer = r.timer
      /\ left.suppress = r.suppress
      /\ \A b \in Attempts : b # a => left.hs[b] = r.hs[b]
  <2> DEFINE most == [r EXCEPT !.connectTimer = IF @ = a THEN None ELSE @,
                              !.handshake = IF @ = a THEN None ELSE @,
                              !.abort = IF @ = a THEN None ELSE @,
                              !.connecting = IF @ = a THEN None ELSE @]
  <2>1. /\ most \in Fields
        /\ most.connectId = r.connectId /\ most.socket = r.socket
        /\ most.timer = r.timer /\ most.suppress = r.suppress /\ most.hs = r.hs
    BY DEF Fields, None
  <2>2. left = [most EXCEPT !.hs = [most.hs EXCEPT ![a] = "none"]]
    BY Zenon
  <2>. HIDE DEF most, left
  <2>3. /\ [most.hs EXCEPT ![a] = "none"] \in [Attempts -> Outcomes]
        /\ \A b \in Attempts : b # a => [most.hs EXCEPT ![a] = "none"][b] = r.hs[b]
    BY <2>1 DEF Fields, Outcomes
  <2>4. /\ left \in Fields /\ left.hs = [most.hs EXCEPT ![a] = "none"]
        /\ left.connectId = most.connectId /\ left.socket = most.socket
        /\ left.timer = most.timer /\ left.suppress = most.suppress
    BY <2>1, <2>2, <2>3 DEF Fields
  <2>. QED  BY <2>1, <2>3, <2>4
<1>. HIDE DEF left
<1>2. told \in Fields /\ told.socket = r.socket /\ Keeps(left, told)
  <2>1. ASSUME NEW x \in {"final", "retryable"}
        PROVE  LET s == Failed(left, x)
               IN  s \in Fields /\ Follows(left, s) /\ Keeps(left, s)
    BY <1>1, FailedFacts, FailedKeeps DEF Outcomes
  <2>. QED  BY <1>1, <2>1 DEF Follows, Keeps
<1>. HIDE DEF told
<1>3. /\ next.connectId = told.connectId /\ next.socket = told.socket
      /\ next.suppress = told.suppress /\ next.hs = told.hs
  BY <1>2, Zenon DEF Fields
<1>4. Ended(r, a, o) \in {left, told, next}
  BY DEF Ended, Scheduled, left, told, next
<1>5. o = "final" => Ended(r, a, o) \in {left, told}
  BY DEF Ended, left, told
<1>. HIDE DEF next
<1>. QED  BY <1>1, <1>2, <1>3, <1>4, <1>5 DEF Keeps

LEMMA SocketClosedKeeps ==
    ASSUME NEW r \in Fields, NEW a, r.socket = a
    PROVE  LET s == SocketClosed(r, a)
           IN  /\ s.connectId = r.connectId /\ s.socket = None
               /\ r.suppress /\ s.timer => r.timer
               /\ \A b \in Attempts : r.hs[b] # "pending" => s.hs[b] = r.hs[b]
<1> DEFINE q == Rejected(r, "retryable")
           left == [q EXCEPT !.socket = None, !.approval = FALSE]
           gone == [left EXCEPT !.state = "disconnected"]
           held == [left EXCEPT !.suppress = FALSE, !.state = "error"]
           next == [gone EXCEPT !.timer = TRUE, !.tries = @ + 1, !.state = "reconnecting"]
<1>1. q \in Fields /\ Keeps(r, q) /\ q.suppress = r.suppress
  BY RejectedFacts, RejectedKeeps DEF Outcomes
<1>. HIDE DEF q
<1>2. /\ left \in Fields /\ left.connectId = q.connectId /\ left.socket = None
      /\ left.timer = q.timer /\ left.hs = q.hs /\ left.suppress = q.suppress
  BY <1>1 DEF Fields, None
<1>. HIDE DEF left
<1>3. /\ gone \in Fields /\ gone.connectId = left.connectId /\ gone.socket = left.socket
      /\ gone.timer = left.timer /\ gone.hs = left.hs
  BY <1>2 DEF Fields, States
<1>4. /\ held.connectId = left.connectId /\ held.socket = left.socket
      /\ held.timer = left.timer /\ held.hs = left.hs
  BY <1>2 DEF Fields
<1>. HIDE DEF gone
<1>5. next.connectId = gone.connectId /\ next.socket = gone.socket /\ next.hs = gone.hs
  BY <1>3, Zenon DEF Fields
<1>6. Scheduled(gone) \in {gone, next}
  BY DEF Scheduled, next
<1>7. left.manual = r.manual /\ left.suppress = r.suppress
  <2>1. left.manual = q.manual
    BY <1>1 DEF left, Fields
  <2>2. q.manual = r.manual
    BY RejectedFacts DEF q, Outcomes, Follows
  <2>. QED  BY <1>1, <1>2, <2>1, <2>2
<1>8. SocketClosed(r, a) = IF r.manual THEN gone
                           ELSE IF r.suppress THEN held ELSE Scheduled(gone)
  BY <1>7, Zenon DEF SocketClosed, gone, held, left, q
<1>. HIDE DEF held, next
<1>9. /\ SocketClosed(r, a) \in {gone, held, next}
      /\ r.suppress => SocketClosed(r, a) \in {gone, held}
  BY <1>6, <1>8
<1>. QED  BY <1>1, <1>2, <1>3, <1>4, <1>5, <1>9 DEF Keeps

-----------------------------------------------------------------------------
(* The kinds of steps. *)

\* Who begins no attempt and ends none by his own doing.
LEMMA FinalKept ==
    ASSUME ConnInv, FinalInv,
           \A b \in Attempts :
              /\ attempts'[b].pc = "unused" <=> attempts[b].pc = "unused"
              /\ Active(b)' => Active(b)
              /\ attempts'[b].pc = "handshake" => attempts[b].pc = "handshake"
              /\ attempts'[b].pc = "unused" /\ attempts'[b].auto => attempts[b].auto
              /\ attempts'[b].pc = "handshake" /\ rt.hs[b] = "final" => rt'.hs[b] = "final"
              /\ bridge'[b] = "rejected" => bridge[b] = "rejected",
           rt'.socket \in {rt.socket, None},
           rt'.socket # None /\ rt.suppress => rt'.suppress,
           rt'.timer =>
              rt.timer \/ \A b \in Attempts : bridge[b] = "rejected" => ~Latest(b),
           AskingInv'
    PROVE  FinalInv'
<1>1. \A b \in Attempts : Latest(b)' <=> Latest(b)
  BY DEF Latest
<1>2. LatestInv'
  BY <1>1, AttemptsAreNumbers DEF FinalInv, LatestInv
<1>3. UnusedInv'
  BY DEF FinalInv, UnusedInv
<1>4. RefusedInv'
  BY <1>1, AttemptsAreNumbers DEF FinalInv, RefusedInv
<1>. QED  BY <1>2, <1>3, <1>4 DEF FinalInv

\* Who asks whether a rejected attempt is the latest finds the one in progress or the
\* one that has the socket.
LEMMA LatestOnly ==
    ASSUME ConnInv, StoreInv, FinalInv, NEW a \in Attempts, Active(a) \/ rt.socket = a,
           NEW b \in Attempts, bridge[b] = "rejected", Latest(b)
    PROVE  b = a
<1>1. attempts[b].pc # "unused"
  BY DEF StoreInv, Standing, BridgeInv
<1>2. Latest(a)
  BY DEF FinalInv, LatestInv
<1>3. attempts[a].pc # "unused"
  <2>1. CASE Active(a)
    BY <2>1 DEF Active
  <2>2. CASE rt.socket = a
    <3>1. ws[a] # "none"
      BY <2>2, AttemptsAreNumbers DEF StoreInv, Standing, SocketAlive
    <3>. QED  BY <3>1 DEF StoreInv, Standing, BridgeInv
  <2>. QED  BY <2>1, <2>2
<1>. QED  BY <1>1, <1>2, <1>3, AttemptsAreNumbers DEF Latest

\* An event that takes nothing back.
LEMMA EventFinal ==
    ASSUME ConnInv, FinalInv, Keeps(rt, rt'),
           \A b \in Attempts : /\ attempts'[b].pc = attempts[b].pc
                               /\ attempts'[b].auto = attempts[b].auto,
           \A b \in Attempts : bridge'[b] = "rejected" => bridge[b] = "rejected",
           \/ \A b \in Attempts : ws'[b] \notin Live \/ bridge'[b] \notin Unanswered
           \/ /\ rt'.hs = rt.hs /\ rt'.handshake = rt.handshake
              /\ \A b \in Attempts : ws'[b] \in Live => ws'[b] = ws[b]
              /\ \A b \in Attempts : bridge'[b] \in Unanswered => bridge[b] \in Unanswered
    PROVE  FinalInv'
<1>1. AskingInv'
  BY DEF FinalInv, AskingInv, Keeps
<1>2. \A b \in Attempts : Active(b)' <=> Active(b)
  BY DEF Active
<1>. QED  BY <1>1, <1>2, FinalKept DEF Keeps

\* No socket is in use when the current one has been closed.
LEMMA CloseCurrent ==
    ASSUME ConnInv, ws' = Closed(ws, rt.socket)
    PROVE  \A b \in Attempts : ws'[b] \notin Live
  BY Unpacked, ClosedFacts DEF ConnInv, SocketInv

\* An attempt comes closer to its handshake.
LEMMA MoveFinal ==
    ASSUME ConnInv, StoreInv, FinalInv, NEW a \in Attempts, NEW pc \in Before,
           attempts[a].pc \in Before, attempts' = [attempts EXCEPT ![a].pc = pc],
           Keeps(rt, rt'), UNCHANGED <<ws, bridge>>
    PROVE  FinalInv'
<1>1. /\ \A b \in Attempts : attempts'[b].pc = IF b = a THEN pc ELSE attempts[b].pc
      /\ pc \in Phases
  <2>1. pc \in Phases
    BY DEF Before, Phases
  <2>. QED  BY <2>1, MovedTypes
<1>2. \A b \in Attempts : attempts'[b].auto = attempts[b].auto
  BY DEF ConnInv, ConnectionTypes, Attempt
<1>3. \A b \in Attempts : ws[b] \notin Live
  BY BeforeStore, AttemptsAreNumbers DEF ConnInv, SocketInv
<1>4. AskingInv'
  BY <1>3 DEF AskingInv
<1>5. \A b \in Attempts : Active(b)' <=> Active(b)
  BY <1>1 DEF Active, Before
<1>6. \A b \in Attempts : attempts'[b].pc = "handshake" => attempts[b].pc = "handshake"
  BY <1>1 DEF Before
<1>7. \A b \in Attempts : attempts'[b].pc = "unused" <=> attempts[b].pc = "unused"
  BY <1>1 DEF Before
<1>. QED  BY <1>2, <1>4, <1>5, <1>6, <1>7, FinalKept DEF Keeps

\* An attempt ends; if it has been rejected it ends for good.
LEMMA EndFinal ==
    ASSUME ConnInv, StoreInv, FinalInv, NEW a \in Attempts, Active(a), End(a),
           NEW r \in Fields, NEW o \in Outcomes, rt' = Ended(r, a, o), Keeps(rt, r),
           bridge[a] = "rejected" => o = "final",
           attempts[a].pc = "handshake" => rt.hs[a] # "pending",
           UNCHANGED <<ws, bridge>>
    PROVE  FinalInv'
<1>1. \A b \in Attempts :
         /\ attempts'[b].pc = IF b = a THEN "ended" ELSE attempts[b].pc
         /\ b # a => attempts'[b].auto = attempts[b].auto
  BY DEF End, ConnInv, ConnectionTypes
<1>2. /\ rt'.socket = r.socket
      /\ o = "final" /\ rt'.timer => r.timer
      /\ r.suppress => rt'.suppress
      /\ \A b \in Attempts : b # a /\ r.hs[b] # "pending" => rt'.hs[b] = r.hs[b]
  BY EndedKeeps
<1>3. AskingInv'
  <2>1. ASSUME NEW b \in Attempts, ws[b] \in Live, bridge[b] \in Unanswered PROVE FALSE
    <3>1. attempts[b].pc = "handshake" /\ rt.hs[b] = "pending"
      BY <2>1 DEF FinalInv, AskingInv
    <3>2. b = a
      BY <3>1 DEF ConnInv, Known, Active
    <3>. QED  BY <3>1, <3>2
  <2>. QED  BY <2>1 DEF AskingInv
<1>4. rt'.timer => rt.timer \/ \A b \in Attempts : bridge[b] = "rejected" => ~Latest(b)
  <2>1. rt'.timer /\ o = "final" => rt.timer
    BY <1>2 DEF Keeps
  <2>2. \A b \in Attempts : bridge[b] = "rejected" /\ Latest(b) => o = "final"
    BY LatestOnly
  <2>. QED  BY <2>1, <2>2
<1>5. \A b \in Attempts : Active(b)' => Active(b)
  BY <1>1 DEF Active
<1>6. \A b \in Attempts : attempts'[b].pc = "unused" <=> attempts[b].pc = "unused"
  BY <1>1 DEF Active
<1>7. \A b \in Attempts :
        attempts'[b].pc = "handshake" /\ rt.hs[b] = "final" => rt'.hs[b] = "final"
  BY <1>1, <1>2 DEF Keeps
<1>8. /\ rt'.socket \in {rt.socket, None}
      /\ rt'.socket # None /\ rt.suppress => rt'.suppress
  BY <1>2 DEF Keeps
<1>9. \A b \in Attempts :
         /\ attempts'[b].pc = "handshake" => attempts[b].pc = "handshake"
         /\ attempts'[b].pc = "unused" /\ attempts'[b].auto => attempts[b].auto
         /\ bridge'[b] = "rejected" => bridge[b] = "rejected"
  BY <1>1
<1>. QED  BY <1>3, <1>4, <1>5, <1>6, <1>7, <1>8, <1>9, FinalKept

\* The socket of an attempt is made: nobody has rejected it.
LEMMA OpenFinal ==
    ASSUME ConnInv, StoreInv, FinalInv, NEW a \in Attempts, attempts[a].pc \in Before,
           NEW r \in Fields, NEW auth \in {"resume", "pairing", "approval"},
           r.timer = rt.timer,
           rt' = [r EXCEPT !.handshake = a, !.hs[a] = "pending", !.socket = a,
                           !.manual = FALSE, !.suppress = FALSE, !.connectTimer = a],
           attempts' = [attempts EXCEPT ![a].pc = "handshake", ![a].auth = auth],
           ws' = [ws EXCEPT ![a] = "connecting"],
           UNCHANGED bridge
    PROVE  FinalInv'
<1>1. /\ rt.socket = None /\ bridge[a] = "silent" /\ Active(a) /\ ~rt.timer
      /\ \A b \in Attempts : attempts[b].pc # "handshake"
      /\ \A b \in Attempts : ws[b] \notin Live
  <2>1. /\ rt.socket = None /\ bridge[a] = "silent"
        /\ \A b \in Attempts : attempts[b].pc # "handshake"
    BY BeforeStore
  <2>2. Active(a)
    BY DEF Active, Before
  <2>. QED  BY <2>1, <2>2, AttemptsAreNumbers DEF ConnInv, SocketInv, TimerInv
<1>2. rt'.socket = a /\ rt'.handshake = a /\ rt'.timer = r.timer /\ rt'.hs[a] = "pending"
  <2>1. /\ rt'.socket = a /\ rt'.handshake = a /\ rt'.timer = r.timer
        /\ rt'.hs = [r.hs EXCEPT ![a] = "pending"]
    BY Zenon DEF Fields
  <2>2. r.hs \in [Attempts -> Outcomes]
    BY DEF Fields
  <2>. QED  BY <2>1, <2>2
<1>3. \A b \in Attempts : attempts'[b].pc = IF b = a THEN "handshake" ELSE attempts[b].pc
  BY OpenedPhases
<1>4. \A b \in Attempts : b # a => attempts'[b].auto = attempts[b].auto
  <2>1. \A b \in Attempts : b # a => attempts'[b] = attempts[b]
    BY Zenon DEF ConnInv, ConnectionTypes
  <2>. QED  BY <2>1
<1>5. \A b \in Attempts : ws'[b] = IF b = a THEN "connecting" ELSE ws[b]
  BY Unpacked
<1>6. \A b \in Attempts : Latest(b)' <=> Latest(b)
  <2>1. \A b \in Attempts : attempts'[b].pc = "unused" <=> attempts[b].pc = "unused"
    <3>1. attempts[a].pc # "unused"
      BY DEF Before
    <3>2. "handshake" # "unused"
      OBVIOUS
    <3>. QED  BY <1>3, <3>1, <3>2, Zenon
  <2>. QED  BY <2>1 DEF Latest
<1>7. \A b \in Attempts : Active(b)' => Active(b)
  BY <1>1, <1>3 DEF Active
<1>8. LatestInv'
  BY <1>1, <1>2, <1>6, <1>7 DEF FinalInv, LatestInv
<1>9. UnusedInv'
  <2>1. \A b \in Attempts : attempts'[b].pc = "unused" => b # a /\ attempts[b].pc = "unused"
    BY <1>3
  <2>. QED  BY <1>4, <2>1 DEF FinalInv, UnusedInv
<1>10. AskingInv'
  <2>1. \A b \in Attempts : ws'[b] \in Live => b = a /\ ws'[b] # "open"
    BY <1>1, <1>5
  <2>2. attempts'[a].pc = "handshake"
    BY <1>3
  <2>. QED  BY <1>2, <2>1, <2>2 DEF AskingInv
<1>11. RefusedInv'
  BY <1>1, <1>2, <1>3 DEF RefusedInv
<1>. QED  BY <1>8, <1>9, <1>10, <1>11 DEF FinalInv

\* An attempt is begun, after the last one.
LEMMA BeginFinal ==
    ASSUME ConnInv, StoreInv, FinalInv, \A a \in Attempts : ~Active(a), rt.socket = None,
           NEW auto \in BOOLEAN, NEW fresh \in BOOLEAN, NEW reconnecting \in BOOLEAN,
           NEW r \in Fields, r.socket = None, ~r.timer,
           rt' = Begun(r, Next1, reconnecting), BeginAttempt(Next1, auto, fresh),
           UNCHANGED <<ws, bridge>>
    PROVE  FinalInv'
<1>1. PICK n \in 0..MaxConnects : Used = 1..n /\ Next1 = n + 1
  BY UsedCount DEF StoreInv, Standing
<1>2. n \in Nat /\ MaxConnects \in Nat
  BY WebConnectionAssumption DEF WebConnectionAssumption
<1>3. rt'.socket = None /\ ~rt'.timer
  BY DEF Begun, Fields
<1>4. \A b \in Attempts :
         /\ attempts'[b].pc \in IF b = Next1 THEN {"prepare", "auth"} ELSE {attempts[b].pc}
         /\ b # Next1 => attempts'[b].auto = attempts[b].auto
  BY DEF BeginAttempt, ConnInv, ConnectionTypes, Unused
<1>5. \A b \in Attempts : attempts[b].pc # "unused" <=> b <= n
  BY <1>1, <1>2 DEF Used, Attempts
<1>6. \A b \in Attempts : ws[b] \notin Live
  BY AttemptsAreNumbers DEF ConnInv, SocketInv
<1>7. LatestInv'
  <2>1. \A b \in Attempts : Active(b)' => b = Next1
    BY <1>4 DEF Active
  <2>2. \A b \in Attempts : b > Next1 => attempts'[b].pc = "unused"
    <3>1. \A b \in Attempts : b \in Nat
      BY DEF Attempts
    <3>2. \A b \in Attempts : b > Next1 => ~(b <= n) /\ b # Next1
      BY <1>1, <1>2, <3>1
    <3>. QED  BY <1>4, <1>5, <3>2
  <2>. QED  BY <1>3, <2>1, <2>2, AttemptsAreNumbers DEF LatestInv, Latest
<1>8. UnusedInv'
  BY <1>4 DEF FinalInv, UnusedInv
<1>9. AskingInv'
  BY <1>6 DEF AskingInv
<1>10. RefusedInv'
  <2>1. \A b \in Attempts : attempts'[b].pc # "handshake"
    BY <1>4 DEF Active
  <2>. QED  BY <1>3, <2>1, AttemptsAreNumbers DEF RefusedInv
<1>. QED  BY <1>7, <1>8, <1>9, <1>10 DEF FinalInv

LEMMA OpenSocketFinal ==
    ASSUME ConnInv, StoreInv, FinalInv, NEW a \in Attempts, attempts[a].pc \in Before,
           NEW r \in Fields, NEW auth \in {"resume", "pairing", "approval"},
           OpenSocket(a, r, auth), Keeps(rt, r), r.timer = rt.timer, UNCHANGED bridge
    PROVE  FinalInv'
<1>1. Active(a) /\ attempts[a].pc # "handshake" /\ bridge[a] = "silent"
  BY BeforeStore DEF Active, Before
<1>2. CASE ws' = ws /\ End(a) /\ \E o \in {"final", "retryable"} : rt' = Ended(r, a, o)
  BY <1>1, <1>2, EndFinal DEF Outcomes
<1>3. CASE ~(ws' = ws /\ End(a) /\ \E o \in {"final", "retryable"} : rt' = Ended(r, a, o))
  BY <1>1, <1>3, OpenFinal DEF OpenSocket
<1>. QED  BY <1>2, <1>3

LEMMA FailsFinal ==
    ASSUME ConnInv, StoreInv, FinalInv, NEW a \in Attempts, attempts[a].pc \in Before,
           NEW r \in Fields, Keeps(rt, r), Fails(a, r), UNCHANGED bridge
    PROVE  FinalInv'
<1>1. Active(a) /\ attempts[a].pc # "handshake" /\ bridge[a] = "silent"
  BY BeforeStore DEF Active, Before
<1>2. rt' = Ended(r, a, "final") /\ End(a) /\ ws' = ws /\ "final" \in Outcomes
  BY DEF Fails, Outcomes
<1>. QED  BY <1>1, <1>2, EndFinal

\* An event that leaves the attempts alone and closes the current socket, if any.
LEMMA CloseFinal ==
    ASSUME ConnInv, FinalInv, Keeps(rt, rt'), UNCHANGED attempts,
           ws' = Closed(ws, rt.socket) \/ \A b \in Attempts : ws'[b] \notin Live,
           \A b \in Attempts : bridge'[b] = "rejected" => bridge[b] = "rejected"
    PROVE  FinalInv'
  BY CloseCurrent, EventFinal

LEMMA SameFinal ==
    ASSUME ConnInv, FinalInv, UNCHANGED <<rt, attempts, ws, bridge>> PROVE FinalInv'
  BY EventFinal DEF Keeps

-----------------------------------------------------------------------------
(* Attempts. *)

LEMMA PreparedFinal ==
    ASSUME ConnInv, StoreInv, FinalInv, NEW a \in Attempts, Prepared(a) PROVE FinalInv'
<1>1. /\ attempts[a].pc \in Before /\ rt \in Fields /\ Keeps(rt, rt) /\ UNCHANGED bridge
  BY Unpacked DEF Prepared, Before, Keeps
<1>2. CASE attempts' = [attempts EXCEPT ![a].pc = "auth"] /\ UNCHANGED <<rt, ws>>
  BY <1>1, <1>2, MoveFinal DEF Before
<1>3. CASE Fails(a, rt)
  BY <1>1, <1>3, FailsFinal
<1>. QED  BY <1>2, <1>3 DEF Prepared

LEMMA WithSessionFinal ==
    ASSUME ConnInv, StoreInv, FinalInv, NEW a \in Attempts, attempts[a].pc \in Before,
           NEW s \in Nat, NEW q, WithSession(a, s, q), UNCHANGED bridge
    PROVE  FinalInv'
<1>1. CASE OpenSocket(a, [rt EXCEPT !.session = s], "resume")
  <2> DEFINE r == [rt EXCEPT !.session = s]
  <2>1. r \in Fields /\ Keeps(rt, r) /\ r.timer = rt.timer
    BY Unpacked DEF Fields, Keeps
  <2>. HIDE DEF r
  <2>2. OpenSocket(a, r, "resume")
    BY <1>1 DEF r
  <2>. QED  BY <2>1, <2>2, OpenSocketFinal
<1>2. CASE /\ rt' = ClearSession(rt)
           /\ attempts' = [attempts EXCEPT ![a].pc = "clear"]
           /\ UNCHANGED ws
  <2>1. Keeps(rt, rt')
    BY <1>2, Unpacked, ClearSessionKeeps
  <2>. QED  BY <1>2, <2>1, MoveFinal DEF Before
<1>. QED  BY <1>1, <1>2 DEF WithSession

LEMMA AuthenticatesFinal ==
    ASSUME ConnInv, StoreInv, FinalInv, NEW a \in Attempts, Authenticates(a) PROVE FinalInv'
<1>1. /\ attempts[a].pc \in Before /\ rt.session \in Nat /\ UNCHANGED bridge
      /\ Keeps(rt, rt)
  BY Unpacked DEF Authenticates, Before, Fields, Keeps
<1>2. CASE WithSession(a, rt.session, queue)
  BY <1>1, <1>2, WithSessionFinal
<1>3. CASE attempts' = [attempts EXCEPT ![a].pc = "load"] /\ UNCHANGED <<rt, ws>>
  BY <1>1, <1>3, MoveFinal DEF Before
<1>. QED  BY <1>2, <1>3 DEF Authenticates

LEMMA TokenGivenFinal ==
    ASSUME ConnInv, StoreInv, FinalInv, NEW a \in Attempts, TokenGiven(a) PROVE FinalInv'
<1>1. /\ attempts[a].pc \in Before /\ rt \in Fields /\ Keeps(rt, rt) /\ UNCHANGED bridge
  BY Unpacked DEF TokenGiven, Before, Keeps
<1>2. CASE OpenSocket(a, rt, "pairing") \/ OpenSocket(a, rt, "approval")
  BY <1>1, <1>2, OpenSocketFinal
<1>3. CASE Fails(a, rt)
  BY <1>1, <1>3, FailsFinal
<1>. QED  BY <1>2, <1>3 DEF TokenGiven

LEMMA SettlesFinal ==
    ASSUME ConnInv, StoreInv, FinalInv, NEW a \in Attempts, Settles(a) PROVE FinalInv'
<1>1. /\ Active(a) /\ rt \in Fields /\ rt.hs[a] \in Outcomes /\ rt.hs[a] # "pending"
      /\ Keeps(rt, rt) /\ UNCHANGED <<ws, bridge>>
      /\ rt' = Ended(rt, a, rt.hs[a]) /\ End(a)
  BY Unpacked DEF Settles, Active, Fields, Keeps
<1>2. bridge[a] = "rejected" => rt.hs[a] = "final"
  BY DEF FinalInv, RefusedInv, Settles
<1>. QED  BY <1>1, <1>2, EndFinal

-----------------------------------------------------------------------------
(* connect, disconnect and reconnect. *)

LEMMA TakeDownFinal ==
    ASSUME ConnInv, StoreInv, FinalInv, NEW r \in Fields, TakeDown(r), UNCHANGED bridge,
           r.socket = rt.socket, r.connectId = rt.connectId, r.timer = rt.timer,
           r.abort = rt.abort, r.suppress = rt.suppress, r.hs = rt.hs
    PROVE  FinalInv'
<1> DEFINE q == [CancelReconnect(r) EXCEPT !.manual = TRUE]
           w == AbortCloses(ws, rt.abort)
<1>1. q \in Fields /\ Keeps(rt, q)
  BY DEF CancelReconnect, Fields, Keeps
<1>2. rt' = Abort(q, rt.abort) /\ rt.abort \in Nat
  BY Unpacked DEF TakeDown, Fields
<1>. HIDE DEF q
<1>3. Keeps(rt, rt')
  BY <1>1, <1>2, AbortKeeps, KeepsTrans
<1>4. \A b \in Attempts : /\ attempts'[b].pc = attempts[b].pc
                          /\ attempts'[b].auto = attempts[b].auto
  <2>1. attempts' = IF rt.abort = None THEN attempts
                    ELSE [attempts EXCEPT ![rt.abort].aborted = TRUE]
    BY DEF TakeDown, Aborted
  <2>. QED  BY <2>1 DEF ConnInv, ConnectionTypes, Attempt
<1>5. \A b \in Attempts : ws'[b] \notin Live
  <2>1. /\ w \in [Attempts -> SocketStates]
        /\ \A b \in Attempts : w[b] \in Live => ws[b] \in Live
    BY <1>2, Unpacked, ClosedFacts DEF AbortCloses
  <2>2. ws' = Closed(w, rt.socket) /\ rt.socket \in Nat
    BY Unpacked DEF TakeDown
  <2>. HIDE DEF w
  <2>3. \A b \in Attempts : ws'[b] \in Live => ws[b] \in Live /\ b # rt.socket
    BY <2>1, <2>2, ClosedFacts
  <2>. QED  BY <2>3 DEF ConnInv, SocketInv
<1>. QED  BY <1>3, <1>4, <1>5, EventFinal

LEMMA DisconnectStartsFinal ==
    ASSUME ConnInv, StoreInv, FinalInv, NEW preserve \in BOOLEAN, DisconnectStarts(preserve)
    PROVE  FinalInv'
<1> DEFINE r == [rt EXCEPT !.state = "disconnecting"]
<1>1. /\ r \in Fields /\ r.socket = rt.socket /\ r.connectId = rt.connectId
      /\ r.timer = rt.timer /\ r.abort = rt.abort /\ r.suppress = rt.suppress
      /\ r.hs = rt.hs
  BY Unpacked DEF Fields, States
<1>2. TakeDown(r) /\ UNCHANGED bridge
  BY DEF DisconnectStarts
<1>. HIDE DEF r
<1>. QED  BY <1>1, <1>2, TakeDownFinal

LEMMA ReconnectStartsFinal ==
    ASSUME ConnInv, StoreInv, FinalInv, ReconnectStarts PROVE FinalInv'
  BY Unpacked, TakeDownFinal DEF ReconnectStarts

LEMMA DisconnectClosesFinal ==
    ASSUME ConnInv, StoreInv, FinalInv, DisconnectCloses PROVE FinalInv'
<1>1. UNCHANGED <<attempts, ws, bridge>> /\ \A b \in Attempts : ws[b] \notin Live
  BY DEF DisconnectCloses, ConnInv, DiscInv, Down
<1>2. Keeps(rt, rt')
  BY Unpacked, DisconnectedKeeps, ClearSessionKeeps DEF DisconnectCloses
<1>. QED  BY <1>1, <1>2, CloseFinal

LEMMA ReconnectDropsFinal ==
    ASSUME ConnInv, StoreInv, FinalInv, ReconnectDrops PROVE FinalInv'
<1>1. /\ UNCHANGED <<attempts, ws, bridge>> /\ \A b \in Attempts : ws[b] \notin Live
      /\ rt' = Dropped(rt, rec.sock) /\ rec.sock \in Nat
  BY DEF ReconnectDrops, ConnInv, ConnectionTypes, Activity, RecInv, Down
<1>2. Keeps(rt, rt')
  BY <1>1, Unpacked, DroppedKeeps
<1>. QED  BY <1>1, <1>2, CloseFinal

LEMMA ReconnectConnectsFinal ==
    ASSUME ConnInv, StoreInv, FinalInv, ReconnectConnects PROVE FinalInv'
<1>1. /\ rec.pc = "attempt" /\ AttemptOver(rec) /\ Down(rec) /\ rt.socket = None
      /\ UNCHANGED <<ws, bridge>> /\ rt \in Fields
  BY Unpacked DEF ReconnectConnects, ConnInv, RecInv
<1>2. \A a \in Attempts : ~Active(a)
  BY <1>1, AttemptsAreNumbers DEF AttemptOver, Down
<1> DEFINE r == [rt EXCEPT !.manual = FALSE]
<1>3. r \in Fields /\ r.socket = None /\ ~r.timer
  BY <1>1 DEF Fields, Down
<1>4. rt' = Begun(r, Next1, TRUE) /\ BeginAttempt(Next1, FALSE, TRUE)
  BY DEF ReconnectConnects
<1>. HIDE DEF r
<1>. QED  BY <1>1, <1>2, <1>3, <1>4, BeginFinal

LEMMA ConnectBeginsFinal ==
    ASSUME ConnInv, StoreInv, FinalInv, MayBegin, rt.socket = None, NEW fresh \in BOOLEAN,
           ConnectBegins(fresh), UNCHANGED <<ws, bridge>>
    PROVE  FinalInv'
<1>1. \A a \in Attempts : ~Active(a)
  BY AttemptsAreNumbers DEF MayBegin, ConnInv, Known
<1> DEFINE r == CancelReconnect(rt)
<1>2. r \in Fields /\ r.socket = None /\ ~r.timer
  BY Unpacked, CancelFacts
<1>3. rt' = Begun(r, Next1, FALSE) /\ BeginAttempt(Next1, FALSE, fresh)
  BY DEF ConnectBegins
<1>. HIDE DEF r
<1>. QED  BY <1>1, <1>2, <1>3, BeginFinal

LEMMA QueuedConnectFinal ==
    ASSUME ConnInv, StoreInv, FinalInv, QueuedConnect PROVE FinalInv'
<1>1. queued /\ disc.pc = "idle" /\ UNCHANGED <<ws, bridge>>
  BY DEF QueuedConnect
<1>2. CASE MayBegin
  <2>1. Resumable /\ \A a \in Attempts : ~Active(a)
    BY <1>1, <1>2, AttemptsAreNumbers DEF Resumable, MayBegin, ConnInv, Known
  <2>2. rt.socket = None
    BY <2>1 DEF ConnInv, QueuedInv
  <2>. QED  BY <1>1, <1>2, <2>2, ConnectBeginsFinal DEF QueuedConnect
<1>3. CASE UNCHANGED <<rt, attempts>>
  BY <1>1, <1>3, SameFinal
<1>. QED  BY <1>2, <1>3 DEF QueuedConnect

LEMMA ConnectFinal ==
    ASSUME ConnInv, StoreInv, FinalInv, Connect, ~Eager PROVE FinalInv'
<1>1. /\ UNCHANGED <<ws, bridge>>
      /\ rt.socket = None \/ disc.pc # "idle"
  BY DEF Connect
<1>2. CASE UNCHANGED <<rt, attempts>>
  BY <1>1, <1>2, SameFinal
<1>3. CASE MayBegin /\ \E fresh \in BOOLEAN : ConnectBegins(fresh)
  <2>1. rt.socket = None
    BY <1>1, <1>3 DEF MayBegin
  <2>. QED  BY <1>1, <1>3, <2>1, ConnectBeginsFinal
<1>. QED  BY <1>2, <1>3 DEF Connect

LEMMA DisconnectFinal ==
    ASSUME ConnInv, StoreInv, FinalInv, Disconnect PROVE FinalInv'
<1>1. CASE \E preserve \in BOOLEAN : DisconnectStarts(preserve)
  BY <1>1, DisconnectStartsFinal
<1>2. CASE UNCHANGED <<rt, attempts, ws, bridge>>
  BY <1>2, SameFinal
<1>. QED  BY <1>1, <1>2 DEF Disconnect

\* Only an attempt in its handshake has a socket that its caller can close.
LEMMA CallerAbortsFinal ==
    ASSUME ConnInv, StoreInv, FinalInv, NEW a \in Attempts, CallerAborts(a) PROVE FinalInv'
<1>1. /\ rt' = Abort(rt, a) /\ ws' = AbortCloses(ws, a) /\ Active(a)
      /\ attempts' = [attempts EXCEPT ![a].aborted = TRUE] /\ UNCHANGED bridge
      /\ a \in Nat /\ a # None
  BY AttemptsAreNumbers DEF CallerAborts, Aborted
<1>2. Keeps(rt, rt')
  BY <1>1, Unpacked, AbortKeeps
<1>3. \A b \in Attempts : /\ attempts'[b].pc = attempts[b].pc
                          /\ attempts'[b].auto = attempts[b].auto
  BY <1>1 DEF ConnInv, ConnectionTypes, Attempt
<1>4. CASE attempts[a].pc = "handshake"
  <2>1. \A b \in Attempts : ws'[b] \in Live => ws[b] \in Live /\ b # a
    BY <1>1, <1>4, Unpacked, ClosedFacts DEF AbortCloses
  <2>2. \A b \in Attempts : ws'[b] \notin Live
    BY <1>4, <2>1, AttemptsAreNumbers DEF ConnInv, SocketInv, StoreInv, Standing, OwnSocket
  <2>. QED  BY <1>1, <1>2, <1>3, <2>2, EventFinal
<1>5. CASE attempts[a].pc # "handshake"
  <2>1. rt' = rt /\ ws' = ws
    BY <1>1, <1>5 DEF Abort, AbortCloses
  <2>. QED  BY <1>1, <1>2, <1>3, <2>1, EventFinal
<1>. QED  BY <1>4, <1>5

-----------------------------------------------------------------------------
(* Timers. *)

LEMMA ReconnectTimerFiresFinal ==
    ASSUME ConnInv, StoreInv, FinalInv, Quiet, ReconnectTimerFires PROVE FinalInv'
<1>1. rt.timer /\ rt.socket = None /\ rt \in Fields /\ UNCHANGED <<ws, bridge>>
  BY Unpacked DEF ReconnectTimerFires, ConnInv, TimerInv
<1>2. \A a \in Attempts : ~Active(a)
  BY <1>1 DEF ConnInv, TimerInv, Quiet
<1> DEFINE r == [rt EXCEPT !.timer = FALSE]
<1>3. r \in Fields /\ r.socket = None /\ ~r.timer
  BY <1>1 DEF Fields
<1>4. rt' = Begun(r, Next1, TRUE) /\ BeginAttempt(Next1, TRUE, FALSE)
  BY DEF ReconnectTimerFires
<1>. HIDE DEF r
<1>. QED  BY <1>1, <1>2, <1>3, <1>4, BeginFinal

LEMMA ConnectTimesOutFinal ==
    ASSUME ConnInv, StoreInv, FinalInv, ConnectTimesOut PROVE FinalInv'
<1> DEFINE r == [rt EXCEPT !.connectTimer = None]
<1>1. /\ r \in Fields /\ Keeps(rt, r) /\ r.hs = rt.hs /\ r.handshake = rt.handshake
  BY Unpacked DEF Fields, Keeps, None
<1>2. /\ UNCHANGED <<attempts, bridge>>
      /\ \/ rt' = Failed(r, "retryable") /\ ws' = Closed(ws, rt.socket)
         \/ rt' = r /\ ws' = ws
  BY DEF ConnectTimesOut
<1>. HIDE DEF r
<1>3. CASE rt' = Failed(r, "retryable") /\ ws' = Closed(ws, rt.socket)
  <2>1. Keeps(rt, rt')
    BY <1>1, <1>3, FailedKeeps, KeepsTrans DEF Outcomes
  <2>. QED  BY <1>2, <1>3, <2>1, CloseFinal
<1>4. CASE rt' = r /\ ws' = ws
  BY <1>1, <1>2, <1>4, EventFinal
<1>. QED  BY <1>2, <1>3, <1>4

-----------------------------------------------------------------------------
(* The socket and the bridge. *)

LEMMA SocketOpensFinal ==
    ASSUME ConnInv, StoreInv, FinalInv, NEW a \in Attempts, SocketOpens(a) PROVE FinalInv'
<1>1. /\ ws[a] = "connecting" /\ rt.socket = a /\ a # None /\ bridge[a] = "silent"
      /\ rt \in Fields /\ ws \in [Attempts -> SocketStates] /\ bridge \in [Attempts -> Answers]
      /\ UNCHANGED attempts
  BY Unpacked, AttemptsAreNumbers DEF SocketOpens, ConnInv, SocketInv, Live, StoreInv,
                                      Standing, BridgeInv
<1>2. [ws EXCEPT ![a] = "open"][rt.socket] = "open"
  BY <1>1
<1>3. /\ rt' = [rt EXCEPT !.connectId = a]
      /\ bridge' = [bridge EXCEPT ![a] = "asked"]
      /\ ws' = [ws EXCEPT ![a] = "open"]
  BY <1>1, <1>2 DEF SocketOpens
<1>4. /\ rt'.connectId = a /\ rt'.socket = rt.socket /\ rt'.timer = rt.timer
      /\ rt'.suppress = rt.suppress /\ rt'.hs = rt.hs /\ rt'.handshake = rt.handshake
  BY <1>1, <1>3 DEF Fields
<1>5. /\ \A b \in Attempts : bridge'[b] = IF b = a THEN "asked" ELSE bridge[b]
      /\ \A b \in Attempts : ws'[b] \in Live /\ b # a => ws[b] \in Live
  BY <1>1, <1>3
<1>6. AskingInv'
  <2>1. \A b \in Attempts : ws'[b] \in Live => b = a
    BY <1>1, <1>5 DEF ConnInv, SocketInv
  <2>2. attempts[a].pc = "handshake" /\ rt.hs[a] = "pending" /\ rt.handshake = a
    BY <1>1 DEF FinalInv, AskingInv, Live, Unanswered
  <2>. QED  BY <1>1, <1>4, <2>1, <2>2 DEF AskingInv
<1>7. \A b \in Attempts : bridge'[b] = "rejected" => bridge[b] = "rejected"
  BY <1>5
<1>8. \A b \in Attempts : Active(b)' <=> Active(b)
  BY <1>1 DEF Active
<1>. QED  BY <1>1, <1>4, <1>6, <1>7, <1>8, FinalKept

\* The close of the socket of a rejected attempt finds the reconnection suppressed.
LEMMA SocketClosesFinal ==
    ASSUME ConnInv, StoreInv, FinalInv, NEW a \in Attempts, SocketCloses(a) PROVE FinalInv'
<1>1. /\ rt' = SocketClosed(rt, a) /\ UNCHANGED <<attempts, bridge>> /\ rt \in Fields
      /\ \A b \in Attempts : ws'[b] = IF b = a THEN "closed" ELSE ws[b]
  BY Unpacked DEF SocketCloses
<1>2. CASE rt.socket # a
  <2>1. rt' = rt /\ Keeps(rt, rt')
    BY <1>1, <1>2 DEF SocketClosed, Keeps
  <2>2. \A b \in Attempts : ws'[b] \in Live => ws'[b] = ws[b]
    BY <1>1 DEF Live
  <2>. QED  BY <1>1, <2>1, <2>2, EventFinal
<1>3. CASE rt.socket = a
  <2>1. /\ rt'.socket = None
        /\ rt.suppress /\ rt'.timer => rt.timer
        /\ \A b \in Attempts : rt.hs[b] # "pending" => rt'.hs[b] = rt.hs[b]
    BY <1>1, <1>3, SocketClosedKeeps
  <2>2. \A b \in Attempts : ws'[b] \notin Live
    BY <1>1, <1>3 DEF ConnInv, SocketInv, Live
  <2>3. AskingInv'
    BY <2>2 DEF AskingInv
  <2>4. rt'.timer => rt.timer \/ \A b \in Attempts : bridge[b] = "rejected" => ~Latest(b)
    BY <1>3, <2>1, LatestOnly DEF FinalInv, RefusedInv
  <2>5. \A b \in Attempts : Active(b)' <=> Active(b)
    BY <1>1 DEF Active
  <2>. QED  BY <1>1, <2>1, <2>3, <2>4, <2>5, FinalKept
<1>. QED  BY <1>2, <1>3

\* A message is heard on the one socket in use.
LEMMA Hears ==
    ASSUME ConnInv, StoreInv, NEW a \in Attempts, Delivers(a)
    PROVE  /\ rt.socket = a /\ a # None /\ ws[a] = "open" /\ rt \in Fields
           /\ bridge \in [Attempts -> Answers]
           /\ \A b \in Attempts : ws[b] \in Live => b = a
  BY Unpacked, AttemptsAreNumbers DEF Delivers, ConnInv, SocketInv, StoreInv, Standing,
                                      BridgeInv

LEMMA ProtocolFailureFinal ==
    ASSUME ConnInv, FinalInv, NEW a \in Attempts, rt.socket = a, ProtocolFailure(a),
           UNCHANGED attempts,
           \A b \in Attempts : bridge'[b] = "rejected" => bridge[b] = "rejected"
    PROVE  FinalInv'
<1>1. Keeps(rt, rt')
  BY Unpacked, FailedForGoodKeeps DEF ProtocolFailure
<1>. QED  BY <1>1, CloseFinal DEF ProtocolFailure

LEMMA ApprovalRequiredFinal ==
    ASSUME ConnInv, StoreInv, FinalInv, NEW a \in Attempts, ApprovalRequired(a)
    PROVE  FinalInv'
<1>1. /\ Delivers(a) /\ bridge[a] = "asked" /\ bridge' = [bridge EXCEPT ![a] = "approval"]
      /\ UNCHANGED attempts
      /\ \/ /\ ws' = ws
            /\ rt' = [rt EXCEPT !.approval = TRUE, !.connectTimer = a,
                                !.state = "awaiting-approval"]
         \/ ProtocolFailure(a)
  BY DEF ApprovalRequired
<1>2. rt.socket = a /\ rt \in Fields /\ bridge \in [Attempts -> Answers]
  BY <1>1, Hears
<1>3. \A b \in Attempts : bridge'[b] = IF b = a THEN "approval" ELSE bridge[b]
  BY <1>1, <1>2
<1>4. CASE ProtocolFailure(a)
  BY <1>1, <1>2, <1>3, <1>4, ProtocolFailureFinal
<1>5. CASE /\ ws' = ws
           /\ rt' = [rt EXCEPT !.approval = TRUE, !.connectTimer = a,
                               !.state = "awaiting-approval"]
  <2>1. Keeps(rt, rt') /\ rt'.hs = rt.hs /\ rt'.handshake = rt.handshake
    BY <1>2, <1>5 DEF Fields, Keeps
  <2>2. \A b \in Attempts : bridge'[b] \in Unanswered => bridge[b] \in Unanswered
    BY <1>1, <1>3 DEF Unanswered
  <2>3. \A b \in Attempts : bridge'[b] = "rejected" => bridge[b] = "rejected"
    BY <1>3
  <2>. QED  BY <1>1, <1>5, <2>1, <2>2, <2>3, EventFinal
<1>. QED  BY <1>1, <1>4, <1>5

LEMMA WelcomeFinal ==
    ASSUME ConnInv, StoreInv, FinalInv, NEW a \in Attempts, Welcome(a) PROVE FinalInv'
<1>1. /\ Delivers(a) /\ bridge' = [bridge EXCEPT ![a] = "welcomed"] /\ UNCHANGED attempts
      /\ UNCHANGED <<rt, ws>> \/ ProtocolFailure(a)
  BY DEF Welcome
<1>2. rt.socket = a /\ bridge \in [Attempts -> Answers]
  BY <1>1, Hears
<1>3. \A b \in Attempts : bridge'[b] = IF b = a THEN "welcomed" ELSE bridge[b]
  BY <1>1, <1>2
<1>4. CASE ProtocolFailure(a)
  BY <1>1, <1>2, <1>3, <1>4, ProtocolFailureFinal
<1>5. CASE UNCHANGED <<rt, ws>>
  <2>1. \A b \in Attempts : bridge'[b] \in Unanswered => bridge[b] \in Unanswered
    BY <1>3 DEF Unanswered
  <2>2. \A b \in Attempts : bridge'[b] = "rejected" => bridge[b] = "rejected"
    BY <1>3
  <2>. QED  BY <1>1, <1>5, <2>1, <2>2, EventFinal DEF Keeps
<1>. QED  BY <1>1, <1>4, <1>5

\* A rejection is heard while the handshake waits: it ends it for good.
LEMMA RejectedFinal ==
    ASSUME ConnInv, StoreInv, FinalInv, NEW a \in Attempts, Delivers(a),
           bridge[a] \in Unanswered, bridge' = [bridge EXCEPT ![a] = "rejected"],
           rt' \in {FailedForGood(rt), ClearSession(FailedForGood(rt))},
           UNCHANGED <<attempts, ws>>
    PROVE  FinalInv'
<1>1. /\ rt.socket = a /\ a # None /\ ws[a] = "open" /\ rt \in Fields
      /\ bridge \in [Attempts -> Answers] /\ \A b \in Attempts : ws[b] \in Live => b = a
  BY Hears
<1>2. attempts[a].pc = "handshake" /\ rt.hs[a] = "pending" /\ rt.handshake = a
  BY <1>1 DEF FinalInv, AskingInv, Live
<1>3. ~rt.timer
  BY <1>1 DEF ConnInv, TimerInv
<1> DEFINE s == FailedForGood(rt)
<1>4. Keeps(rt, s) /\ s.suppress /\ s.hs[a] = "final" /\ s \in Fields
  BY <1>1, <1>2, FailedForGoodFacts, FailedForGoodKeeps
<1>5. /\ Keeps(s, ClearSession(s)) /\ ClearSession(s).suppress = s.suppress
      /\ ClearSession(s).hs = s.hs
  BY <1>4, ClearSessionFacts, ClearSessionKeeps
<1>. HIDE DEF s
<1>6. Keeps(rt, rt') /\ rt'.suppress /\ rt'.hs[a] = "final"
  <2>1. rt' \in {s, ClearSession(s)}
    BY DEF s
  <2>2. Keeps(rt, ClearSession(s))
    BY <1>4, <1>5, KeepsTrans
  <2>. QED  BY <1>4, <1>5, <2>1, <2>2
<1>7. \A b \in Attempts : bridge'[b] = IF b = a THEN "rejected" ELSE bridge[b]
  BY <1>1
<1>8. \A b \in Attempts : (Active(b)' <=> Active(b)) /\ (Latest(b)' <=> Latest(b))
  BY DEF Active, Latest
<1>9. LatestInv' /\ UnusedInv'
  BY <1>6, <1>8, AttemptsAreNumbers DEF FinalInv, LatestInv, UnusedInv, Keeps
<1>10. AskingInv'
  BY <1>1, <1>7 DEF AskingInv, Unanswered
<1>11. RefusedInv'
  BY <1>3, <1>6, <1>7, <1>8, AttemptsAreNumbers DEF FinalInv, RefusedInv, Keeps
<1>. QED  BY <1>9, <1>10, <1>11 DEF FinalInv

LEMMA RefusedFinal ==
    ASSUME ConnInv, StoreInv, FinalInv, NEW a \in Attempts, NEW code \in RefusalCodes,
           Refused(a, code)
    PROVE  FinalInv'
<1>1. /\ Delivers(a) /\ bridge[a] \in Unanswered /\ UNCHANGED <<attempts, ws>>
      /\ bridge' = [bridge EXCEPT ![a] = IF code = "RATE_LIMITED" THEN "refused"
                                         ELSE "rejected"]
  BY DEF Refused, Unanswered
<1>2. /\ rt.socket = a /\ a # None /\ ws[a] = "open" /\ rt \in Fields
      /\ bridge \in [Attempts -> Answers] /\ \A b \in Attempts : ws[b] \in Live => b = a
  BY <1>1, Hears
<1>3. rt.handshake = a /\ rt.connectId = a
  BY <1>1, <1>2 DEF FinalInv, AskingInv, Live
<1>4. CASE code = "RATE_LIMITED"
  <2>1. rt' = Failed(rt, "retryable")
    BY <1>2, <1>3, <1>4 DEF Refused
  <2>2. Keeps(rt, rt')
    BY <1>2, <2>1, FailedKeeps DEF Outcomes
  <2>3. \A b \in Attempts : bridge'[b] = IF b = a THEN "refused" ELSE bridge[b]
    BY <1>1, <1>2, <1>4
  <2>4. \A b \in Attempts : ws'[b] \notin Live \/ bridge'[b] \notin Unanswered
    BY <1>1, <1>2, <2>3 DEF Unanswered
  <2>. QED  BY <1>1, <2>2, <2>3, <2>4, EventFinal
<1>5. CASE code # "RATE_LIMITED"
  <2>1. rt' \in {FailedForGood(rt), ClearSession(FailedForGood(rt))}
    BY <1>2, <1>3, <1>5 DEF Refused, RefusalCodes
  <2>. QED  BY <1>1, <1>5, <2>1, RejectedFinal
<1>. QED  BY <1>4, <1>5

LEMMA BridgeDisconnectsFinal ==
    ASSUME ConnInv, StoreInv, FinalInv, NEW a \in Attempts, NEW canResume \in BOOLEAN,
           BridgeDisconnects(a, canResume)
    PROVE  FinalInv'
<1>1. /\ Delivers(a) /\ UNCHANGED attempts
      /\ bridge' = [bridge EXCEPT ![a] = IF canResume THEN "left" ELSE "revoked"]
      /\ \/ rt' = rt /\ ws' = Closed(ws, rt.socket)
         \/ rt' = [ClearSession(rt) EXCEPT !.suppress = TRUE] /\ ws' = ws
  BY DEF BridgeDisconnects
<1>2. rt \in Fields /\ bridge \in [Attempts -> Answers]
  BY <1>1, Hears
<1>3. \A b \in Attempts : bridge'[b] \in IF b = a THEN {"left", "revoked"} ELSE {bridge[b]}
  BY <1>1, <1>2
<1>4. \A b \in Attempts : /\ bridge'[b] = "rejected" => bridge[b] = "rejected"
                          /\ bridge'[b] \in Unanswered => bridge[b] \in Unanswered
  BY <1>3 DEF Unanswered
<1>5. CASE rt' = rt /\ ws' = Closed(ws, rt.socket)
  BY <1>1, <1>4, <1>5, CloseFinal DEF Keeps
<1>6. CASE rt' = [ClearSession(rt) EXCEPT !.suppress = TRUE] /\ ws' = ws
  <2>1. Keeps(rt, rt') /\ rt'.hs = rt.hs /\ rt'.handshake = rt.handshake
    BY <1>2, <1>6 DEF ClearSession, Fields, Keeps
  <2>. QED  BY <1>1, <1>4, <1>6, <2>1, EventFinal
<1>. QED  BY <1>1, <1>5, <1>6

LEMMA MessageFinal ==
    ASSUME ConnInv, StoreInv, FinalInv, NEW a \in Attempts, Message(a) PROVE FinalInv'
<1>1. Unexpected(a) => FinalInv'
  BY Hears, ProtocolFailureFinal DEF Unexpected
<1>. QED  BY <1>1, ApprovalRequiredFinal, WelcomeFinal, RefusedFinal, BridgeDisconnectsFinal
          DEF Message

\* Whose registrations are answered has not been rejected.
LEMMA RegistrationsSettleFinal ==
    ASSUME ConnInv, StoreInv, FinalInv, Quiet, RegistrationsSettle PROVE FinalInv'
<1>1. /\ rt.state = "connected" /\ rt.socket # None /\ rt \in Fields
      /\ UNCHANGED <<attempts, ws, bridge>>
      /\ rt' = [rt EXCEPT !.hs = [rt.hs EXCEPT ![rt.handshake] = "ok"]]
  BY Unpacked, Zenon DEF RegistrationsSettle
<1>2. /\ rt'.socket = rt.socket /\ rt'.timer = rt.timer /\ rt'.suppress = rt.suppress
  BY <1>1 DEF Fields
<1>3. \A b \in Attempts : attempts[b].pc = "handshake" => rt.hs[b] # "final"
  BY DEF Quiet
<1>4. \A b \in Attempts : ws[b] \notin Live \/ bridge[b] \notin Unanswered
  BY <1>1, AttemptsAreNumbers DEF ConnInv, SocketInv, StoreInv, ConnectedInv
<1>5. AskingInv'
  BY <1>1, <1>4 DEF AskingInv
<1>6. \A b \in Attempts : Active(b)' <=> Active(b)
  BY <1>1 DEF Active
<1>. QED  BY <1>1, <1>2, <1>3, <1>5, <1>6, FinalKept

-----------------------------------------------------------------------------
(* The session store. *)

LEMMA LoadedFinal ==
    ASSUME ConnInv, StoreInv, FinalInv, queue # <<>>, Head(queue).op = "load",
           NEW ok \in BOOLEAN, Loaded(Head(queue), ok), UNCHANGED bridge
    PROVE  FinalInv'
<1> DEFINE a == Head(queue).a
           q == Tail(queue)
<1>1. a \in Attempts /\ attempts[a].pc \in Before
  BY StoreFacts DEF Before
<1>2. \/ Fails(a, ClearSession(rt))
      \/ WithSession(a, stored, q)
      \/ attempts' = [attempts EXCEPT ![a].pc = "token"] /\ UNCHANGED <<rt, ws>>
  BY DEF Loaded
<1>. HIDE DEF a, q
<1>3. rt \in Fields /\ stored \in Nat /\ Keeps(rt, rt)
  BY Unpacked DEF Keeps
<1>4. ClearSession(rt) \in Fields /\ Keeps(rt, ClearSession(rt))
  BY <1>3, ClearSessionFacts, ClearSessionKeeps
<1>5. CASE Fails(a, ClearSession(rt))
  BY <1>1, <1>4, <1>5, FailsFinal
<1>6. CASE WithSession(a, stored, q)
  BY <1>1, <1>3, <1>6, WithSessionFinal
<1>7. CASE attempts' = [attempts EXCEPT ![a].pc = "token"] /\ UNCHANGED <<rt, ws>>
  BY <1>1, <1>3, <1>7, MoveFinal DEF Before
<1>. QED  BY <1>2, <1>5, <1>6, <1>7

LEMMA SavedFinal ==
    ASSUME ConnInv, StoreInv, FinalInv, queue # <<>>, Head(queue).op = "save",
           NEW ok \in BOOLEAN, Saved(Head(queue), ok), UNCHANGED bridge
    PROVE  FinalInv'
<1> DEFINE h == Head(queue)
<1>1. /\ UNCHANGED attempts
      /\ \/ UNCHANGED <<rt, ws>>
         \/ /\ ws' = ws
            /\ rt' = [rt EXCEPT !.approval = FALSE, !.session = h.a,
                                !.tries = 0, !.state = "connected"]
         \/ /\ rt.socket = h.a
            /\ rt' = FailedForGood(ClearSession(rt)) /\ ws' = Closed(ws, h.a)
  BY DEF Saved, IsPendingHandshake
<1>. HIDE DEF h
<1>2. rt \in Fields
  BY Unpacked
<1>3. CASE UNCHANGED <<rt, ws>>
  BY <1>1, <1>3, SameFinal
<1>4. CASE /\ ws' = ws
           /\ rt' = [rt EXCEPT !.approval = FALSE, !.session = h.a,
                               !.tries = 0, !.state = "connected"]
  <2>1. Keeps(rt, rt') /\ rt'.hs = rt.hs /\ rt'.handshake = rt.handshake
    BY <1>2, <1>4 DEF Fields, Keeps
  <2>. QED  BY <1>1, <1>4, <2>1, EventFinal
<1>5. CASE /\ rt.socket = h.a
           /\ rt' = FailedForGood(ClearSession(rt)) /\ ws' = Closed(ws, h.a)
  <2>1. ClearSession(rt) \in Fields /\ Keeps(rt, ClearSession(rt))
    BY <1>2, ClearSessionFacts, ClearSessionKeeps
  <2>2. Keeps(rt, rt')
    BY <1>5, <2>1, FailedForGoodKeeps, KeepsTrans
  <2>. QED  BY <1>1, <1>5, <2>2, CloseFinal
<1>. QED  BY <1>1, <1>3, <1>4, <1>5

LEMMA ClearedFinal ==
    ASSUME ConnInv, StoreInv, FinalInv, queue # <<>>, Head(queue).op \notin {"load", "save"},
           NEW ok \in BOOLEAN, Cleared(Head(queue), ok), UNCHANGED bridge
    PROVE  FinalInv'
<1> DEFINE h == Head(queue)
<1>1. /\ Cleared(h, ok)
      /\ h.for = "attempt" => h.a \in Attempts /\ attempts[h.a].pc = "clear"
      /\ h.for = "disconnect" => disc.pc = "clearing"
  <2>1. h.op = "clear"
    BY EndsFacts DEF Operations
  <2>. QED  BY <2>1, StoreFacts
<1>. HIDE DEF h
<1>2. rt \in Fields /\ Keeps(rt, rt)
  BY Unpacked DEF Keeps
<1>3. CASE h.for = "attempt"
  <2>1. h.a \in Attempts /\ attempts[h.a].pc \in Before
    BY <1>1, <1>3 DEF Before
  <2>2. CASE Fails(h.a, rt)
    BY <1>2, <2>1, <2>2, FailsFinal
  <2>3. CASE attempts' = [attempts EXCEPT ![h.a].pc = "token"] /\ UNCHANGED <<rt, ws>>
    BY <1>2, <2>1, <2>3, MoveFinal DEF Before
  <2>. QED  BY <1>1, <1>3, <2>2, <2>3 DEF Cleared
<1>4. CASE h.for = "disconnect"
  <2>1. rt' = Disconnected(rt) /\ UNCHANGED <<attempts, ws>>
    BY <1>1, <1>4 DEF Cleared
  <2>2. \A b \in Attempts : ws'[b] \notin Live
    BY <1>1, <1>4, <2>1 DEF ConnInv, DiscInv, Down
  <2>. QED  BY <2>1, <2>2, DisconnectedKeeps, CloseFinal
<1>5. CASE h.for = "leave"
  <2>1. /\ rt' = (IF ok THEN rt ELSE Failed(rt, "final")) /\ ws' = Closed(ws, rt.socket)
        /\ UNCHANGED attempts
    BY <1>1, <1>5 DEF Cleared
  <2>2. Keeps(rt, rt')
    BY <1>2, <2>1, FailedKeeps DEF Outcomes
  <2>. QED  BY <2>1, <2>2, CloseFinal
<1>6. CASE h.for \notin {"attempt", "disconnect", "leave"}
  <2>1. /\ UNCHANGED attempts
        /\ \/ rt' = FailedForGood(rt) /\ ws' = Closed(ws, rt.socket)
           \/ UNCHANGED <<rt, ws>>
    BY <1>1, <1>6 DEF Cleared, ProtocolFailure
  <2>2. CASE rt' = FailedForGood(rt) /\ ws' = Closed(ws, rt.socket)
    BY <1>2, <2>1, <2>2, FailedForGoodKeeps, CloseFinal
  <2>3. CASE UNCHANGED <<rt, ws>>
    BY <2>1, <2>3, SameFinal
  <2>. QED  BY <2>1, <2>2, <2>3
<1>. QED  BY <1>3, <1>4, <1>5, <1>6

LEMMA StoreEndsFinal ==
    ASSUME ConnInv, StoreInv, FinalInv, StoreEnds PROVE FinalInv'
<1>1. queue # <<>> /\ UNCHANGED bridge
  BY DEF StoreEnds
<1>2. PICK ok \in BOOLEAN :
        CASE Head(queue).op = "load" -> Loaded(Head(queue), ok)
          [] Head(queue).op = "save" -> Saved(Head(queue), ok)
          [] OTHER -> Cleared(Head(queue), ok)
  BY DEF StoreEnds
<1>3. CASE Head(queue).op = "load"
  BY <1>1, <1>2, <1>3, LoadedFinal
<1>4. CASE Head(queue).op = "save"
  BY <1>1, <1>2, <1>4, SavedFinal
<1>5. CASE Head(queue).op \notin {"load", "save"}
  BY <1>1, <1>2, <1>5, ClearedFinal
<1>. QED  BY <1>3, <1>4, <1>5

-----------------------------------------------------------------------------
LEMMA InitFinalInv == ASSUME Init PROVE FinalInv
<1>1. /\ \A a \in Attempts : attempts[a].pc = "unused" /\ ~attempts[a].auto
      /\ \A a \in Attempts : ws[a] = "none" /\ bridge[a] = "silent"
      /\ rt.socket = None
  BY DEF Init, Unused
<1>. QED  BY <1>1, AttemptsAreNumbers
          DEF FinalInv, LatestInv, UnusedInv, AskingInv, RefusedInv, Active, Live

LEMMA NextFinalInv ==
    ASSUME ~Eager, ConnInv, StoreInv, FinalInv, [Next]_vars PROVE FinalInv'
<1>1. CASE Continuation
  <2>1. disc.preserve \in BOOLEAN
    BY DEF ConnInv, ConnectionTypes, Activity
  <2>2. DisconnectFollows => FinalInv'
    BY <2>1, DisconnectStartsFinal DEF DisconnectFollows
  <2>3. ReconnectEnds => FinalInv'
    BY SameFinal DEF ReconnectEnds
  <2>. QED  BY <1>1, <2>2, <2>3, AuthenticatesFinal, SettlesFinal, DisconnectClosesFinal,
            ReconnectStartsFinal, ReconnectDropsFinal, ReconnectConnectsFinal,
            QueuedConnectFinal DEF Continuation
<1>2. CASE Application
  <2>1. Reconnect => FinalInv'
    BY SameFinal DEF Reconnect
  <2>. QED  BY <1>2, <2>1, ConnectFinal, DisconnectFinal, CallerAbortsFinal DEF Application
<1>3. CASE Quiet /\ Timers
  <2>1. CloseWaitExpires => FinalInv'
    BY SameFinal DEF CloseWaitExpires
  <2>. QED  BY <1>3, <2>1, ReconnectTimerFiresFinal, ConnectTimesOutFinal DEF Timers
<1>4. CASE Awaited
  BY <1>4, StoreEndsFinal, PreparedFinal, TokenGivenFinal DEF Awaited
<1>5. CASE Quiet /\ RegistrationsSettle
  BY <1>5, RegistrationsSettleFinal
<1>6. CASE \E a \in Attempts : SocketOpens(a) \/ SocketCloses(a) \/ Message(a)
  BY <1>6, SocketOpensFinal, SocketClosesFinal, MessageFinal
<1>7. CASE UNCHANGED vars
  BY <1>7, SameFinal DEF vars
<1>. QED  BY <1>1, <1>2, <1>3, <1>4, <1>5, <1>6, <1>7 DEF Next

-----------------------------------------------------------------------------
(* Who begins an attempt of the runtime's own accord. *)

NoneAutomatic == \A a \in Attempts : attempts'[a].auto => attempts[a].auto

LEMMA MovesAutomatic ==
    ASSUME ConnInv, NEW a, NEW pc, attempts' = [attempts EXCEPT ![a].pc = pc]
    PROVE  NoneAutomatic
  BY DEF NoneAutomatic, ConnInv, ConnectionTypes, Attempt

LEMMA AbortsAutomatic ==
    ASSUME ConnInv, NEW a, attempts' = Aborted(a) PROVE NoneAutomatic
  BY DEF Aborted, NoneAutomatic, ConnInv, ConnectionTypes, Attempt

LEMMA EndsAutomatic ==
    ASSUME ConnInv, NEW a, End(a) PROVE NoneAutomatic
  BY DEF End, Unused, NoneAutomatic, ConnInv, ConnectionTypes

LEMMA OpensAutomatic ==
    ASSUME ConnInv, NEW a, NEW r, NEW auth, OpenSocket(a, r, auth) PROVE NoneAutomatic
<1>1. CASE End(a)
  BY <1>1, EndsAutomatic
<1>2. CASE attempts' = [attempts EXCEPT ![a].pc = "handshake", ![a].auth = auth]
  <2> DEFINE next == [attempts EXCEPT ![a].pc = "handshake"]
             one == [next[a] EXCEPT !.auth = auth]
  <2>1. /\ DOMAIN next = Attempts
        /\ \A b \in Attempts : next[b].auto = attempts[b].auto
        /\ \A b \in Attempts : DOMAIN next[b] = DOMAIN attempts[b]
    BY DEF ConnInv, ConnectionTypes, Attempt
  <2>2. attempts' = [next EXCEPT ![a] = one]
    BY <1>2, Zenon
  <2>. HIDE DEF next
  <2>3. a \in Attempts => one.auto = next[a].auto
    BY <2>1 DEF ConnInv, ConnectionTypes, Attempt
  <2>. HIDE DEF one
  <2>. QED  BY <2>1, <2>2, <2>3 DEF NoneAutomatic
<1>. QED  BY <1>1, <1>2 DEF OpenSocket

LEMMA BeginsAutomatic ==
    ASSUME ConnInv, NEW a, NEW fresh, BeginAttempt(a, FALSE, fresh) PROVE NoneAutomatic
  BY DEF BeginAttempt, Unused, NoneAutomatic, ConnInv, ConnectionTypes

LEMMA StaysAutomatic == ASSUME UNCHANGED attempts PROVE NoneAutomatic
  BY DEF NoneAutomatic

LEMMA StoreAutomatic ==
    ASSUME ConnInv, StoreEnds PROVE NoneAutomatic
<1>1. PICK ok \in BOOLEAN :
        CASE Head(queue).op = "load" -> Loaded(Head(queue), ok)
          [] Head(queue).op = "save" -> Saved(Head(queue), ok)
          [] OTHER -> Cleared(Head(queue), ok)
  BY DEF StoreEnds
<1>2. CASE Loaded(Head(queue), ok)
  BY <1>2, EndsAutomatic, OpensAutomatic, MovesAutomatic DEF Loaded, Fails, WithSession
<1>3. CASE Saved(Head(queue), ok)
  BY <1>3, StaysAutomatic DEF Saved
<1>4. CASE Cleared(Head(queue), ok)
  BY <1>4, EndsAutomatic, MovesAutomatic, StaysAutomatic DEF Cleared, Fails
<1>. QED  BY <1>1, <1>2, <1>3, <1>4

LEMMA NextAutomatic ==
    ASSUME ConnInv, [Next]_vars PROVE NoneAutomatic \/ (Quiet /\ ReconnectTimerFires)
<1>1. CASE Continuation
  <2>1. ASSUME NEW a \in Attempts, Authenticates(a) PROVE NoneAutomatic
    BY <2>1, OpensAutomatic, MovesAutomatic DEF Authenticates, WithSession
  <2>2. ASSUME NEW a \in Attempts, Settles(a) PROVE NoneAutomatic
    BY <2>2, EndsAutomatic DEF Settles
  <2>3. DisconnectFollows \/ ReconnectStarts => NoneAutomatic
    BY AbortsAutomatic DEF DisconnectFollows, DisconnectStarts, ReconnectStarts, TakeDown
  <2>4. DisconnectCloses \/ ReconnectDrops \/ ReconnectEnds => NoneAutomatic
    BY StaysAutomatic DEF DisconnectCloses, ReconnectDrops, ReconnectEnds
  <2>5. ReconnectConnects \/ QueuedConnect => NoneAutomatic
    BY BeginsAutomatic, StaysAutomatic DEF ReconnectConnects, QueuedConnect, ConnectBegins
  <2>. QED  BY <1>1, <2>1, <2>2, <2>3, <2>4, <2>5 DEF Continuation
<1>2. CASE Application
  <2>1. Connect => NoneAutomatic
    BY BeginsAutomatic, StaysAutomatic DEF Connect, ConnectBegins
  <2>2. Disconnect \/ Reconnect => NoneAutomatic
    BY AbortsAutomatic, StaysAutomatic DEF Disconnect, DisconnectStarts, TakeDown, Reconnect
  <2>3. ASSUME NEW a \in Attempts, CallerAborts(a) PROVE NoneAutomatic
    BY <2>3, AbortsAutomatic DEF CallerAborts
  <2>. QED  BY <1>2, <2>1, <2>2, <2>3 DEF Application
<1>3. CASE Quiet /\ Timers
  BY <1>3, StaysAutomatic DEF Timers, ConnectTimesOut, CloseWaitExpires
<1>4. CASE Awaited
  <2>1. ASSUME NEW a \in Attempts, Prepared(a) PROVE NoneAutomatic
    BY <2>1, MovesAutomatic, EndsAutomatic DEF Prepared, Fails
  <2>2. ASSUME NEW a \in Attempts, TokenGiven(a) PROVE NoneAutomatic
    BY <2>2, OpensAutomatic, EndsAutomatic DEF TokenGiven, Fails
  <2>. QED  BY <1>4, <2>1, <2>2, StoreAutomatic DEF Awaited
<1>5. CASE RegistrationsSettle
  BY <1>5, StaysAutomatic DEF RegistrationsSettle
<1>6. CASE \E a \in Attempts : SocketOpens(a) \/ SocketCloses(a) \/ Message(a)
  BY <1>6, StaysAutomatic DEF SocketOpens, SocketCloses, Message, ApprovalRequired, Welcome,
     Unexpected, Refused, BridgeDisconnects
<1>7. CASE UNCHANGED vars
  BY <1>7, StaysAutomatic DEF vars
<1>. QED  BY <1>1, <1>2, <1>3, <1>4, <1>5, <1>6, <1>7 DEF Next

\* After a rejection of its credential the runtime makes no attempt of its own accord
\* (#refuse, suppressReconnect, #scheduleReconnect): the handshake of the rejected
\* attempt ends for good, the close of its socket finds the reconnection suppressed,
\* and no other attempt can schedule one before the application has begun another.
THEOREM RejectionEnds ==
    ASSUME ~Eager PROVE Spec => RejectionIsFinal
<1> DEFINE Kept ==
      \A a \in Attempts :
         attempts[a].pc = "unused" /\ attempts'[a].auto
             => a = 1 \/ bridge[a - 1] # "rejected"
<1>1. Init => ConnInv /\ StoreInv /\ FinalInv
  BY InitConnInv, InitStoreInv, InitFinalInv
<1>2. (ConnInv /\ StoreInv /\ FinalInv) /\ [Next]_vars => (ConnInv /\ StoreInv /\ FinalInv)'
  BY NextConnInv, NextStoreInv, NextFinalInv
<1>3. (ConnInv /\ StoreInv /\ FinalInv) /\ [Next]_vars => [Kept]_vars
  <2> SUFFICES ASSUME ConnInv, StoreInv, FinalInv, [Next]_vars,
                      NEW a \in Attempts, attempts[a].pc = "unused", attempts'[a].auto,
                      a # 1
               PROVE  bridge[a - 1] # "rejected"
    OBVIOUS
  <2>1. ~attempts[a].auto
    BY DEF FinalInv, UnusedInv
  <2>2. ReconnectTimerFires
    BY <2>1, NextAutomatic DEF NoneAutomatic
  <2>3. rt.timer /\ BeginAttempt(Next1, TRUE, FALSE)
    BY <2>2 DEF ReconnectTimerFires
  <2>4. a = Next1
    BY <2>1, <2>3 DEF BeginAttempt, ConnInv, ConnectionTypes
  <2>5. PICK n \in 0..MaxConnects : Used = 1..n /\ Next1 = n + 1
    BY UsedCount DEF StoreInv, Standing
  <2>6. a - 1 = n /\ n \in Attempts /\ Latest(n)
    BY <2>4, <2>5, WebConnectionAssumption
       DEF WebConnectionAssumption, Attempts, Used, Latest
  <2>. QED  BY <2>3, <2>6 DEF FinalInv, RefusedInv
<1>. HIDE DEF Kept
<1>4. Spec => [][Kept]_vars
  BY <1>1, <1>2, <1>3, PTL DEF Spec
<1>. QED  BY <1>4 DEF Kept, RejectionIsFinal

=============================================================================
