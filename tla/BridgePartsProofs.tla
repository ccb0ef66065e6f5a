------------------------- MODULE BridgePartsProofs --------------------------
(***************************************************************************)
(* Proofs about four parts of the bridge, for every value of their        *)
(* constants.                                                              *)
(*                                                                         *)
(* HttpFront: a request takes its slot and gives it back in steps that     *)
(* change its phase, so the counter is exact because every action moves    *)
(* one request into the phases that are counted, out of them, or within    *)
(* them.                                                                   *)
(*                                                                         *)
(* Registry: what register and addSession refuse is kept as an invariant   *)
(* of the maps: a runtime is connected once, and its registrations differ  *)
(* in everything that an MCP client could name them by.  The counters are  *)
(* totals over the connections, and each call changes what one of them     *)
(* holds.                                                                  *)
(*                                                                         *)
(* Supervisor: two bridge processes cannot be alive because a launch is    *)
(* prepared only when no process is named, and because the report that a   *)
(* process has ended is never believed of one that still runs.  Both need  *)
(* facts about launches that the service has forgotten: LaunchInv.         *)
(*                                                                         *)
(* Handshake: versions are ordered, field by field and then by the first   *)
(* identifier that differs, so among finitely many common ones there is a  *)
(* last; and what a configuration may announce lies within what a welcome  *)
(* may say.                                                                *)
(***************************************************************************)
EXTENDS HttpFront, Registry, Supervisor, Handshake, Sums, FiniteSetTheorems, SequenceTheorems,
        TLAPS

-----------------------------------------------------------------------------
(* HttpFront.                                                                 *)

Phases == {"none", "reading", "fetching", "streaming", "draining", "done"}
InService == {"fetching", "streaming", "draining"}

\* The requests that hold a slot.
Holders == {q \in Exchanges : Counts(q) /\ exchange[q] \in InService}

FrontTypes ==
    /\ exchange \in [Exchanges -> Phases]
    /\ kind \in [Exchanges -> {"call", "listen", "decision"}]
    /\ slots \in Nat

SlotInv == FrontTypes /\ IsFiniteSet(Holders) /\ SlotsExact

-----------------------------------------------------------------------------

\* A request that moves on leaves the other holders alone.
LEMMA OneMoves ==
    ASSUME FrontTypes, NEW q \in Exchanges, NEW phase \in Phases, Goes(q, phase),
           UNCHANGED kind
    PROVE  /\ exchange' \in [Exchanges -> Phases]
           /\ Holders' = IF Counts(q) /\ phase \in InService
                         THEN Holders \cup {q} ELSE Holders \ {q}
<1>1. exchange' = [exchange EXCEPT ![q] = phase]
  BY DEF Goes
<1>2. \A r \in Exchanges : exchange'[r] = IF r = q THEN phase ELSE exchange[r]
  BY <1>1 DEF FrontTypes
<1>3. exchange' \in [Exchanges -> Phases]
  BY <1>1 DEF FrontTypes
<1>. QED  BY <1>2, <1>3 DEF Holders, Counts

\* The counter is as exact as the set of holders that it counts.
LEMMA SlotsCount ==
    SlotInv <=> /\ FrontTypes /\ IsFiniteSet(Holders)
                /\ slots = Cardinality(Holders) /\ slots <= MaxConcurrent
  BY DEF SlotInv, SlotsExact, Holders, InService

\* A step that neither takes a slot nor gives one back.
LEMMA SameHolders ==
    ASSUME SlotInv, FrontTypes', Holders' = Holders, slots' = slots
    PROVE  SlotInv'
<1>1. IsFiniteSet(Holders) /\ slots = Cardinality(Holders) /\ slots <= MaxConcurrent
  BY SlotsCount
<1>. QED  BY <1>1 DEF SlotInv, SlotsExact, Holders, InService

\* A request's end gives its slot back, if it held one.
LEMMA EndGivesBack ==
    ASSUME SlotInv, NEW q \in Exchanges, exchange[q] \in InService, Ended(q), UNCHANGED kind
    PROVE  SlotInv'
<1>1. /\ FrontTypes /\ IsFiniteSet(Holders)
      /\ slots = Cardinality(Holders) /\ slots <= MaxConcurrent
  BY SlotsCount
<1>2. exchange' \in [Exchanges -> Phases] /\ Holders' = Holders \ {q}
  BY <1>1, OneMoves DEF Ended, Phases, InService
<1>3. CASE Counts(q)
  <2>1. q \in Holders
    BY <1>3 DEF Holders
  <2>2. Cardinality(Holders') = Cardinality(Holders) - 1 /\ IsFiniteSet(Holders')
    BY <1>1, <1>2, <2>1, FS_RemoveElement
  <2>3. slots' = slots - 1
    BY <1>3 DEF Ended
  <2>4. Cardinality(Holders') \in Nat
    BY <2>2, FS_CardinalityType
  <2>. QED
    BY <1>1, <1>2, <2>2, <2>3, <2>4, FrontAssumption
       DEF SlotInv, FrontTypes, SlotsExact, Holders, InService, FrontAssumption
<1>4. CASE ~Counts(q)
  <2>1. Holders' = Holders
    BY <1>2, <1>4 DEF Holders
  <2>2. slots' = slots
    BY <1>4 DEF Ended
  <2>. QED  BY <1>1, <1>2, <2>1, <2>2, SameHolders DEF FrontTypes
<1>. QED  BY <1>3, <1>4

\* The limit is looked at in the step that takes the slot.
LEMMA BodyTakesSlot ==
    ASSUME SlotInv, NEW q \in Exchanges, NEW fits \in BOOLEAN, BodyRead(q, fits)
    PROVE  SlotInv'
<1>1. /\ FrontTypes /\ IsFiniteSet(Holders)
      /\ slots = Cardinality(Holders) /\ slots <= MaxConcurrent
  BY SlotsCount
<1>2. exchange[q] = "reading" /\ q \notin Holders /\ kind' = kind
  BY DEF BodyRead, Holders, InService
<1>3. CASE Goes(q, "done") /\ slots' = slots
  <2>1. exchange' \in [Exchanges -> Phases] /\ Holders' = Holders \ {q}
    BY <1>1, <1>2, <1>3, OneMoves DEF Phases, InService
  <2>. QED  BY <1>1, <1>2, <1>3, <2>1, SameHolders DEF FrontTypes
<1>4. CASE /\ Goes(q, "fetching") /\ (Counts(q) => HasRoom(q))
           /\ slots' = IF Counts(q) THEN slots + 1 ELSE slots
  <2>1. /\ exchange' \in [Exchanges -> Phases]
        /\ Holders' = IF Counts(q) THEN Holders \cup {q} ELSE Holders \ {q}
    BY <1>1, <1>2, <1>4, OneMoves DEF Phases, InService
  <2>2. CASE Counts(q)
    <3>1. slots < MaxConcurrent /\ slots' = slots + 1
      BY <1>4, <2>2 DEF HasRoom
    <3>2. Cardinality(Holders') = Cardinality(Holders) + 1 /\ IsFiniteSet(Holders')
      BY <1>1, <1>2, <2>1, <2>2, FS_AddElement
    <3>. QED
      BY <1>1, <1>2, <2>1, <3>1, <3>2, FrontAssumption
         DEF SlotInv, FrontTypes, SlotsExact, Holders, InService, FrontAssumption
  <2>3. CASE ~Counts(q)
    BY <1>1, <1>2, <1>4, <2>1, <2>3, SameHolders DEF FrontTypes
  <2>. QED  BY <2>2, <2>3
<1>. QED  BY <1>3, <1>4 DEF BodyRead

\* A new request is none that is served.
LEMMA ArrivalIsNew ==
    ASSUME SlotInv, NEW q \in Exchanges, NEW v \in Verdicts, Arrives(q, v)
    PROVE  SlotInv'
<1>1. FrontTypes
  BY DEF SlotInv
<1>2. /\ exchange[q] = "none" /\ slots' = slots
      /\ exchange' = [exchange EXCEPT ![q] = "reading"] \/ exchange' = [exchange EXCEPT ![q] = "done"]
      /\ kind' = kind \/ \E k \in {"call", "listen", "decision"} : kind' = [kind EXCEPT ![q] = k]
  BY DEF Arrives, Goes
<1>3. FrontTypes'
  BY <1>1, <1>2 DEF FrontTypes, Phases
<1>4. \A r \in Exchanges \ {q} : exchange'[r] = exchange[r] /\ kind'[r] = kind[r]
  BY <1>1, <1>2 DEF FrontTypes
<1>5. exchange[q] \notin InService /\ exchange'[q] \notin InService
  BY <1>1, <1>2 DEF FrontTypes, InService
<1>6. Holders' = Holders
  BY <1>4, <1>5 DEF Holders, Counts
<1>. QED  BY <1>2, <1>3, <1>6, SameHolders

\* A request that keeps its slot: between streaming and draining, or while its client goes.
LEMMA StillHolds ==
    ASSUME SlotInv, NEW q \in Exchanges, exchange[q] \in InService,
           NEW phase \in InService, Goes(q, phase), UNCHANGED <<kind, slots>>
    PROVE  SlotInv'
<1>1. FrontTypes
  BY DEF SlotInv
<1>2. /\ exchange' \in [Exchanges -> Phases]
      /\ Holders' = IF Counts(q) THEN Holders \cup {q} ELSE Holders \ {q}
  BY <1>1, OneMoves DEF Phases, InService
<1>3. Holders' = Holders
  BY <1>2 DEF Holders
<1>. QED  BY <1>1, <1>2, <1>3, SameHolders DEF FrontTypes

LEMMA NextSlotInv == SlotInv /\ [FrontNext]_frontVars => SlotInv'
<1>. SUFFICES ASSUME SlotInv, [FrontNext]_frontVars PROVE SlotInv'
  OBVIOUS
<1>1. ASSUME UNCHANGED <<exchange, kind, slots>> PROVE SlotInv'
  <2>1. Holders' = Holders /\ FrontTypes'
    BY <1>1 DEF Holders, Counts, SlotInv, FrontTypes
  <2>. QED  BY <1>1, <2>1, SameHolders
<1>2. CASE UNCHANGED frontVars \/ NotificationTimer \/ Close \/ \E k \in Kinds : Changed(k)
  BY <1>1, <1>2 DEF frontVars, http, NotificationTimer, Close, Changed
<1>3. ASSUME NEW q \in Exchanges, NEW v \in Verdicts, Arrives(q, v) PROVE SlotInv'
  BY <1>3, ArrivalIsNew
<1>4. ASSUME NEW q \in Exchanges, NEW fits \in BOOLEAN, BodyRead(q, fits) PROVE SlotInv'
  BY <1>4, BodyTakesSlot
<1>5. ASSUME NEW q \in Exchanges, NEW body \in BOOLEAN, Fetched(q, body) PROVE SlotInv'
  BY <1>5, StillHolds, EndGivesBack DEF Fetched, InService
<1>6. ASSUME NEW q \in Exchanges, NEW accepted \in BOOLEAN, Chunk(q, accepted) PROVE SlotInv'
  BY <1>6, StillHolds DEF Chunk, InService
<1>7. ASSUME NEW q \in Exchanges, StreamEnds(q) \/ Drained(q) PROVE SlotInv'
  BY <1>7, StillHolds, EndGivesBack DEF StreamEnds, Drained, InService
<1>8. ASSUME NEW q \in Exchanges, ClientCloses(q) PROVE SlotInv'
  BY <1>1, <1>8 DEF ClientCloses
<1>. QED
  BY <1>2, <1>3, <1>4, <1>5, <1>6, <1>7, <1>8 DEF FrontNext, Serves

LEMMA InitSlotInv == FrontInit => SlotInv
<1>. SUFFICES ASSUME FrontInit PROVE SlotInv
  OBVIOUS
<1>1. Holders = {} /\ FrontTypes /\ slots = 0
  BY DEF FrontInit, Holders, InService, FrontTypes, Phases
<1>2. IsFiniteSet({}) /\ Cardinality({}) = 0
  BY FS_EmptySet
<1>. QED  BY <1>1, <1>2, SlotsCount, FrontAssumption DEF FrontAssumption

\* The counter of concurrent requests is exact and within its limit, for any number of
\* requests in any order of bodies, answers, aborts and drains.
THEOREM SlotsNeverLeak == FrontSpec => []SlotsExact
<1>1. SlotInv => SlotsExact
  BY DEF SlotInv
<1>. QED  BY <1>1, InitSlotInv, NextSlotInv, PTL DEF FrontSpec

-----------------------------------------------------------------------------
(* Notifications. *)

\* Until the endpoint is closed, a change that the listeners have not been told of is
\* queued and the timer that will tell them is armed.
UntoldIsQueued == ~closed => stale \subseteq queued /\ (queued # {} => timer = "armed")

\* What FrontProgress asks of the timer is all that is needed: no change is dropped and
\* no timer forgotten, however changes, the timer and the stop interleave.
THEOREM NoticesComing == FrontSpec => []UntoldIsQueued
<1> DEFINE Inv == UntoldIsQueued /\ timer \in {"unset", "armed"}
<1>1. FrontInit => Inv
  BY DEF FrontInit, UntoldIsQueued
<1>2. Inv /\ [FrontNext]_frontVars => Inv'
  <2>. SUFFICES ASSUME Inv, [FrontNext]_frontVars PROVE Inv'
    OBVIOUS
  <2>1. ASSUME UNCHANGED <<queued, timer, stale, closed>> PROVE Inv'
    BY <2>1 DEF UntoldIsQueued
  <2>2. CASE UNCHANGED frontVars
    BY <2>1, <2>2 DEF frontVars, notes
  <2>3. ASSUME NEW q \in Exchanges,
               \/ \E v \in Verdicts : Arrives(q, v)
               \/ \E fits \in BOOLEAN : BodyRead(q, fits)
               \/ \E accepted \in BOOLEAN : Chunk(q, accepted)
               \/ Serves(q) \/ StreamEnds(q) \/ Drained(q) \/ ClientCloses(q)
        PROVE  Inv'
    BY <2>1, <2>3 DEF Arrives, BodyRead, Chunk, Serves, Fetched, StreamEnds, Drained,
                      ClientCloses, notes
  <2>4. ASSUME NEW k \in Kinds, Changed(k) PROVE Inv'
    BY <2>4 DEF Changed, UntoldIsQueued
  <2>5. CASE NotificationTimer
    BY <2>5 DEF NotificationTimer, Afterwards, http, UntoldIsQueued
  <2>6. CASE Close
    BY <2>6 DEF Close, UntoldIsQueued
  <2>. QED  BY <2>2, <2>3, <2>4, <2>5, <2>6 DEF FrontNext
<1>3. FrontSpec => []Inv
  <2>. HIDE DEF Inv
  <2>. QED  BY <1>1, <1>2, PTL DEF FrontSpec
<1>. QED  BY <1>3, PTL

-----------------------------------------------------------------------------
(* Registry.                                                                  *)

SameRuntime(a, b) == a.origin = b.origin /\ a.app = b.app /\ a.instance = b.instance

\* Two registrations of a connection can be told apart in every way they are named.
Distinct(c, r, s) ==
    /\ r.id # s.id
    /\ ~(r.kind = s.kind /\ ExposedName(c, r) = ExposedName(c, s))
    /\ ~(r.kind = "resource" /\ s.kind = "resource" /\ ExposedUri(c, r) = ExposedUri(c, s))

MapsTypes ==
    /\ sessions \in [Connections -> Identities \cup {NoSession}]
    /\ registrations \in [Connections -> SUBSET Definitions]

RegistryInv ==
    /\ MapsTypes
    /\ \A c \in Connections : registrations[c] # {} => c \in Connected
    /\ \A c, d \in Connected : SameRuntime(sessions[c], sessions[d]) => c = d
    /\ \A c \in Connections : \A r, s \in registrations[c] : r # s => Distinct(c, r, s)

-----------------------------------------------------------------------------

\* Which connections come, go and stay in a call.
LEMMA AddInv ==
    ASSUME RegistryInv, NEW c \in Connections, NEW who \in Identities,
           sessions[c] = NoSession, AddSession(c, who)
    PROVE  RegistryInv'
<1>1. /\ ~Conflicts(sessions, who)
      /\ sessions' = [sessions EXCEPT ![c] = who]
      /\ registrations' = [registrations EXCEPT ![c] = {}]
  BY DEF AddSession
<1>2. MapsTypes'
  BY <1>1 DEF RegistryInv, MapsTypes
<1>3. /\ \A d \in Connections : sessions'[d] = IF d = c THEN who ELSE sessions[d]
      /\ \A d \in Connections : registrations'[d] = IF d = c THEN {} ELSE registrations[d]
  BY <1>1 DEF RegistryInv, MapsTypes
<1>4. Connected' = Connected \cup {c}
  BY <1>3, RegistryAssumption DEF Connected, RegistryAssumption
<1>5. \A d \in Connections : registrations'[d] # {} => d \in Connected'
  BY <1>3, <1>4 DEF RegistryInv
<1>6. ASSUME NEW d \in Connected', NEW e \in Connected', SameRuntime(sessions'[d], sessions'[e])
      PROVE  d = e
  <2>1. ASSUME NEW x \in Connected, x # c PROVE /\ ~SameRuntime(sessions[x], who)
                                                /\ ~SameRuntime(who, sessions[x])
    BY <1>1, <2>1 DEF Conflicts, Connected, SameRuntime
  <2>2. d \in Connections /\ e \in Connections
    BY DEF Connected
  <2>3. CASE d = c \/ e = c
    BY <1>3, <1>4, <1>6, <2>1, <2>2, <2>3
  <2>4. CASE d # c /\ e # c
    BY <1>3, <1>4, <1>6, <2>2, <2>4 DEF RegistryInv
  <2>. QED  BY <2>3, <2>4
<1>7. ASSUME NEW d \in Connections, NEW r \in registrations'[d], NEW s \in registrations'[d], r # s
      PROVE  Distinct(d, r, s)'
  <2>1. d # c /\ sessions'[d] = sessions[d] /\ r \in registrations[d] /\ s \in registrations[d]
    BY <1>3
  <2>2. Distinct(d, r, s)
    BY <1>7, <2>1 DEF RegistryInv
  <2>. QED  BY <2>1, <2>2 DEF Distinct, ExposedName, ExposedUri
<1>. QED  BY <1>2, <1>5, <1>6, <1>7 DEF RegistryInv

LEMMA RemoveInv ==
    ASSUME RegistryInv, NEW c \in Connections, RemoveSession(c)
    PROVE  RegistryInv'
<1>1. /\ sessions' = [sessions EXCEPT ![c] = NoSession]
      /\ registrations' = [registrations EXCEPT ![c] = {}]
  BY DEF RemoveSession, Forget
<1>2. MapsTypes'
  BY <1>1 DEF RegistryInv, MapsTypes
<1>3. \A d \in Connections : /\ sessions'[d] = IF d = c THEN NoSession ELSE sessions[d]
                             /\ registrations'[d] = IF d = c THEN {} ELSE registrations[d]
  BY <1>1 DEF RegistryInv, MapsTypes
<1>4. Connected' = Connected \ {c} /\ Connected \subseteq Connections
  BY <1>3 DEF Connected
<1>5. \A d \in Connections : registrations'[d] # {} => d \in Connected'
  BY <1>3, <1>4 DEF RegistryInv
<1>6. \A d, e \in Connected' : SameRuntime(sessions'[d], sessions'[e]) => d = e
  BY <1>3, <1>4 DEF RegistryInv
<1>7. ASSUME NEW d \in Connections, NEW r \in registrations'[d], NEW s \in registrations'[d], r # s
      PROVE  Distinct(d, r, s)'
  <2>1. d # c /\ sessions'[d] = sessions[d] /\ r \in registrations[d] /\ s \in registrations[d]
    BY <1>3
  <2>2. Distinct(d, r, s)
    BY <1>7, <2>1 DEF RegistryInv
  <2>. QED  BY <2>1, <2>2 DEF Distinct, ExposedName, ExposedUri
<1>. QED  BY <1>2, <1>5, <1>6, <1>7 DEF RegistryInv

\* A registration that comes is unlike the others; one that goes leaves them unlike.
LEMMA RegisterInv ==
    ASSUME RegistryInv, NEW c \in Connections, NEW d \in Definitions,
           Register(c, d) \/ Unregister(c, d)
    PROVE  RegistryInv'
<1>1. /\ sessions' = sessions /\ Connected' = Connected
      /\ \/ registrations' = [registrations EXCEPT ![c] = registrations[c] \ {d}]
         \/ /\ registrations' = [registrations EXCEPT ![c] = registrations[c] \cup {d}]
            /\ Unclaimed(c, d) /\ sessions[c] # NoSession
  BY DEF Register, Unregister, Connected
<1>2. MapsTypes'
  BY <1>1 DEF RegistryInv, MapsTypes
<1>3. \A x \in Connections : registrations'[x] # {} => x \in Connected'
  BY <1>1 DEF RegistryInv, MapsTypes, Connected
<1>4. \A x, y \in Connected' : SameRuntime(sessions'[x], sessions'[y]) => x = y
  BY <1>1 DEF RegistryInv
<1>5. ASSUME NEW x \in Connections, NEW r \in registrations'[x], NEW s \in registrations'[x], r # s
      PROVE  Distinct(x, r, s)'
  <2>1. CASE r \in registrations[x] /\ s \in registrations[x]
    BY <1>1, <1>5, <2>1 DEF RegistryInv, Distinct, ExposedName, ExposedUri
  <2>2. CASE r \notin registrations[x] \/ s \notin registrations[x]
    <3>1. x = c /\ Unclaimed(c, d) /\ (r = d \/ s = d)
          /\ (r # d => r \in registrations[c]) /\ (s # d => s \in registrations[c])
      BY <1>1, <2>2 DEF RegistryInv, MapsTypes
    <3>. QED  BY <1>1, <1>5, <3>1 DEF Unclaimed, Distinct, ExposedName, ExposedUri
  <2>. QED  BY <2>1, <2>2
<1>. QED  BY <1>2, <1>3, <1>4, <1>5 DEF RegistryInv

LEMMA InitRegistryInv == Init => RegistryInv
  BY DEF Init, RegistryInv, MapsTypes, Connected

LEMMA NextRegistryInv == RegistryInv /\ [Next]_vars => RegistryInv'
<1>. SUFFICES ASSUME RegistryInv, [Next]_vars PROVE RegistryInv'
  OBVIOUS
<1>1. CASE UNCHANGED vars
  BY <1>1 DEF vars, maps, RegistryInv, MapsTypes, Connected, Distinct, ExposedName, ExposedUri
<1>. QED  BY <1>1, AddInv, RemoveInv, RegisterInv DEF Next

THEOREM RegistryInvariance == Spec => []RegistryInv
  BY InitRegistryInv, NextRegistryInv, PTL DEF Spec

-----------------------------------------------------------------------------
(* Ambiguity. *)

\* Providers of one name, or of one URI, are in different tabs of one application.
TwoTabs(providers) ==
    \A p, q \in providers :
        p # q => /\ p[1] # q[1]
                 /\ sessions[p[1]].instance # sessions[q[1]].instance

\* Registrations that an MCP client cannot tell apart.
Alike(providers) ==
    /\ \A p \in providers : p[2] \in registrations[p[1]]
    /\ \A p, q \in providers :
        /\ sessions[p[1]].origin = sessions[q[1]].origin
        /\ sessions[p[1]].app = sessions[q[1]].app
        /\ p[1] = q[1] => ~Distinct(p[1], p[2], q[2])

LEMMA SharedNames ==
    ASSUME RegistryInv, NEW providers \in SUBSET (Connections \X Definitions), Alike(providers)
    PROVE  TwoTabs(providers)
<1>. SUFFICES ASSUME NEW p \in providers, NEW q \in providers, p # q
              PROVE  p[1] # q[1] /\ sessions[p[1]].instance # sessions[q[1]].instance
  BY DEF TwoTabs
<1>1. /\ p \in Connections \X Definitions /\ q \in Connections \X Definitions
      /\ p[2] \in registrations[p[1]] /\ q[2] \in registrations[q[1]]
  BY DEF Alike
<1>2. p[1] # q[1]
  <2>. SUFFICES ASSUME p[1] = q[1] PROVE FALSE
    OBVIOUS
  <2>1. p[2] # q[2]
    BY <1>1
  <2>2. Distinct(p[1], p[2], q[2])
    BY <1>1, <2>1 DEF RegistryInv
  <2>. QED  BY <2>2 DEF Alike
<1>3. p[1] \in Connected /\ q[1] \in Connected
  BY <1>1 DEF RegistryInv
<1>. QED  BY <1>2, <1>3 DEF RegistryInv, SameRuntime, Alike

\* A target with two providers has them in two tabs: a name or a URI is ambiguous only
\* between instances of one application, for any definitions and any names.
THEOREM NamesSharedByTabsOnly == Spec => []AmbiguityOnlyBetweenTabs
<1>1. ASSUME RegistryInv PROVE AmbiguityOnlyBetweenTabs
  <2>. SUFFICES ASSUME NEW c \in Connections, NEW d \in registrations[c]
                PROVE  /\ TwoTabs(Providers(d.kind, ExposedName(c, d)))
                       /\ d.kind = "resource" => TwoTabs(UriProviders(ExposedUri(c, d)))
    BY DEF AmbiguityOnlyBetweenTabs, TwoTabs
  <2>1. TwoTabs(Providers(d.kind, ExposedName(c, d)))
    <3> DEFINE named == Providers(d.kind, ExposedName(c, d))
    <3>1. /\ named \in SUBSET (Connections \X Definitions)
          /\ \A p \in named : /\ p[2] \in registrations[p[1]] /\ p[2].kind = d.kind
                              /\ ExposedName(p[1], p[2]) = ExposedName(c, d)
      BY DEF Providers
    <3>. HIDE DEF named
    <3>2. ASSUME NEW p \in named, NEW q \in named
          PROVE  /\ sessions[p[1]].origin = sessions[q[1]].origin
                 /\ sessions[p[1]].app = sessions[q[1]].app
                 /\ p[1] = q[1] => ~Distinct(p[1], p[2], q[2])
      <4>1. ExposedName(p[1], p[2]) = ExposedName(q[1], q[2]) /\ p[2].kind = q[2].kind
        BY <3>1
      <4>2. /\ sessions[p[1]].origin = sessions[q[1]].origin
            /\ sessions[p[1]].app = sessions[q[1]].app
        BY <4>1 DEF ExposedName
      <4>. QED  BY <4>1, <4>2 DEF Distinct
    <3>3. Alike(named)
      BY <3>1, <3>2 DEF Alike
    <3>4. named \in SUBSET (Connections \X Definitions)
      BY <3>1
    <3>5. TwoTabs(named)
      BY <1>1, <3>3, <3>4, SharedNames
    <3>. QED  BY <3>5 DEF named
  <2>2. TwoTabs(UriProviders(ExposedUri(c, d)))
    <3> DEFINE named == UriProviders(ExposedUri(c, d))
    <3>1. /\ named \in SUBSET (Connections \X Definitions)
          /\ \A p \in named : /\ p[2] \in registrations[p[1]] /\ p[2].kind = "resource"
                              /\ ExposedUri(p[1], p[2]) = ExposedUri(c, d)
      BY DEF UriProviders
    <3>. HIDE DEF named
    <3>2. ASSUME NEW p \in named, NEW q \in named
          PROVE  /\ sessions[p[1]].origin = sessions[q[1]].origin
                 /\ sessions[p[1]].app = sessions[q[1]].app
                 /\ p[1] = q[1] => ~Distinct(p[1], p[2], q[2])
      <4>1. /\ ExposedUri(p[1], p[2]) = ExposedUri(q[1], q[2])
            /\ p[2].kind = "resource" /\ q[2].kind = "resource"
        BY <3>1
      <4>2. /\ sessions[p[1]].origin = sessions[q[1]].origin
            /\ sessions[p[1]].app = sessions[q[1]].app
        BY <4>1 DEF ExposedUri
      <4>. QED  BY <4>1, <4>2 DEF Distinct
    <3>3. Alike(named)
      BY <3>1, <3>2 DEF Alike
    <3>4. named \in SUBSET (Connections \X Definitions)
      BY <3>1
    <3>5. TwoTabs(named)
      BY <1>1, <3>3, <3>4, SharedNames
    <3>. QED  BY <3>5 DEF named
  <2>. QED  BY <2>1, <2>2
<1>. QED  BY <1>1, RegistryInvariance, PTL

-----------------------------------------------------------------------------
(* Totals. *)

LEMMA TotalIsSum == ASSUME NEW f PROVE TotalOf(f) = SumOver(f, DOMAIN f)
  BY DEF TotalOf, FoldFunction, SumOver

LEMMA TotalEmpty == ASSUME NEW f, DOMAIN f = {} PROVE TotalOf(f) = 0
  BY TotalIsSum, SumEmpty

LEMMA TotalBounds ==
    ASSUME NEW S, IsFiniteSet(S), NEW f \in [S -> Nat]
    PROVE  TotalOf(f) \in Nat /\ \A x \in S : f[x] <= TotalOf(f)
<1>1. TotalOf(f) = SumOver(f, S)
  BY TotalIsSum
<1>2. TotalOf(f) \in Nat
  BY <1>1, SumNat
<1>3. ASSUME NEW x \in S PROVE f[x] <= TotalOf(f)
  <2>1. SumOver(f, S) = f[x] + SumOver(f, S \ {x})
    BY SumAny
  <2>2. IsFiniteSet(S \ {x}) /\ \A y \in S \ {x} : f[y] \in Nat
    BY FS_RemoveElement
  <2>3. SumOver(f, S \ {x}) \in Nat
    BY <2>2, SumNat
  <2>. QED  BY <1>1, <2>1, <2>3
<1>. QED  BY <1>2, <1>3

LEMMA TotalGrows ==
    ASSUME NEW S, IsFiniteSet(S), NEW x, x \notin S, NEW f \in [S -> Nat],
           NEW g \in [S \cup {x} -> Nat], \A y \in S : g[y] = f[y]
    PROVE  TotalOf(g) = TotalOf(f) + g[x]
<1>1. TotalOf(f) = SumOver(f, S) /\ TotalOf(g) = SumOver(g, S \cup {x})
  BY TotalIsSum
<1>2. SumOver(g, S \cup {x}) = g[x] + SumOver(g, S)
  BY SumAdd
<1>3. SumOver(g, S) = SumOver(f, S) /\ SumOver(f, S) \in Nat /\ g[x] \in Nat
  BY SumSame, SumNat
<1>. QED  BY <1>1, <1>2, <1>3

LEMMA TotalChanges ==
    ASSUME NEW S, IsFiniteSet(S), NEW x \in S, NEW f \in [S -> Nat], NEW g \in [S -> Nat],
           \A y \in S \ {x} : g[y] = f[y]
    PROVE  TotalOf(g) = TotalOf(f) - f[x] + g[x]
<1>1. TotalOf(f) = SumOver(f, S) /\ TotalOf(g) = SumOver(g, S)
  BY TotalIsSum
<1>. QED  BY <1>1, SumChange

-----------------------------------------------------------------------------
(* The counters. *)

Ids(c) == {d.id : d \in registrations[c]}

\* The maps that are accounted for: finitely many registrations of finitely many
\* runtimes, and for each the bytes under its id and under no other.
Accounts ==
    /\ IsFiniteSet(Connected)
    /\ bytes = [c \in Connections |-> bytes[c]]
    /\ \A c \in Connections :
        /\ IsFiniteSet(registrations[c])
        /\ bytes[c] \in [Ids(c) -> Nat]

UsageInv == RegistryInv /\ Accounts /\ UsageExact

LEMMA CountsOf ==
    ASSUME RegistryInv, Accounts
    PROVE  /\ Holdings \in [Connected -> Nat] /\ TotalOf(Holdings) \in Nat
           /\ Weights \in [Connected -> Nat] /\ TotalOf(Weights) \in Nat
           /\ \A c \in Connections : /\ IsFiniteSet(Ids(c))
                                     /\ Cardinality(registrations[c]) \in Nat
                                     /\ TotalOf(bytes[c]) \in Nat
<1>1. ASSUME NEW c \in Connections
      PROVE  /\ IsFiniteSet(Ids(c)) /\ Cardinality(registrations[c]) \in Nat
             /\ TotalOf(bytes[c]) \in Nat
  <2>1. IsFiniteSet(registrations[c]) /\ bytes[c] \in [Ids(c) -> Nat]
    BY DEF Accounts
  <2>2. IsFiniteSet(Ids(c))
    <3> DEFINE id == [d \in registrations[c] |-> d.id]
    <3>1. id \in Surjection(registrations[c], Ids(c))
      BY DEF Surjection, Ids
    <3>. HIDE DEF id
    <3>. QED  BY <2>1, <3>1, FS_Surjection
  <2>. QED  BY <2>1, <2>2, TotalBounds, FS_CardinalityType
<1>2. IsFiniteSet(Connected) /\ Connected \subseteq Connections
  BY DEF Accounts, Connected
<1>3. Holdings \in [Connected -> Nat] /\ Weights \in [Connected -> Nat]
  BY <1>1, <1>2 DEF Holdings, Weights
<1>. QED  BY <1>1, <1>2, <1>3, TotalBounds

LEMMA InitUsage == ASSUME Init PROVE Accounts /\ UsageExact
<1>1. Connected = {} /\ \A c \in Connections : registrations[c] = {} /\ bytes[c] = NoBytes
  BY DEF Init, Connected
<1>2. \A c \in Connections : Ids(c) = {}
  BY <1>1 DEF Ids
<1>3. Accounts
  <2>1. bytes = [c \in Connections |-> bytes[c]]
    BY DEF Init
  <2>. QED  BY <1>1, <1>2, <2>1, FS_EmptySet DEF Accounts, NoBytes
<1>4. TotalOf(Holdings) = 0 /\ TotalOf(Weights) = 0
  BY <1>1, TotalEmpty DEF Holdings, Weights
<1>5. \A c \in Connections : TotalOf(bytes[c]) = 0 /\ Cardinality(registrations[c]) = 0
  BY <1>1, TotalEmpty, FS_EmptySet DEF NoBytes
<1>. QED  BY <1>1, <1>3, <1>4, <1>5, RegistryAssumption DEF UsageExact, Init, RegistryAssumption

\* A session that comes has nothing yet.
LEMMA AddUsage ==
    ASSUME UsageInv, NEW c \in Connections, NEW who \in Identities,
           sessions[c] = NoSession, AddSession(c, who)
    PROVE  Accounts' /\ UsageExact'
<1>1. RegistryInv /\ Accounts /\ UsageExact
  BY DEF UsageInv
<1>2. registrations[c] = {} /\ c \notin Connected
  BY <1>1 DEF RegistryInv, Connected
<1>3. registrations' = registrations
  BY <1>1, <1>2 DEF RegistryInv, MapsTypes, AddSession
<1>4. bytes' = bytes
  <2>1. bytes[c] \in [{} -> Nat]
    BY <1>1, <1>2 DEF Accounts, Ids
  <2>2. bytes[c] = NoBytes
    BY <2>1 DEF NoBytes
  <2>3. bytes = [e \in Connections |-> bytes[e]] /\ bytes' = [bytes EXCEPT ![c] = NoBytes]
    BY <1>1 DEF Accounts, AddSession
  <2>. QED  BY <2>2, <2>3
<1>5. Connected' = Connected \cup {c} /\ UNCHANGED <<count, retained>>
  BY <1>1, RegistryAssumption DEF AddSession, RegistryInv, MapsTypes, Connected, RegistryAssumption, counters
<1>6. Accounts'
  BY <1>1, <1>3, <1>4, <1>5, FS_AddElement DEF Accounts, Ids
<1>7. Cardinality(registrations[c]) = 0 /\ TotalOf(bytes[c]) = 0
  <2>1. DOMAIN bytes[c] = {}
    BY <1>1, <1>2 DEF Accounts, Ids
  <2>. QED  BY <1>2, <2>1, TotalEmpty, FS_EmptySet
<1>8. /\ Holdings' = [e \in Connected \cup {c} |-> Cardinality(registrations[e])]
      /\ Weights' = [e \in Connected \cup {c} |-> TotalOf(bytes[e])]
  BY <1>3, <1>4, <1>5 DEF Holdings, Weights
<1>9. /\ Holdings' \in [Connected \cup {c} -> Nat] /\ Weights' \in [Connected \cup {c} -> Nat]
      /\ IsFiniteSet(Connected) /\ Holdings \in [Connected -> Nat] /\ Weights \in [Connected -> Nat]
      /\ TotalOf(Holdings) \in Nat /\ TotalOf(Weights) \in Nat
  BY <1>1, <1>8, CountsOf DEF Accounts, Connected
<1>10. TotalOf(Holdings') = TotalOf(Holdings)
  <2>1. \A y \in Connected : Holdings'[y] = Holdings[y]
    BY <1>8 DEF Holdings
  <2>2. TotalOf(Holdings') = TotalOf(Holdings) + Holdings'[c]
    BY <1>2, <1>9, <2>1, TotalGrows
  <2>. QED  BY <1>7, <1>8, <1>9, <2>2
<1>11. TotalOf(Weights') = TotalOf(Weights)
  <2>1. \A y \in Connected : Weights'[y] = Weights[y]
    BY <1>8 DEF Weights
  <2>2. TotalOf(Weights') = TotalOf(Weights) + Weights'[c]
    BY <1>2, <1>9, <2>1, TotalGrows
  <2>. QED  BY <1>7, <1>8, <1>9, <2>2
<1>. QED  BY <1>1, <1>3, <1>4, <1>5, <1>6, <1>10, <1>11 DEF UsageExact

\* The entries of one connected runtime change.
LEMMA TotalsOfOne ==
    ASSUME RegistryInv, Accounts, NEW c \in Connected,
           Connected' = Connected,
           Cardinality(registrations'[c]) \in Nat, TotalOf(bytes'[c]) \in Nat,
           \A e \in Connections \ {c} : registrations'[e] = registrations[e] /\ bytes'[e] = bytes[e]
    PROVE  /\ TotalOf(Holdings') = TotalOf(Holdings) - Cardinality(registrations[c])
                                 + Cardinality(registrations'[c])
           /\ TotalOf(Weights') = TotalOf(Weights) - TotalOf(bytes[c]) + TotalOf(bytes'[c])
<1>1. /\ IsFiniteSet(Connected) /\ Connected \subseteq Connections
      /\ Holdings \in [Connected -> Nat] /\ Weights \in [Connected -> Nat]
  BY CountsOf DEF Accounts, Connected
<1>2. Holdings' \in [Connected -> Nat] /\ Weights' \in [Connected -> Nat]
  <2>1. \A e \in Connected : Cardinality(registrations'[e]) \in Nat /\ TotalOf(bytes'[e]) \in Nat
    BY <1>1, CountsOf
  <2>. QED  BY <2>1 DEF Holdings, Weights
<1>3. /\ \A y \in Connected \ {c} : Holdings'[y] = Holdings[y] /\ Weights'[y] = Weights[y]
      /\ Holdings[c] = Cardinality(registrations[c]) /\ Holdings'[c] = Cardinality(registrations'[c])
      /\ Weights[c] = TotalOf(bytes[c]) /\ Weights'[c] = TotalOf(bytes'[c])
  BY <1>1 DEF Holdings, Weights
<1>4. TotalOf(Holdings') = TotalOf(Holdings) - Holdings[c] + Holdings'[c]
  BY <1>1, <1>2, <1>3, TotalChanges
<1>5. TotalOf(Weights') = TotalOf(Weights) - Weights[c] + Weights'[c]
  BY <1>1, <1>2, <1>3, TotalChanges
<1>. QED  BY <1>3, <1>4, <1>5

\* It registers: within the limits that were looked up in the same call.
LEMMA RegisterUsage ==
    ASSUME UsageInv, NEW c \in Connections, NEW d \in Definitions, Register(c, d)
    PROVE  Accounts' /\ UsageExact'
<1>1. RegistryInv /\ Accounts /\ UsageExact
  BY DEF UsageInv
<1>2. /\ c \in Connected /\ Connected' = Connected /\ d.bytes \in Nat
      /\ registrations' = [registrations EXCEPT ![c] = registrations[c] \cup {d}]
      /\ count' = count + 1 /\ retained' = retained + d.bytes
  BY RegistryAssumption DEF Register, Connected, RegistryAssumption
<1>3. /\ registrations'[c] = registrations[c] \cup {d}
      /\ \A e \in Connections \ {c} : registrations'[e] = registrations[e]
  BY <1>1, <1>2 DEF RegistryInv, MapsTypes
<1> DEFINE grown == [id \in Ids(c) \cup {d.id} |-> IF id = d.id THEN d.bytes ELSE bytes[c][id]]
<1>4. bytes[c] \in [Ids(c) -> Nat] /\ bytes = [e \in Connections |-> bytes[e]]
  BY <1>1 DEF Accounts
<1>5. bytes' = [bytes EXCEPT ![c] = grown]
  BY <1>4 DEF Register
<1>6. d.id \notin Ids(c) /\ d \notin registrations[c]
  BY DEF Register, Unclaimed, Ids
<1>7. /\ grown \in [Ids(c) \cup {d.id} -> Nat] /\ grown[d.id] = d.bytes
      /\ \A id \in Ids(c) : grown[id] = bytes[c][id]
  BY <1>2, <1>4, <1>6
<1>. HIDE DEF grown
<1>8. bytes'[c] = grown /\ \A e \in Connections \ {c} : bytes'[e] = bytes[e]
  BY <1>4, <1>5
<1>9. /\ IsFiniteSet(registrations'[c])
      /\ Cardinality(registrations'[c]) = Cardinality(registrations[c]) + 1
      /\ Cardinality(registrations[c]) \in Nat
  <2>1. IsFiniteSet(registrations[c])
    BY <1>1 DEF Accounts
  <2>2. /\ IsFiniteSet(registrations[c] \cup {d})
        /\ Cardinality(registrations[c] \cup {d}) = Cardinality(registrations[c]) + 1
    BY <1>6, <2>1, FS_AddElement
  <2>3. Cardinality(registrations[c]) \in Nat
    BY <2>1, FS_CardinalityType
  <2>. QED  BY <1>3, <2>2, <2>3
<1>10. TotalOf(bytes'[c]) = TotalOf(bytes[c]) + d.bytes /\ TotalOf(bytes[c]) \in Nat
  <2>1. IsFiniteSet(Ids(c)) /\ TotalOf(bytes[c]) \in Nat
    BY <1>1, CountsOf
  <2>2. TotalOf(grown) = TotalOf(bytes[c]) + grown[d.id]
    <3> DEFINE S == Ids(c)
               x == d.id
               f == bytes[c]
    <3>1. /\ IsFiniteSet(S) /\ x \notin S /\ f \in [S -> Nat] /\ grown \in [S \cup {x} -> Nat]
          /\ \A y \in S : grown[y] = f[y]
      BY <1>4, <1>6, <1>7, <2>1
    <3>. HIDE DEF S, x, f
    <3>2. TotalOf(grown) = TotalOf(f) + grown[x]
      BY <3>1, TotalGrows
    <3>. QED  BY <3>2 DEF f, x
  <2>. QED  BY <1>7, <1>8, <2>1, <2>2
<1>11. Ids(c)' = Ids(c) \cup {d.id} /\ \A e \in Connections \ {c} : Ids(e)' = Ids(e)
  BY <1>3 DEF Ids
<1>12. Accounts'
  <2>1. bytes' = [e \in Connections |-> bytes'[e]]
    BY <1>4, <1>5
  <2>2. ASSUME NEW e \in Connections PROVE IsFiniteSet(registrations'[e]) /\ bytes'[e] \in [Ids(e)' -> Nat]
    <3>1. CASE e = c
      BY <1>7, <1>8, <1>9, <1>11, <3>1
    <3>2. CASE e # c
      <4>1. IsFiniteSet(registrations[e]) /\ bytes[e] \in [Ids(e) -> Nat]
        BY <1>1 DEF Accounts
      <4>. QED  BY <1>3, <1>8, <1>11, <3>2, <4>1
    <3>. QED  BY <3>1, <3>2
  <2>3. IsFiniteSet(Connected')
    BY <1>1, <1>2 DEF Accounts
  <2>. QED  BY <2>1, <2>2, <2>3 DEF Accounts
<1>13. /\ TotalOf(Holdings') = TotalOf(Holdings) - Cardinality(registrations[c])
                             + Cardinality(registrations'[c])
       /\ TotalOf(Weights') = TotalOf(Weights) - TotalOf(bytes[c]) + TotalOf(bytes'[c])
  <2>1. Cardinality(registrations'[c]) \in Nat /\ TotalOf(bytes'[c]) \in Nat
    BY <1>2, <1>9, <1>10
  <2>. QED  BY <1>1, <1>2, <1>3, <1>8, <2>1, TotalsOfOne
<1>14. TotalOf(Holdings) \in Nat /\ TotalOf(Weights) \in Nat
  BY <1>1, CountsOf
<1>15. TotalOf(Holdings') = TotalOf(Holdings) + 1 /\ TotalOf(Weights') = TotalOf(Weights) + d.bytes
  BY <1>2, <1>9, <1>10, <1>13, <1>14
<1>16. /\ Cardinality(registrations[c]) < MaxPerRuntime /\ count < MaxTotal
       /\ TotalOf(bytes[c]) + d.bytes <= MaxBytesPerRuntime /\ retained + d.bytes <= MaxBytesTotal
  BY DEF Register, WithinLimits
<1>17. ASSUME NEW e \in Connections
       PROVE  /\ Cardinality(registrations'[e]) <= MaxPerRuntime
              /\ TotalOf(bytes'[e]) <= MaxBytesPerRuntime
              /\ \A r \in registrations'[e] : bytes'[e][r.id] = r.bytes
  <2>0. \A r \in registrations[e] : r.id \in Ids(e) /\ bytes[e][r.id] = r.bytes
    BY <1>1 DEF UsageExact, Ids
  <2>1. CASE e = c
    <3>1. Cardinality(registrations'[e]) <= MaxPerRuntime
      BY <1>9, <1>16, <2>1, RegistryAssumption DEF RegistryAssumption
    <3>2. \A r \in registrations'[e] : bytes'[e][r.id] = r.bytes
      BY <1>3, <1>7, <1>8, <2>0, <2>1
    <3>. QED  BY <1>10, <1>16, <2>1, <3>1, <3>2
  <2>2. CASE e # c
    BY <1>1, <1>3, <1>8, <2>2 DEF UsageExact
  <2>. QED  BY <2>1, <2>2
<1>18. /\ count' = TotalOf(Holdings') /\ TotalOf(Holdings') <= MaxTotal
       /\ retained' = TotalOf(Weights') /\ TotalOf(Weights') <= MaxBytesTotal
  BY <1>1, <1>2, <1>14, <1>15, <1>16, RegistryAssumption DEF UsageExact, RegistryAssumption
<1>. QED  BY <1>12, <1>17, <1>18 DEF UsageExact

\* What is clamped at zero never is below it: no runtime, and none of its
\* registrations, holds more than there is.
LEMMA PartOfTotals ==
    ASSUME RegistryInv, Accounts, NEW c \in Connected
    PROVE  /\ Cardinality(registrations[c]) <= TotalOf(Holdings)
           /\ TotalOf(bytes[c]) <= TotalOf(Weights)
<1>1. IsFiniteSet(Connected) /\ Holdings \in [Connected -> Nat] /\ Weights \in [Connected -> Nat]
  BY CountsOf DEF Accounts
<1>2. Holdings[c] <= TotalOf(Holdings) /\ Weights[c] <= TotalOf(Weights)
  BY <1>1, TotalBounds
<1>. QED  BY <1>2 DEF Holdings, Weights

LEMMA UnregisterUsage ==
    ASSUME UsageInv, NEW c \in Connections, NEW d \in Definitions, Unregister(c, d)
    PROVE  Accounts' /\ UsageExact'
<1>1. RegistryInv /\ Accounts /\ UsageExact
  BY DEF UsageInv
<1>2. /\ d \in registrations[c] /\ Connected' = Connected /\ d.bytes \in Nat
      /\ registrations' = [registrations EXCEPT ![c] = registrations[c] \ {d}]
      /\ count' = NotNegative(count - 1) /\ retained' = NotNegative(retained - d.bytes)
  BY <1>1, RegistryAssumption DEF Unregister, Connected, RegistryAssumption, UsageExact
<1>3. /\ c \in Connected /\ registrations'[c] = registrations[c] \ {d}
      /\ \A e \in Connections \ {c} : registrations'[e] = registrations[e]
  BY <1>1, <1>2 DEF RegistryInv, MapsTypes
<1> DEFINE left == [id \in Ids(c) \ {d.id} |-> bytes[c][id]]
<1>4. bytes[c] \in [Ids(c) -> Nat] /\ bytes = [e \in Connections |-> bytes[e]]
  BY <1>1 DEF Accounts
<1>5. bytes' = [bytes EXCEPT ![c] = left]
  BY <1>4 DEF Unregister
<1>6. d.id \in Ids(c) /\ bytes[c][d.id] = d.bytes
  BY <1>1, <1>2 DEF UsageExact, Ids
<1>7. /\ left \in [Ids(c) \ {d.id} -> Nat]
      /\ \A id \in Ids(c) \ {d.id} : left[id] = bytes[c][id]
  BY <1>4
<1>. HIDE DEF left
<1>8. bytes'[c] = left /\ \A e \in Connections \ {c} : bytes'[e] = bytes[e]
  BY <1>4, <1>5
<1>9. /\ IsFiniteSet(registrations'[c])
      /\ Cardinality(registrations'[c]) = Cardinality(registrations[c]) - 1
      /\ Cardinality(registrations'[c]) \in Nat /\ Cardinality(registrations[c]) \in Nat
  <2>1. IsFiniteSet(registrations[c])
    BY <1>1 DEF Accounts
  <2>2. /\ IsFiniteSet(registrations[c] \ {d})
        /\ Cardinality(registrations[c] \ {d}) = Cardinality(registrations[c]) - 1
    BY <1>2, <2>1, FS_RemoveElement
  <2>3. Cardinality(registrations[c]) \in Nat /\ Cardinality(registrations[c] \ {d}) \in Nat
    BY <2>1, <2>2, FS_CardinalityType
  <2>. QED  BY <1>3, <2>2, <2>3
<1>10. /\ TotalOf(bytes[c]) = TotalOf(bytes'[c]) + d.bytes
       /\ TotalOf(bytes'[c]) \in Nat /\ TotalOf(bytes[c]) \in Nat
  <2> DEFINE x == d.id
             S == Ids(c) \ {x}
             g == bytes[c]
  <2>1. IsFiniteSet(Ids(c)) /\ TotalOf(g) \in Nat
    BY <1>1, CountsOf
  <2>2. S \cup {x} = Ids(c) /\ x \notin S /\ IsFiniteSet(S)
    BY <1>6, <2>1, FS_RemoveElement
  <2>3. left \in [S -> Nat] /\ g \in [S \cup {x} -> Nat] /\ \A y \in S : g[y] = left[y]
    BY <1>4, <1>7, <2>2
  <2>4. g[x] = d.bytes
    BY <1>6
  <2>. HIDE DEF x, S, g
  <2>5. TotalOf(g) = TotalOf(left) + g[x] /\ TotalOf(left) \in Nat
    BY <2>2, <2>3, TotalGrows, TotalBounds
  <2>6. TotalOf(g) = TotalOf(bytes[c]) /\ TotalOf(left) = TotalOf(bytes'[c])
    BY <1>8 DEF g
  <2>. QED  BY <2>1, <2>4, <2>5, <2>6
<1>11. Ids(c)' = Ids(c) \ {d.id} /\ \A e \in Connections \ {c} : Ids(e)' = Ids(e)
  <2>1. \A r \in registrations[c] : r # d => r.id # d.id
    BY <1>1, <1>2 DEF RegistryInv, Distinct
  <2>2. {r.id : r \in registrations[c] \ {d}} = {r.id : r \in registrations[c]} \ {d.id}
    BY <2>1
  <2>. QED  BY <1>3, <2>2 DEF Ids
<1>12. Accounts'
  <2>1. bytes' = [e \in Connections |-> bytes'[e]]
    BY <1>4, <1>5
  <2>2. ASSUME NEW e \in Connections PROVE IsFiniteSet(registrations'[e]) /\ bytes'[e] \in [Ids(e)' -> Nat]
    <3>1. CASE e = c
      BY <1>7, <1>8, <1>9, <1>11, <3>1
    <3>2. CASE e # c
      <4>1. IsFiniteSet(registrations[e]) /\ bytes[e] \in [Ids(e) -> Nat]
        BY <1>1 DEF Accounts
      <4>. QED  BY <1>3, <1>8, <1>11, <3>2, <4>1
    <3>. QED  BY <3>1, <3>2
  <2>3. IsFiniteSet(Connected')
    BY <1>1, <1>2 DEF Accounts
  <2>. QED  BY <2>1, <2>2, <2>3 DEF Accounts
<1>13. /\ TotalOf(Holdings') = TotalOf(Holdings) - Cardinality(registrations[c])
                             + Cardinality(registrations'[c])
       /\ TotalOf(Weights') = TotalOf(Weights) - TotalOf(bytes[c]) + TotalOf(bytes'[c])
  BY <1>1, <1>2, <1>3, <1>8, <1>9, <1>10, TotalsOfOne
<1>14. /\ TotalOf(Holdings) \in Nat /\ TotalOf(Weights) \in Nat
       /\ Cardinality(registrations[c]) <= TotalOf(Holdings)
       /\ TotalOf(bytes[c]) <= TotalOf(Weights)
  BY <1>1, <1>3, CountsOf, PartOfTotals
<1>15. /\ TotalOf(Holdings') = TotalOf(Holdings) - 1 /\ TotalOf(Holdings) - 1 >= 0
       /\ TotalOf(Weights') = TotalOf(Weights) - d.bytes /\ TotalOf(Weights) - d.bytes >= 0
  BY <1>2, <1>9, <1>10, <1>13, <1>14
<1>16. ASSUME NEW e \in Connections
       PROVE  /\ Cardinality(registrations'[e]) <= MaxPerRuntime
              /\ TotalOf(bytes'[e]) <= MaxBytesPerRuntime
              /\ \A r \in registrations'[e] : bytes'[e][r.id] = r.bytes
  <2>0. /\ Cardinality(registrations[e]) <= MaxPerRuntime /\ TotalOf(bytes[e]) <= MaxBytesPerRuntime
        /\ \A r \in registrations[e] : bytes[e][r.id] = r.bytes
    BY <1>1 DEF UsageExact
  <2>1. CASE e = c
    <3>1. Cardinality(registrations'[e]) <= MaxPerRuntime
      BY <1>9, <2>0, <2>1, RegistryAssumption DEF RegistryAssumption
    <3>2. TotalOf(bytes'[e]) <= MaxBytesPerRuntime
      BY <1>2, <1>10, <2>0, <2>1, RegistryAssumption DEF RegistryAssumption
    <3>3. ASSUME NEW r \in registrations'[e] PROVE bytes'[e][r.id] = r.bytes
      <4>1. r \in registrations[c] /\ r # d
        BY <1>3, <2>1
      <4>2. r.id # d.id /\ r.id \in Ids(c)
        BY <1>1, <1>2, <4>1 DEF RegistryInv, Distinct, Ids
      <4>. QED  BY <1>7, <1>8, <2>0, <2>1, <4>1, <4>2
    <3>. QED  BY <3>1, <3>2, <3>3
  <2>2. CASE e # c
    BY <1>3, <1>8, <2>0, <2>2
  <2>. QED  BY <2>1, <2>2
<1>17. /\ count' = TotalOf(Holdings') /\ TotalOf(Holdings') <= MaxTotal
       /\ retained' = TotalOf(Weights') /\ TotalOf(Weights') <= MaxBytesTotal
  BY <1>1, <1>2, <1>14, <1>15, RegistryAssumption DEF UsageExact, RegistryAssumption, NotNegative
<1>. QED  BY <1>12, <1>16, <1>17 DEF UsageExact

\* A session that goes takes what it holds with it; one that has gone holds nothing.
LEMMA RemoveUsage ==
    ASSUME UsageInv, NEW c \in Connections, RemoveSession(c)
    PROVE  Accounts' /\ UsageExact'
<1>1. RegistryInv /\ Accounts /\ UsageExact
  BY DEF UsageInv
<1>2. /\ sessions' = [sessions EXCEPT ![c] = NoSession]
      /\ registrations' = [registrations EXCEPT ![c] = {}]
      /\ bytes' = [bytes EXCEPT ![c] = NoBytes]
      /\ count' = NotNegative(count - Cardinality(registrations[c]))
      /\ retained' = NotNegative(retained - TotalOf(bytes[c]))
  BY DEF RemoveSession, Forget
<1>3. bytes = [e \in Connections |-> bytes[e]]
  BY <1>1 DEF Accounts
<1>4. /\ Connected' = Connected \ {c}
      /\ registrations'[c] = {} /\ bytes'[c] = NoBytes
      /\ \A e \in Connections \ {c} : registrations'[e] = registrations[e] /\ bytes'[e] = bytes[e]
  BY <1>1, <1>2, <1>3 DEF RegistryInv, MapsTypes, Connected
<1>5. Ids(c)' = {} /\ \A e \in Connections \ {c} : Ids(e)' = Ids(e)
  BY <1>4 DEF Ids
<1>6. IsFiniteSet(Connected) /\ IsFiniteSet(Connected')
  BY <1>1, <1>4, FS_RemoveElement DEF Accounts
<1>7. Accounts'
  <2>1. bytes' = [e \in Connections |-> bytes'[e]]
    BY <1>2, <1>3
  <2>2. ASSUME NEW e \in Connections PROVE IsFiniteSet(registrations'[e]) /\ bytes'[e] \in [Ids(e)' -> Nat]
    <3>1. CASE e = c
      BY <1>4, <1>5, <3>1, FS_EmptySet DEF NoBytes
    <3>2. CASE e # c
      <4>1. IsFiniteSet(registrations[e]) /\ bytes[e] \in [Ids(e) -> Nat]
        BY <1>1 DEF Accounts
      <4>. QED  BY <1>4, <1>5, <3>2, <4>1
    <3>. QED  BY <3>1, <3>2
  <2>. QED  BY <1>6, <2>1, <2>2 DEF Accounts
<1>8. /\ TotalOf(Holdings) \in Nat /\ TotalOf(Weights) \in Nat
      /\ Holdings \in [Connected -> Nat] /\ Weights \in [Connected -> Nat]
      /\ Cardinality(registrations[c]) \in Nat /\ TotalOf(bytes[c]) \in Nat
  BY <1>1, CountsOf
<1>9. Connected \subseteq Connections
  BY DEF Connected
<1>10. /\ Holdings' = [e \in Connected \ {c} |-> Holdings[e]]
       /\ Weights' = [e \in Connected \ {c} |-> Weights[e]]
  BY <1>4, <1>9 DEF Holdings, Weights
<1>11. /\ TotalOf(Holdings) = TotalOf(Holdings') + Cardinality(registrations[c])
       /\ TotalOf(Weights) = TotalOf(Weights') + TotalOf(bytes[c])
       /\ TotalOf(Holdings') \in Nat /\ TotalOf(Weights') \in Nat
  <2>1. CASE c \in Connected
    <3> DEFINE S == Connected \ {c}
    <3>1. IsFiniteSet(S) /\ c \notin S /\ S \cup {c} = Connected
      BY <1>4, <1>6, <2>1
    <3>2. /\ Holdings' \in [S -> Nat] /\ Weights' \in [S -> Nat]
          /\ \A e \in S : Holdings[e] = Holdings'[e] /\ Weights[e] = Weights'[e]
      BY <1>8, <1>10
    <3>. HIDE DEF S
    <3>3. /\ Holdings \in [S \cup {c} -> Nat] /\ Weights \in [S \cup {c} -> Nat]
      BY <1>8, <3>1
    <3>4. TotalOf(Holdings) = TotalOf(Holdings') + Holdings[c] /\ TotalOf(Holdings') \in Nat
      BY <3>1, <3>2, <3>3, TotalGrows, TotalBounds
    <3>5. TotalOf(Weights) = TotalOf(Weights') + Weights[c] /\ TotalOf(Weights') \in Nat
      BY <3>1, <3>2, <3>3, TotalGrows, TotalBounds
    <3>6. Holdings[c] = Cardinality(registrations[c]) /\ Weights[c] = TotalOf(bytes[c])
      BY <2>1 DEF Holdings, Weights
    <3>. QED  BY <3>4, <3>5, <3>6
  <2>2. CASE c \notin Connected
    <3>1. registrations[c] = {}
      BY <1>1, <2>2 DEF RegistryInv
    <3>2. DOMAIN bytes[c] = {}
      BY <1>1, <3>1 DEF Accounts, Ids
    <3>3. Cardinality(registrations[c]) = 0 /\ TotalOf(bytes[c]) = 0
      BY <3>1, <3>2, TotalEmpty, FS_EmptySet
    <3>4. Holdings' = Holdings /\ Weights' = Weights
      <4>1. Connected \ {c} = Connected
        BY <2>2
      <4>. QED  BY <1>8, <1>10, <4>1
    <3>. QED  BY <1>8, <3>3, <3>4
  <2>. QED  BY <2>1, <2>2
<1>12. /\ count' = TotalOf(Holdings') /\ TotalOf(Holdings') <= MaxTotal
       /\ retained' = TotalOf(Weights') /\ TotalOf(Weights') <= MaxBytesTotal
  BY <1>1, <1>2, <1>8, <1>11, RegistryAssumption DEF UsageExact, RegistryAssumption, NotNegative
<1>13. ASSUME NEW e \in Connections
       PROVE  /\ Cardinality(registrations'[e]) <= MaxPerRuntime
              /\ TotalOf(bytes'[e]) <= MaxBytesPerRuntime
              /\ \A r \in registrations'[e] : bytes'[e][r.id] = r.bytes
  <2>1. CASE e = c
    <3>1. DOMAIN NoBytes = {}
      BY DEF NoBytes
    <3>2. Cardinality(registrations'[e]) = 0 /\ TotalOf(bytes'[e]) = 0
      BY <1>4, <2>1, <3>1, TotalEmpty, FS_EmptySet
    <3>. QED  BY <1>4, <2>1, <3>2, RegistryAssumption DEF RegistryAssumption
  <2>2. CASE e # c
    BY <1>1, <1>4, <2>2 DEF UsageExact
  <2>. QED  BY <2>1, <2>2
<1>. QED  BY <1>7, <1>12, <1>13 DEF UsageExact

LEMMA NextUsage == UsageInv /\ [Next]_vars => UsageInv'
<1>. SUFFICES ASSUME UsageInv, [Next]_vars PROVE UsageInv'
  OBVIOUS
<1>1. RegistryInv'
  BY NextRegistryInv DEF UsageInv
<1>2. CASE UNCHANGED vars
  BY <1>1, <1>2 DEF vars, maps, counters, UsageInv, Accounts, UsageExact, Holdings, Weights, Connected, Ids
<1>3. CASE Next
  <2>1. Accounts' /\ UsageExact'
    BY <1>3, AddUsage, RemoveUsage, RegisterUsage, UnregisterUsage DEF Next
  <2>. QED  BY <1>1, <2>1 DEF UsageInv
<1>. QED  BY <1>2, <1>3

\* The counters of the limits are what the maps hold, and the limits hold of it: for any
\* connections, definitions and limits, in every order of the calls.
THEOREM LimitsCountWhatIsHeld == Spec => []UsageExact
<1>1. Init => UsageInv
  BY InitRegistryInv, InitUsage DEF UsageInv
<1>2. UsageInv => UsageExact
  BY DEF UsageInv
<1>. QED  BY <1>1, <1>2, NextUsage, PTL DEF Spec

-----------------------------------------------------------------------------
(* Announcements. *)

\* The registrations of one connection change, by the definitions in ds.
LEMMA OneChanges ==
    ASSUME MapsTypes, NEW c \in Connections, NEW ds, NEW k,
           \A e \in Connections \ {c} : registrations'[e] = registrations[e],
           \/ ds \cap registrations[c] = {} /\ registrations'[c] = registrations[c] \cup ds
           \/ ds \subseteq registrations[c] /\ registrations'[c] = registrations[c] \ ds
    PROVE  Provided(k)' # Provided(k) <=> \E d \in ds : d.kind = k
<1>1. \A e \in Connections \ {c} :
        {d \in registrations'[e] : d.kind = k} = {d \in registrations[e] : d.kind = k}
  OBVIOUS
<1>2. Provided(k)' = Provided(k)
        <=> {d \in registrations'[c] : d.kind = k} = {d \in registrations[c] : d.kind = k}
  BY <1>1 DEF Provided
<1>. QED  BY <1>2

\* A step that changes what is provided of a kind emits the event of that kind, and of
\* no other: an MCP client that listens misses no change.
THEOREM EveryChangeAnnounced == Spec => ChangesAnnounced
<1> DEFINE Announced == \A k \in DefinedKinds : Provided(k)' # Provided(k) <=> k \in announced'
<1>1. ASSUME RegistryInv, Next PROVE Announced
  <2>. SUFFICES ASSUME NEW k \in DefinedKinds
                PROVE  Provided(k)' # Provided(k) <=> k \in announced'
    OBVIOUS
  <2>0. MapsTypes
    BY <1>1 DEF RegistryInv
  <2>1. ASSUME NEW c \in Connections, NEW who, sessions[c] = NoSession,
               AddSession(c, who), Announces({})
        PROVE  Provided(k)' # Provided(k) <=> k \in announced'
    <3>1. registrations[c] = {} /\ registrations' = [registrations EXCEPT ![c] = {}]
      BY <1>1, <2>1 DEF RegistryInv, Connected, AddSession
    <3>2. registrations' = registrations
      BY <2>0, <3>1 DEF MapsTypes
    <3>. QED  BY <2>1, <3>2 DEF Announces, Provided
  <2>2. ASSUME NEW c \in Connections, RemoveSession(c), Announces(KindsOf(registrations[c]))
        PROVE  Provided(k)' # Provided(k) <=> k \in announced'
    <3>1. registrations' = [registrations EXCEPT ![c] = {}]
      BY <2>2 DEF RemoveSession, Forget
    <3>2. /\ \A e \in Connections \ {c} : registrations'[e] = registrations[e]
          /\ registrations'[c] = registrations[c] \ registrations[c]
      BY <2>0, <3>1 DEF MapsTypes
    <3>3. Provided(k)' # Provided(k) <=> \E d \in registrations[c] : d.kind = k
      BY <2>0, <3>2, OneChanges
    <3>. QED  BY <2>2, <3>3 DEF Announces, KindsOf
  <2>3. ASSUME NEW c \in Connections, NEW d \in Definitions,
               Register(c, d) \/ Unregister(c, d), Announces({d.kind})
        PROVE  Provided(k)' # Provided(k) <=> k \in announced'
    <3>1. \/ /\ registrations' = [registrations EXCEPT ![c] = registrations[c] \cup {d}]
             /\ d \notin registrations[c]
          \/ /\ registrations' = [registrations EXCEPT ![c] = registrations[c] \ {d}]
             /\ d \in registrations[c]
      BY <2>3 DEF Register, Unregister, Unclaimed
    <3>2. /\ \A e \in Connections \ {c} : registrations'[e] = registrations[e]
          /\ \/ {d} \cap registrations[c] = {} /\ registrations'[c] = registrations[c] \cup {d}
             \/ {d} \subseteq registrations[c] /\ registrations'[c] = registrations[c] \ {d}
      BY <2>0, <3>1 DEF MapsTypes
    <3>3. Provided(k)' # Provided(k) <=> \E e \in {d} : e.kind = k
      BY <2>0, <3>2, OneChanges
    <3>. QED  BY <2>3, <3>3 DEF Announces
  <2>. QED  BY <1>1, <2>1, <2>2, <2>3 DEF Next
<1>2. RegistryInv /\ [Next]_vars => [Announced]_vars
  BY <1>1
<1>3. Spec => [][Announced]_vars
  <2>. HIDE DEF Announced
  <2>. QED  BY <1>2, RegistryInvariance, PTL DEF Spec
<1>. QED  BY <1>3, PTL DEF ChangesAnnounced

-----------------------------------------------------------------------------
(* Supervisor.                                                                *)

ChildStates == {"none", "starting", "ready", "closing", "dead"}
States == {"stopped", "starting", "running", "stopping", "failed"}
Service ==
    [state : States, generation : Nat, process : 0..MaxGenerations, restart : BOOLEAN,
     polling : BOOLEAN, deadline : Nat, endpoints : Nat, pairings : SUBSET Nat,
     metrics : Nat, open : BOOLEAN]
Report == [of : {"ready", "exit"}, gen : Generations]

SupervisorTypeOK ==
    /\ svc \in Service
    /\ resolving \subseteq Generations
    /\ child \in [Generations -> ChildStates]
    /\ status \in [Generations -> BOOLEAN]
    /\ mail \subseteq Report
    /\ kills \subseteq Nat
    /\ asked \in [Requests -> Nat]

\* A launch that is still prepared has no process yet and, while it is the current
\* one, the service names none; a launch to come has no process; and a process that
\* is reported to have ended has ended.
LaunchInv ==
    /\ \A g \in resolving :
        /\ g <= svc.generation
        /\ child[g] = "none"
        /\ g = svc.generation => svc.process = NoLaunch
    /\ \A g \in Generations : g > svc.generation => child[g] = "none"
    /\ \A m \in mail : m.of = "exit" => child[m.gen] = "dead"

IInv == SupervisorTypeOK /\ LaunchInv /\ OneReachableBridge /\ CredentialsAreCurrent

-----------------------------------------------------------------------------
(* Updates of the service record. *)

\* Changes of a field that no conjunct of the invariant relates to another.
LEMMA NoneNat == NoLaunch \in Nat
  BY DEF NoLaunch

LEMMA RestartFacts ==
    ASSUME NEW s \in Service, NEW x \in BOOLEAN
    PROVE  /\ [s EXCEPT !.restart = x] \in Service
           /\ [s EXCEPT !.restart = x].process = s.process
           /\ [s EXCEPT !.restart = x].generation = s.generation
           /\ [s EXCEPT !.restart = x].open = s.open
           /\ [s EXCEPT !.restart = x].endpoints = s.endpoints
           /\ [s EXCEPT !.restart = x].pairings = s.pairings
  BY Zenon DEF Service

LEMMA DeadlineFacts ==
    ASSUME NEW s \in Service, NEW x \in Nat
    PROVE  /\ [s EXCEPT !.deadline = x] \in Service
           /\ [s EXCEPT !.deadline = x].process = s.process
           /\ [s EXCEPT !.deadline = x].generation = s.generation
           /\ [s EXCEPT !.deadline = x].open = s.open
           /\ [s EXCEPT !.deadline = x].endpoints = s.endpoints
           /\ [s EXCEPT !.deadline = x].pairings = s.pairings
  BY Zenon DEF Service

LEMMA StateFacts ==
    ASSUME NEW s \in Service, NEW x \in States
    PROVE  /\ [s EXCEPT !.state = x] \in Service
           /\ [s EXCEPT !.state = x].process = s.process
           /\ [s EXCEPT !.state = x].generation = s.generation
           /\ [s EXCEPT !.state = x].open = s.open
           /\ [s EXCEPT !.state = x].endpoints = s.endpoints
           /\ [s EXCEPT !.state = x].pairings = s.pairings
  BY Zenon DEF Service

LEMMA PollingFacts ==
    ASSUME NEW s \in Service
    PROVE  /\ StopPolling(s) \in Service
           /\ StopPolling(s).process = s.process
           /\ StopPolling(s).generation = s.generation
           /\ StopPolling(s).open = s.open
           /\ StopPolling(s).endpoints = s.endpoints
           /\ StopPolling(s).pairings = s.pairings
  BY Zenon DEF Service, StopPolling

LEMMA FailFacts ==
    ASSUME NEW s \in Service
    PROVE  /\ FailWith(s) \in Service
           /\ FailWith(s).process = s.process
           /\ FailWith(s).generation = s.generation
           /\ FailWith(s).open = s.open
           /\ FailWith(s).endpoints = s.endpoints
           /\ FailWith(s).pairings = s.pairings
<1>. "failed" \in States /\ NoLaunch \in Nat
  BY DEF States, NoLaunch
<1>. QED  BY Zenon DEF Service, FailWith

LEMMA ClearSensitiveFacts ==
    ASSUME NEW s \in Service
    PROVE  /\ ClearSensitive(s) \in Service
           /\ ClearSensitive(s).process = s.process
           /\ ClearSensitive(s).generation = s.generation
           /\ ClearSensitive(s).open = s.open
           /\ ClearSensitive(s).endpoints = NoLaunch
           /\ ClearSensitive(s).pairings = {}
<1>. NoLaunch \in Nat
  BY DEF NoLaunch
<1>. QED  BY Zenon DEF Service, ClearSensitive

LEMMA ClearRuntimeFacts ==
    ASSUME SupervisorAssumption, NEW s \in Service
    PROVE  /\ ClearRuntime(s) \in Service
           /\ ClearRuntime(s).process = NoLaunch
           /\ ClearRuntime(s).generation = s.generation
           /\ ClearRuntime(s).open = s.open
           /\ ClearRuntime(s).endpoints = NoLaunch
           /\ ClearRuntime(s).pairings = {}
<1>1. NoLaunch \in Nat /\ NoLaunch \in 0..MaxGenerations
  BY DEF NoLaunch, SupervisorAssumption
<1>2. PICK t \in Service : /\ t = ClearSensitive(s)
                           /\ t.generation = s.generation /\ t.open = s.open
                           /\ t.endpoints = NoLaunch /\ t.pairings = {}
  BY ClearSensitiveFacts
<1>3. ClearRuntime(s) = [t EXCEPT !.deadline = NoLaunch, !.process = NoLaunch]
  BY <1>2 DEF ClearRuntime
<1>. QED  BY <1>1, <1>2, <1>3, Zenon DEF Service

\* start launches the next generation of a service that names no process, and then
\* displays nothing; otherwise it changes nothing that the invariant reads.
LEMMA StartedFacts ==
    ASSUME NEW s \in Service, NEW fit \in BOOLEAN, NEW after, after = Started(s, fit)
    PROVE  /\ after \in Service
           /\ after.process = s.process
           /\ after.open = s.open
           /\ \/ /\ after.generation = s.generation
                 /\ after.endpoints = s.endpoints /\ after.pairings = s.pairings
              \/ /\ s.process = NoLaunch
                 /\ after.generation = s.generation + 1
                 /\ after.endpoints = NoLaunch /\ after.pairings = {}
<1>1. CASE ~CanStart(s)
  BY <1>1 DEF Started
<1>2. CASE CanStart(s) /\ ~fit
  <2>1. after = FailWith(s)
    BY <1>2 DEF Started
  <2>. QED  BY <2>1, FailFacts
<1>3. CASE CanStart(s) /\ fit
  <2>1. after = [s EXCEPT !.state = "starting", !.endpoints = NoLaunch, !.pairings = {},
                          !.metrics = NoLaunch, !.generation = @ + 1]
    BY <1>3 DEF Started
  <2>2. s.generation \in Nat /\ s.generation + 1 \in Nat /\ NoLaunch \in Nat
    BY DEF Service, NoLaunch
  <2>3. "starting" \in States
    BY DEF States
  <2>4. /\ after \in Service
        /\ after.process = s.process /\ after.open = s.open
        /\ after.generation = s.generation + 1
        /\ after.endpoints = NoLaunch /\ after.pairings = {}
    BY <2>1, <2>2, <2>3, Zenon DEF Service
  <2>5. s.process = NoLaunch
    BY <1>3 DEF CanStart
  <2>. QED  BY <2>4, <2>5
<1>. QED  BY <1>1, <1>2, <1>3

LEMMA FitBoolean == Fit \subseteq BOOLEAN
  BY DEF Fit, Launchable, Settings

\* The launches being prepared after start: the fresh one may have joined them.
LEMMA ResolvingFacts ==
    ASSUME NEW s \in Service, NEW after \in Service, resolving' = Resolving(s, after)
    PROVE  \A g \in resolving' :
              g \in resolving \/ (g = after.generation /\ g > s.generation)
  BY DEF Resolving

\* A report of the end is made of processes that have ended.
LEMMA ExitsFacts ==
    ASSUME NEW c, NEW m \in Exits(c)
    PROVE  m \in Report /\ m.of = "exit" /\ c[m.gen] = "dead"
  BY DEF Exits, Report

\* A signal reaches the named process only, and never revives it.
LEMMA TerminatedFacts ==
    ASSUME SupervisorTypeOK, NEW g \in Generations, child' = Terminated(g)
    PROVE  /\ child' \in [Generations -> ChildStates]
           /\ \A h \in Generations : h # g => child'[h] = child[h]
           /\ child'[g] \in {"closing", "dead"}
  BY DEF Terminated, SupervisorTypeOK, ChildStates

LEMMA UnpolledType ==
    ASSUME SupervisorTypeOK PROVE Unpolled \in [Requests -> Nat]
  BY DEF SupervisorTypeOK, Unpolled, Requests, NoLaunch

\* While nothing that the service names is alive, nothing is.
LEMMA NothingAlive ==
    ASSUME SupervisorAssumption, OneReachableBridge, ~IsRunning(svc), NEW g \in Generations
    PROVE  ~Alive(g)
  BY DEF OneReachableBridge, IsRunning, NoLaunch, Generations, SupervisorAssumption

-----------------------------------------------------------------------------
(* Two kinds of steps. *)

\* A step of a service whose processes have all ended: it may forget them and go on
\* to another generation.
LEMMA QuietStep ==
    ASSUME SupervisorAssumption, IInv,
           \A g \in Generations : ~Alive(g),
           svc' \in Service, svc'.process = NoLaunch,
           svc'.generation >= svc.generation,
           svc'.endpoints \in {NoLaunch, svc'.generation},
           svc'.pairings \subseteq {svc'.endpoints},
           \A g \in resolving' : \/ g \in resolving
                                 \/ g \in Generations /\ g = svc'.generation
                                      /\ g > svc.generation,
           mail' \subseteq mail, kills' \subseteq Nat, asked' \in [Requests -> Nat],
           UNCHANGED <<child, status>>
    PROVE  IInv'
<1>. USE DEF IInv
<1>1. svc.generation \in Nat /\ svc'.generation \in Nat
  BY DEF SupervisorTypeOK, Service
<1>2. SupervisorTypeOK'
  BY DEF SupervisorTypeOK, Report, Generations
<1>3. LaunchInv'
  <2>1. ASSUME NEW g \in resolving'
        PROVE  g <= svc'.generation /\ child'[g] = "none"
    <3>1. g \in Nat
      BY <1>2, <2>1, SupervisorAssumption DEF SupervisorTypeOK, Generations
    <3>2. CASE g \in resolving
      BY <1>1, <3>1, <3>2 DEF LaunchInv
    <3>3. CASE g = svc'.generation /\ g > svc.generation
      BY <1>1, <3>1, <3>3 DEF LaunchInv
    <3>. QED  BY <2>1, <3>2, <3>3
  <2>2. \A g \in Generations : g > svc'.generation => child'[g] = "none"
    <3>. SUFFICES ASSUME NEW g \in Generations, g > svc'.generation PROVE child[g] = "none"
      OBVIOUS
    <3>1. g \in Nat
      BY SupervisorAssumption DEF Generations
    <3>. QED  BY <1>1, <3>1 DEF LaunchInv
  <2>3. \A m \in mail' : m.of = "exit" => child'[m.gen] = "dead"
    BY DEF LaunchInv
  <2>. QED  BY <2>1, <2>2, <2>3 DEF LaunchInv
<1>4. OneReachableBridge'
  BY DEF OneReachableBridge, Alive
<1>5. CredentialsAreCurrent'
  BY DEF CredentialsAreCurrent
<1>. QED  BY <1>2, <1>3, <1>4, <1>5

\* A step that keeps the launch and its process: processes only go on to another
\* state of their lives, and only those that have ended are reported.
LEMMA SteadyStep ==
    ASSUME SupervisorAssumption, IInv,
           svc' \in Service, svc'.process = svc.process,
           svc'.generation = svc.generation, svc'.open = svc.open,
           svc'.endpoints \in {NoLaunch, svc'.generation},
           svc'.pairings \subseteq {svc'.endpoints},
           resolving' \subseteq resolving,
           child' \in [Generations -> ChildStates],
           \A g \in Generations :
               child'[g] = child[g] \/ (Alive(g) /\ child'[g] \in {"ready", "closing", "dead"}),
           \A m \in mail' :
               m \in mail \/ (m \in Report /\ (m.of = "exit" => child'[m.gen] = "dead")),
           status' \in [Generations -> BOOLEAN],
           kills' \subseteq Nat, asked' \in [Requests -> Nat]
    PROVE  IInv'
<1>. USE DEF IInv
<1>1. SupervisorTypeOK'
  BY DEF SupervisorTypeOK, ChildStates
<1>2. LaunchInv'
  <2>1. \A g \in Generations : child[g] \in {"none", "dead"} => child'[g] = child[g]
    BY DEF Alive
  <2>2. \A g \in resolving' : /\ g <= svc'.generation
                              /\ child'[g] = "none"
                              /\ g = svc'.generation => svc'.process = NoLaunch
    BY <2>1 DEF LaunchInv, SupervisorTypeOK
  <2>3. \A g \in Generations : g > svc'.generation => child'[g] = "none"
    BY <2>1 DEF LaunchInv
  <2>4. ASSUME NEW m \in mail', m.of = "exit" PROVE child'[m.gen] = "dead"
    <3>1. m \in Report
      BY DEF SupervisorTypeOK
    <3>2. m.gen \in Generations
      BY <3>1 DEF Report
    <3>. QED  BY <2>1, <2>4, <3>2 DEF LaunchInv
  <2>. QED  BY <2>2, <2>3, <2>4 DEF LaunchInv
<1>3. OneReachableBridge'
  <2>. SUFFICES ASSUME NEW g \in Generations, Alive(g)'
                PROVE  svc'.open /\ svc'.process = g /\ svc'.generation = g
    BY DEF OneReachableBridge
  <2>1. Alive(g)
    BY DEF Alive
  <2>. QED  BY <2>1 DEF OneReachableBridge
<1>4. CredentialsAreCurrent'
  BY DEF CredentialsAreCurrent
<1>. QED  BY <1>1, <1>2, <1>3, <1>4

-----------------------------------------------------------------------------
(* The operator. *)

LEMMA StartStep ==
    ASSUME SupervisorAssumption, IInv, Start
    PROVE  IInv'
<1>. USE DEF IInv
<1>1. PICK fit \in BOOLEAN : svc' = Started(svc, fit)
  BY FitBoolean DEF Start
<1>2. svc \in Service /\ svc.process = NoLaunch
  BY DEF Start, CanStart, SupervisorTypeOK
<1>3. \A g \in Generations : ~Alive(g)
  BY <1>2, NothingAlive DEF IsRunning
<1>4. /\ svc' \in Service /\ svc'.process = NoLaunch /\ svc'.generation >= svc.generation
      /\ svc'.endpoints \in {NoLaunch, svc'.generation}
      /\ svc'.pairings \subseteq {svc'.endpoints}
  BY <1>1, <1>2, StartedFacts DEF CredentialsAreCurrent, Service
<1>5. \A g \in resolving' : \/ g \in resolving
                            \/ g \in Generations /\ g = svc'.generation
                                 /\ g > svc.generation
  <2>1. \A g \in resolving' : g \in resolving \/ (g = svc'.generation /\ g > svc.generation)
    BY <1>2, <1>4, ResolvingFacts DEF Start
  <2>2. svc'.generation > svc.generation => svc'.generation \in Generations
    BY <1>2, <1>4, SupervisorAssumption DEF Start, InBound, Generations, Service
  <2>. QED  BY <2>1, <2>2
<1>. QED
  BY <1>3, <1>4, <1>5, QuietStep DEF Start, Pristine, SupervisorTypeOK

\* Stopping a service whose process has ended or never ran; a restart asks for the
\* next launch in the same step.
LEMMA StopQuietStep ==
    ASSUME SupervisorAssumption, IInv,
           NEW s \in Service,
           s.process = svc.process, s.generation = svc.generation, s.open = svc.open,
           ~IsRunning(s), StopProcess(s)
    PROVE  IInv'
<1>. USE DEF IInv
<1> DEFINE quiet == [StopPolling(s) EXCEPT !.deadline = NoLaunch]
           stopped == [ClearRuntime(quiet) EXCEPT !.generation = @ + 1, !.restart = FALSE,
                                                  !.state = "stopped"]
<1>1. /\ quiet \in Service /\ quiet.generation = s.generation
  BY PollingFacts, DeadlineFacts, NoneNat
<1>2. /\ stopped \in Service /\ stopped.process = NoLaunch
      /\ stopped.generation = svc.generation + 1
      /\ stopped.endpoints = NoLaunch /\ stopped.pairings = {}
  <2>1. PICK t \in Service : /\ t = ClearRuntime(quiet) /\ t.process = NoLaunch
                             /\ t.generation = svc.generation
                             /\ t.endpoints = NoLaunch /\ t.pairings = {}
    BY <1>1, ClearRuntimeFacts
  <2>2. stopped = [t EXCEPT !.generation = @ + 1, !.restart = FALSE, !.state = "stopped"]
    BY <2>1
  <2>3. t.generation + 1 \in Nat /\ "stopped" \in States
    BY DEF Service, States
  <2>. QED  BY <2>1, <2>2, <2>3, Zenon DEF Service
<1>3. svc.generation \in Nat
  BY DEF SupervisorTypeOK, Service
<1>. HIDE DEF stopped, quiet
<1>4. ~IsRunning(svc)
  BY DEF IsRunning
<1>5. \A g \in Generations : ~Alive(g)
  BY <1>4, NothingAlive
<1>6. /\ asked' = Unpolled /\ UNCHANGED <<status, child, mail, kills>> /\ InBound
      /\ \/ svc' = stopped /\ UNCHANGED resolving
         \/ /\ \E fit \in Fit : svc' = Started(stopped, fit)
            /\ resolving' = Resolving(stopped, svc')
  BY DEF StopProcess, stopped, quiet
<1>7. asked' \in [Requests -> Nat]
  BY <1>6, UnpolledType
<1>8. CASE svc' = stopped /\ UNCHANGED resolving
  BY <1>2, <1>3, <1>5, <1>6, <1>7, <1>8, QuietStep DEF SupervisorTypeOK
<1>9. CASE /\ \E fit \in Fit : svc' = Started(stopped, fit)
           /\ resolving' = Resolving(stopped, svc')
  <2>1. PICK fit \in BOOLEAN : svc' = Started(stopped, fit)
    BY <1>9, FitBoolean
  <2>2. /\ svc' \in Service /\ svc'.process = NoLaunch /\ svc'.generation > svc.generation
        /\ svc'.endpoints = NoLaunch /\ svc'.pairings = {}
    BY <1>2, <1>3, <2>1, StartedFacts
  <2>3. \A g \in resolving' : g \in resolving \/ (g = svc'.generation /\ g > stopped.generation)
    BY <1>2, <1>9, <2>2, ResolvingFacts
  <2>4. svc'.generation \in Generations
    BY <1>3, <1>6, <2>2, SupervisorAssumption DEF InBound, Generations, Service
  <2>5. \A g \in resolving' : \/ g \in resolving
                              \/ g \in Generations /\ g = svc'.generation
                                   /\ g > svc.generation
    BY <2>2, <2>3, <2>4
  <2>6. svc'.generation >= svc.generation
    BY <1>3, <2>2, <2>4, SupervisorAssumption DEF Generations
  <2>. QED
    BY <1>5, <1>6, <1>7, <2>2, <2>5, <2>6, QuietStep DEF SupervisorTypeOK
<1>. QED  BY <1>6, <1>8, <1>9

\* Stopping a running process signals it and arms the escalation.
LEMMA StopRunningStep ==
    ASSUME SupervisorAssumption, IInv,
           NEW s \in Service,
           s.process = svc.process, s.generation = svc.generation, s.open = svc.open,
           IsRunning(s), StopProcess(s)
    PROVE  IInv'
<1>. USE DEF IInv
<1> DEFINE quiet == [StopPolling(s) EXCEPT !.deadline = NoLaunch]
           stopping == [quiet EXCEPT !.state = "stopping"]
<1>1. /\ quiet \in Service /\ quiet.generation = s.generation
      /\ quiet.process = s.process /\ quiet.open = s.open
  BY PollingFacts, DeadlineFacts, NoneNat
<1>2. /\ stopping \in Service /\ stopping.generation = s.generation
      /\ stopping.process = s.process /\ stopping.open = s.open
  <2>. HIDE DEF quiet
  <2>1. "stopping" \in States
    BY DEF States
  <2>. QED  BY <1>1, <2>1, StateFacts
<1>. HIDE DEF quiet
<1>3. /\ svc' = ClearSensitive(stopping)
      /\ child' = Terminated(s.process) /\ mail' = mail \cup Exits(child')
      /\ kills' = kills \cup {s.generation}
      /\ UNCHANGED <<resolving, status>> /\ asked' = Unpolled
  BY DEF StopProcess, quiet
<1>. HIDE DEF stopping
<1>4. /\ svc' \in Service /\ svc'.process = svc.process
      /\ svc'.generation = svc.generation /\ svc'.open = svc.open
      /\ svc'.endpoints = NoLaunch /\ svc'.pairings = {}
  BY <1>2, <1>3, ClearSensitiveFacts
<1>5. svc.process \in Generations /\ Alive(svc.process)
  BY SupervisorAssumption DEF IsRunning, SupervisorTypeOK, Service, Generations, NoLaunch
<1>6. /\ child' \in [Generations -> ChildStates]
      /\ \A g \in Generations :
            child'[g] = child[g] \/ (Alive(g) /\ child'[g] \in {"ready", "closing", "dead"})
  BY <1>3, <1>5, TerminatedFacts
<1>7. \A m \in mail' :
        m \in mail \/ (m \in Report /\ (m.of = "exit" => child'[m.gen] = "dead"))
  BY <1>3, ExitsFacts
<1>8. kills' \subseteq Nat /\ asked' \in [Requests -> Nat]
  BY <1>3, UnpolledType DEF SupervisorTypeOK, Service
<1>. QED  BY <1>3, <1>4, <1>6, <1>7, <1>8, SteadyStep DEF SupervisorTypeOK

LEMMA StopRestartStep ==
    ASSUME SupervisorAssumption, IInv, Stop \/ Restart
    PROVE  IInv' \/ UNCHANGED serviceVars
<1>1. svc \in Service
  BY DEF IInv, SupervisorTypeOK
<1>2. CASE UNCHANGED serviceVars
  BY <1>2
<1>3. CASE \E b \in BOOLEAN : StopProcess([svc EXCEPT !.restart = b])
  <2>1. PICK b \in BOOLEAN : StopProcess([svc EXCEPT !.restart = b])
    BY <1>3
  <2>2. PICK s \in Service : /\ s = [svc EXCEPT !.restart = b]
                             /\ s.process = svc.process
                             /\ s.generation = svc.generation /\ s.open = svc.open
    BY <1>1, RestartFacts
  <2>3. StopProcess(s)
    BY <2>1, <2>2
  <2>. QED  BY <2>2, <2>3, StopQuietStep, StopRunningStep
<1>. QED  BY <1>2, <1>3 DEF Stop, Restart

\* Quitting leaves no process, and nothing that could start one.
LEMMA QuitStep ==
    ASSUME SupervisorAssumption, IInv, Quit
    PROVE  IInv'
<1>. USE DEF IInv
<1> DEFINE cleared == ClearRuntime(svc)
           quiet == StopPolling(cleared)
<1>1. svc \in Service /\ svc.generation \in Nat
  BY DEF SupervisorTypeOK, Service
<1>2. /\ quiet \in Service /\ quiet.generation = svc.generation /\ quiet.process = NoLaunch
      /\ quiet.endpoints = NoLaunch /\ quiet.pairings = {}
  <2>1. /\ cleared \in Service /\ cleared.generation = svc.generation
        /\ cleared.process = NoLaunch /\ cleared.endpoints = NoLaunch /\ cleared.pairings = {}
    BY <1>1, ClearRuntimeFacts
  <2>. HIDE DEF cleared
  <2>. QED  BY <2>1, PollingFacts
<1>3. PICK n \in Nat, st \in States :
        /\ svc' = [quiet EXCEPT !.restart = FALSE, !.open = FALSE, !.generation = n,
                                !.state = st]
        /\ n >= svc.generation
  <2>1. CASE IsRunning(svc)
    <3>1. svc' = [quiet EXCEPT !.restart = FALSE, !.open = FALSE,
                               !.generation = svc.generation, !.state = quiet.state]
      BY <1>2, <2>1 DEF Quit
    <3>2. quiet.state \in States
      BY <1>2 DEF Service
    <3>3. svc.generation >= svc.generation
      BY <1>1
    <3>. HIDE DEF quiet
    <3>. QED  BY <1>1, <3>1, <3>2, <3>3, Zenon
  <2>2. CASE ~IsRunning(svc)
    <3>1. svc' = [quiet EXCEPT !.restart = FALSE, !.open = FALSE,
                               !.generation = svc.generation + 1, !.state = "stopped"]
      BY <1>2, <2>2 DEF Quit
    <3>2. "stopped" \in States
      BY DEF States
    <3>3. svc.generation + 1 \in Nat /\ svc.generation + 1 >= svc.generation
      BY <1>1
    <3>. HIDE DEF quiet
    <3>. QED  BY <3>1, <3>2, <3>3, Zenon
  <2>. QED  BY <2>1, <2>2
<1>4. /\ svc' \in Service /\ svc'.process = NoLaunch /\ svc'.generation = n
      /\ svc'.endpoints = NoLaunch /\ svc'.pairings = {}
  <2>. HIDE DEF quiet
  <2>. QED  BY <1>2, <1>3, Zenon DEF Service
<1>5. /\ child' \in [Generations -> ChildStates]
      /\ \A g \in Generations : ~Alive(g)'
      /\ \A g \in Generations : child[g] = "none" => child'[g] = "none"
  <2>1. CASE ~IsRunning(svc)
    BY <2>1, NothingAlive DEF Quit, Alive, SupervisorTypeOK
  <2>2. CASE IsRunning(svc)
    <3>1. svc.process \in Generations /\ Alive(svc.process)
      BY <1>1, <2>2, SupervisorAssumption DEF IsRunning, Service, Generations, NoLaunch
    <3>2. child' = [child EXCEPT ![svc.process] = "dead"]
      BY <2>2 DEF Quit
    <3>3. \A g \in Generations : g # svc.process => ~Alive(g)
      BY DEF OneReachableBridge
    <3>. QED  BY <3>1, <3>2, <3>3 DEF Alive, SupervisorTypeOK, ChildStates
  <2>. QED  BY <2>1, <2>2
<1>6. resolving' = {} /\ mail' = {} /\ kills' = {} /\ status' = status
      /\ asked' = [r \in Requests |-> NoLaunch]
  BY DEF Quit
<1>7. SupervisorTypeOK'
  BY <1>4, <1>5, <1>6, NoneNat DEF SupervisorTypeOK
<1>8. LaunchInv'
  <2>. SUFFICES ASSUME NEW g \in Generations, g > n PROVE child[g] = "none"
    BY <1>4, <1>5, <1>6 DEF LaunchInv
  <2>1. g \in Nat
    BY SupervisorAssumption DEF Generations
  <2>. QED  BY <1>1, <1>3, <2>1 DEF LaunchInv
<1>9. OneReachableBridge'
  BY <1>5 DEF OneReachableBridge
<1>10. CredentialsAreCurrent'
  BY <1>4 DEF CredentialsAreCurrent
<1>. QED  BY <1>7, <1>8, <1>9, <1>10

-----------------------------------------------------------------------------
(* Tasks and timers of the main actor. *)

\* The new process is the first of its launch, of the current generation, and the
\* only one there is.
LEMMA LaunchStep ==
    ASSUME SupervisorAssumption, IInv, svc.open,
           NEW g \in Generations, NEW found, NEW runs, Launch(g, found, runs)
    PROVE  IInv'
<1>. USE DEF IInv
<1>1. /\ g \in resolving /\ resolving' = resolving \ {g}
      /\ UNCHANGED <<status, mail, kills, asked>>
      /\ svc \in Service /\ svc.generation \in Nat
  BY DEF Launch, SupervisorTypeOK, Service
<1>2. CASE svc' \in {svc, FailWith(svc)} /\ child' = child
  <2>1. /\ svc' \in Service /\ svc'.process = svc.process
        /\ svc'.generation = svc.generation /\ svc'.open = svc.open
        /\ svc'.endpoints = svc.endpoints /\ svc'.pairings = svc.pairings
    BY <1>1, <1>2, FailFacts
  <2>. QED
    BY <1>1, <1>2, <2>1, SteadyStep DEF CredentialsAreCurrent, SupervisorTypeOK
<1>3. CASE /\ svc.generation = g
           /\ svc' = [svc EXCEPT !.process = g, !.deadline = g]
           /\ child' = [child EXCEPT ![g] = "starting"]
  <2>1. child[g] = "none" /\ svc.process = NoLaunch
    BY <1>1, <1>3 DEF LaunchInv
  <2>2. g \in 0..MaxGenerations /\ g \in Nat
    BY SupervisorAssumption DEF Generations
  <2>3. /\ svc' \in Service /\ svc'.process = g /\ svc'.open = svc.open
        /\ svc'.generation = svc.generation
        /\ svc'.endpoints = svc.endpoints /\ svc'.pairings = svc.pairings
    BY <1>1, <1>3, <2>2, Zenon DEF Service
  <2>4. \A h \in Generations : ~Alive(h)
    BY <2>1, NothingAlive DEF IsRunning
  <2>5. /\ child' \in [Generations -> ChildStates] /\ child'[g] = "starting"
        /\ \A h \in Generations : h # g => child'[h] = child[h]
    BY <1>3 DEF SupervisorTypeOK, ChildStates
  <2>6. SupervisorTypeOK'
    BY <1>1, <2>3, <2>5 DEF SupervisorTypeOK
  <2>7. LaunchInv'
    <3>1. \A h \in resolving' : /\ h <= svc'.generation /\ child'[h] = "none"
                                /\ h # svc'.generation
      BY <1>1, <1>3, <2>3, <2>5 DEF LaunchInv, SupervisorTypeOK
    <3>2. \A h \in Generations : h > svc'.generation => child'[h] = "none"
      BY <1>1, <1>3, <2>3, <2>5 DEF LaunchInv
    <3>3. ASSUME NEW m \in mail', m.of = "exit" PROVE child'[m.gen] = "dead"
      <4>1. m.gen \in Generations /\ child[m.gen] = "dead"
        BY <1>1, <3>3 DEF LaunchInv, SupervisorTypeOK, Report
      <4>. QED  BY <2>1, <2>5, <4>1
    <3>. QED  BY <3>1, <3>2, <3>3 DEF LaunchInv
  <2>8. OneReachableBridge'
    BY <1>3, <2>3, <2>4, <2>5 DEF OneReachableBridge, Alive
  <2>9. CredentialsAreCurrent'
    BY <2>3 DEF CredentialsAreCurrent
  <2>. QED  BY <2>6, <2>7, <2>8, <2>9
<1>. QED  BY <1>2, <1>3 DEF Launch

LEMMA ReadyLineStep ==
    ASSUME SupervisorAssumption, IInv, NEW g \in Generations, ReadyLine(g)
    PROVE  IInv'
<1>. USE DEF IInv
<1>1. svc \in Service /\ mail' \subseteq mail /\ UNCHANGED <<resolving, child, status, kills>>
  BY DEF ReadyLine, SupervisorTypeOK
<1>2. CASE UNCHANGED <<svc, asked>>
  BY <1>1, <1>2, SteadyStep DEF CredentialsAreCurrent, SupervisorTypeOK
<1>3. CASE /\ svc.generation = g /\ asked' = Unpolled
           /\ svc' = [svc EXCEPT !.deadline = NoLaunch, !.endpoints = g, !.pairings = {g},
                                 !.state = "running", !.polling = TRUE]
  <2>1. g \in Nat /\ NoLaunch \in Nat /\ "running" \in States /\ {g} \in SUBSET Nat
    BY SupervisorAssumption DEF Generations, NoLaunch, States
  <2>2. /\ svc' \in Service /\ svc'.process = svc.process /\ svc'.open = svc.open
        /\ svc'.generation = svc.generation
        /\ svc'.endpoints = g /\ svc'.pairings = {g}
    BY <1>1, <1>3, <2>1, Zenon DEF Service
  <2>. QED
    BY <1>1, <1>3, <2>2, UnpolledType, SteadyStep DEF SupervisorTypeOK
<1>. QED  BY <1>1, <1>2, <1>3 DEF ReadyLine, Current

\* The report of the current launch's end clears the service only because that
\* process, the only one that could be alive, has ended.
LEMMA ProcessTerminatedStep ==
    ASSUME SupervisorAssumption, IInv, NEW g \in Generations, ProcessTerminated(g)
    PROVE  IInv'
<1>. USE DEF IInv
<1> DEFINE polled == StopPolling(svc)
           unnamed == ClearRuntime(polled)
           cleared == [unnamed EXCEPT !.restart = FALSE]
<1>1. /\ svc \in Service /\ svc.generation \in Nat
      /\ [of |-> "exit", gen |-> g] \in mail /\ mail' \subseteq mail
      /\ UNCHANGED <<child, status, kills>>
  BY DEF ProcessTerminated, SupervisorTypeOK, Service
<1>2. CASE UNCHANGED <<svc, resolving, asked>>
  BY <1>1, <1>2, SteadyStep DEF CredentialsAreCurrent, SupervisorTypeOK
<1>3. CASE svc.generation = g
  <2>1. \A h \in Generations : ~Alive(h)
    <3>1. child[g] = "dead"
      BY <1>1 DEF LaunchInv
    <3>. QED  BY <1>3, <3>1 DEF OneReachableBridge, Alive
  <2>2. /\ cleared \in Service /\ cleared.process = NoLaunch
        /\ cleared.generation = svc.generation
        /\ cleared.endpoints = NoLaunch /\ cleared.pairings = {}
    <3>1. polled \in Service /\ polled.generation = svc.generation
      BY <1>1, PollingFacts
    <3>. HIDE DEF polled
    <3>2. /\ unnamed \in Service /\ unnamed.process = NoLaunch
          /\ unnamed.generation = svc.generation
          /\ unnamed.endpoints = NoLaunch /\ unnamed.pairings = {}
      BY <3>1, ClearRuntimeFacts
    <3>. HIDE DEF unnamed
    <3>. QED  BY <3>2, RestartFacts
  <2>. HIDE DEF cleared
  <2>3. /\ asked' = Unpolled
        /\ \/ /\ \E fit \in Fit : svc' = Started(cleared, fit)
              /\ InBound
              /\ resolving' = Resolving(cleared, svc')
           \/ /\ \E st \in States : svc' = [cleared EXCEPT !.state = st]
              /\ UNCHANGED resolving
           \/ svc' = cleared /\ UNCHANGED resolving
    BY <1>3 DEF ProcessTerminated, Current, cleared, States
  <2>4. asked' \in [Requests -> Nat]
    BY <2>3, UnpolledType
  <2>5. CASE UNCHANGED resolving /\ (svc' = cleared \/ \E st \in States : svc' = [cleared EXCEPT !.state = st])
    <3>1. /\ svc' \in Service /\ svc'.process = NoLaunch
          /\ svc'.generation = svc.generation
          /\ svc'.endpoints = NoLaunch /\ svc'.pairings = {}
      BY <2>2, <2>5, StateFacts
    <3>. QED
      BY <1>1, <2>1, <2>4, <2>5, <3>1, QuietStep DEF SupervisorTypeOK
  <2>6. CASE /\ \E fit \in Fit : svc' = Started(cleared, fit)
             /\ InBound
             /\ resolving' = Resolving(cleared, svc')
    <3>1. PICK fit \in BOOLEAN : svc' = Started(cleared, fit)
      BY <2>6, FitBoolean
    <3>2. /\ svc' \in Service /\ svc'.process = NoLaunch /\ svc'.generation \in Nat
          /\ svc'.generation >= svc.generation
          /\ svc'.endpoints = NoLaunch /\ svc'.pairings = {}
      BY <1>1, <2>2, <3>1, StartedFacts DEF Service
    <3>3. svc'.generation > svc.generation => svc'.generation \in Generations
      BY <1>1, <2>6, <3>2, SupervisorAssumption DEF InBound, Generations
    <3>4. \A h \in resolving' : \/ h \in resolving
                                \/ h \in Generations /\ h = svc'.generation
                                     /\ h > svc.generation
      BY <2>2, <2>6, <3>2, <3>3, ResolvingFacts
    <3>. QED
      BY <1>1, <2>1, <2>4, <3>2, <3>4, QuietStep DEF SupervisorTypeOK
  <2>. QED  BY <2>3, <2>5, <2>6
<1>. QED  BY <1>1, <1>2, <1>3 DEF ProcessTerminated, Current

LEMMA DeadlineStep ==
    ASSUME SupervisorAssumption, IInv, StartupDeadline
    PROVE  IInv'
<1>. USE DEF IInv
<1>1. svc \in Service /\ UNCHANGED <<resolving, status, asked>>
  BY DEF StartupDeadline, SupervisorTypeOK
<1>2. CASE /\ svc' = [svc EXCEPT !.deadline = NoLaunch]
           /\ UNCHANGED <<child, mail, kills>>
  <2>1. /\ svc' \in Service /\ svc'.process = svc.process
        /\ svc'.generation = svc.generation /\ svc'.open = svc.open
        /\ svc'.endpoints = svc.endpoints /\ svc'.pairings = svc.pairings
    BY <1>1, <1>2, DeadlineFacts, NoneNat
  <2>. QED
    BY <1>1, <1>2, <2>1, SteadyStep DEF CredentialsAreCurrent, SupervisorTypeOK
<1>3. CASE /\ IsRunning(svc)
           /\ svc' = FailWith(svc)
           /\ child' = Terminated(svc.process)
           /\ mail' = mail \cup Exits(child')
           /\ kills' = kills \cup {svc.deadline}
  <2>1. /\ svc' \in Service /\ svc'.process = svc.process
        /\ svc'.generation = svc.generation /\ svc'.open = svc.open
        /\ svc'.endpoints = svc.endpoints /\ svc'.pairings = svc.pairings
    BY <1>1, <1>3, FailFacts
  <2>2. svc.process \in Generations /\ Alive(svc.process) /\ svc.deadline \in Nat
    BY <1>1, <1>3, SupervisorAssumption DEF IsRunning, Service, Generations, NoLaunch
  <2>3. /\ child' \in [Generations -> ChildStates]
        /\ \A g \in Generations :
              child'[g] = child[g] \/ (Alive(g) /\ child'[g] \in {"ready", "closing", "dead"})
    BY <1>3, <2>2, TerminatedFacts
  <2>4. \A m \in mail' :
          m \in mail \/ (m \in Report /\ (m.of = "exit" => child'[m.gen] = "dead"))
    BY <1>3, ExitsFacts
  <2>5. kills' \subseteq Nat
    BY <1>3, <2>2 DEF SupervisorTypeOK
  <2>. QED
    BY <1>1, <2>1, <2>3, <2>4, <2>5, SteadyStep DEF CredentialsAreCurrent, SupervisorTypeOK
<1>. QED  BY <1>2, <1>3 DEF StartupDeadline

LEMMA KillStep ==
    ASSUME SupervisorAssumption, IInv, NEW g \in kills, KillTimer(g)
    PROVE  IInv'
<1>. USE DEF IInv
<1>1. /\ svc \in Service /\ kills' \subseteq kills /\ mail' = mail \cup Exits(child')
      /\ UNCHANGED <<svc, resolving, status, asked>>
  BY DEF KillTimer, SupervisorTypeOK
<1>2. /\ child' \in [Generations -> ChildStates]
      /\ \A h \in Generations :
            child'[h] = child[h] \/ (Alive(h) /\ child'[h] \in {"ready", "closing", "dead"})
  <2>1. CASE Escalates(g)
    <3>1. svc.process \in Generations /\ Alive(svc.process)
      BY <1>1, <2>1, SupervisorAssumption DEF Escalates, IsRunning, Service, Generations, NoLaunch
    <3>2. child' = [child EXCEPT ![svc.process] = "dead"]
      BY <2>1 DEF KillTimer
    <3>. QED  BY <3>1, <3>2 DEF SupervisorTypeOK, ChildStates
  <2>2. CASE ~Escalates(g)
    BY <2>2 DEF KillTimer, SupervisorTypeOK
  <2>. QED  BY <2>1, <2>2
<1>3. \A m \in mail' :
        m \in mail \/ (m \in Report /\ (m.of = "exit" => child'[m.gen] = "dead"))
  BY <1>1, ExitsFacts
<1>. QED
  BY <1>1, <1>2, <1>3, SteadyStep DEF CredentialsAreCurrent, SupervisorTypeOK

-----------------------------------------------------------------------------
(* Requests, and the bridge process. *)

\* An answer changes the display only when the bridge that gave it is the current one,
\* except for the metrics.
LEMMA RequestStep ==
    ASSUME SupervisorAssumption, IInv, NEW r \in Requests, Ask(r) \/ Answer(r) \/ NoAnswer(r)
    PROVE  IInv'
<1>. USE DEF IInv
<1>1. /\ svc \in Service /\ svc.generation \in Nat
      /\ asked \in [Requests -> Nat] /\ asked[r] \in Nat
      /\ UNCHANGED <<resolving, child, status, mail, kills>>
  BY DEF Ask, Answer, NoAnswer, SupervisorTypeOK, Service
<1>2. asked' \in [Requests -> Nat]
  BY <1>1, NoneNat DEF Ask, Answer, NoAnswer, Requests
<1>3. \/ svc' = svc
      \/ svc' = [svc EXCEPT !.metrics = asked[r]]
      \/ StillWanted(r) /\ svc' = [svc EXCEPT !.pairings = @ \cup {asked[r]}]
  BY DEF Ask, Answer, NoAnswer
<1>4. /\ svc' \in Service /\ svc'.process = svc.process
      /\ svc'.generation = svc.generation /\ svc'.open = svc.open
      /\ svc'.endpoints = svc.endpoints
      /\ svc'.pairings \subseteq {svc.endpoints}
  <2>1. CASE svc' = svc
    BY <1>1, <2>1 DEF CredentialsAreCurrent
  <2>2. CASE svc' = [svc EXCEPT !.metrics = asked[r]]
    <3>1. /\ svc' \in Service /\ svc'.process = svc.process
          /\ svc'.generation = svc.generation /\ svc'.open = svc.open
          /\ svc'.endpoints = svc.endpoints /\ svc'.pairings = svc.pairings
      BY <1>1, <2>2, Zenon DEF Service
    <3>. QED  BY <3>1 DEF CredentialsAreCurrent
  <2>3. CASE StillWanted(r) /\ svc' = [svc EXCEPT !.pairings = @ \cup {asked[r]}]
    <3>1. svc.pairings \cup {asked[r]} \in SUBSET Nat
      BY <1>1 DEF Service
    <3>2. /\ svc' \in Service /\ svc'.process = svc.process
          /\ svc'.generation = svc.generation /\ svc'.open = svc.open
          /\ svc'.endpoints = svc.endpoints
          /\ svc'.pairings = svc.pairings \cup {asked[r]}
      BY <1>1, <2>3, <3>1, Zenon DEF Service
    <3>3. asked[r] = svc.endpoints
      BY <2>3 DEF StillWanted
    <3>. QED  BY <3>2, <3>3 DEF CredentialsAreCurrent
  <2>. QED  BY <1>3, <2>1, <2>2, <2>3
<1>. QED
  BY <1>1, <1>2, <1>4, SteadyStep DEF CredentialsAreCurrent, SupervisorTypeOK

LEMMA ProcessStep ==
    ASSUME SupervisorAssumption, IInv, NEW g \in Generations, Listens(g) \/ Ends(g)
    PROVE  IInv'
<1>. USE DEF IInv
<1>1. svc \in Service /\ UNCHANGED <<svc, resolving, kills, asked>>
  BY DEF Listens, Ends, SupervisorTypeOK
<1>2. status' \in [Generations -> BOOLEAN]
  BY DEF Listens, Ends, SupervisorTypeOK
<1>3. /\ child' \in [Generations -> ChildStates]
      /\ \A h \in Generations :
            child'[h] = child[h] \/ (Alive(h) /\ child'[h] \in {"ready", "closing", "dead"})
  BY DEF Listens, Ends, Alive, SupervisorTypeOK, ChildStates
<1>4. \A m \in mail' :
        m \in mail \/ (m \in Report /\ (m.of = "exit" => child'[m.gen] = "dead"))
  <2>1. CASE Listens(g)
    <3>1. [of |-> "ready", gen |-> g] \in Report
      BY DEF Report
    <3>. QED  BY <2>1, <3>1 DEF Listens
  <2>2. CASE Ends(g)
    BY <2>2, ExitsFacts DEF Ends
  <2>. QED  BY <2>1, <2>2
<1>. QED
  BY <1>1, <1>2, <1>3, <1>4, SteadyStep DEF CredentialsAreCurrent, SupervisorTypeOK

-----------------------------------------------------------------------------
(* The theorems. *)

LEMMA InitIInv == SupervisorAssumption /\ ServiceInit => IInv
<1>. SUFFICES ASSUME SupervisorAssumption, ServiceInit PROVE IInv
  OBVIOUS
<1>1. NoLaunch \in Nat /\ NoLaunch \in 0..MaxGenerations /\ "stopped" \in States
  BY DEF NoLaunch, States, SupervisorAssumption
<1>2. SupervisorTypeOK
  <2>1. svc \in Service
    BY <1>1, Zenon DEF ServiceInit, Service, NoLaunch
  <2>2. /\ child \in [Generations -> ChildStates] /\ status \in [Generations -> BOOLEAN]
        /\ asked \in [Requests -> Nat]
    BY <1>1 DEF ServiceInit, ChildStates
  <2>. QED  BY <2>1, <2>2 DEF ServiceInit, SupervisorTypeOK
<1>3. LaunchInv /\ OneReachableBridge
  BY DEF ServiceInit, LaunchInv, OneReachableBridge, Alive
<1>4. CredentialsAreCurrent
  BY DEF ServiceInit, CredentialsAreCurrent
<1>. QED  BY <1>2, <1>3, <1>4 DEF IInv

LEMMA NextIInv == SupervisorAssumption /\ IInv /\ [ServiceNext]_serviceVars => IInv'
<1>. SUFFICES ASSUME SupervisorAssumption, IInv, [ServiceNext]_serviceVars PROVE IInv'
  OBVIOUS
<1>1. CASE UNCHANGED serviceVars
  BY <1>1 DEF serviceVars, IInv, SupervisorTypeOK, LaunchInv, OneReachableBridge,
              CredentialsAreCurrent, Alive
<1>2. CASE Operator
  BY <1>1, <1>2, StartStep, StopRestartStep DEF Operator
<1>3. CASE Quit
  BY <1>3, QuitStep
<1>4. CASE Timers
  BY <1>4, DeadlineStep, KillStep DEF Timers
<1>5. CASE svc.open /\ \E g \in Generations : Tasks(g)
  BY <1>5, LaunchStep, ReadyLineStep, ProcessTerminatedStep DEF Tasks
<1>6. CASE \E r \in Requests : Ask(r) \/ Answer(r) \/ NoAnswer(r)
  BY <1>6, RequestStep
<1>7. CASE \E g \in Generations : Listens(g) \/ Ends(g)
  BY <1>7, ProcessStep
<1>. QED  BY <1>1, <1>2, <1>3, <1>4, <1>5, <1>6, <1>7 DEF ServiceNext

\* The inductive invariant holds in every reachable state.
THEOREM Invariance == ServiceSpec => []IInv
  BY InitIInv, NextIInv, SupervisorAssumption, PTL DEF ServiceSpec

\* However the operator's clicks, the lines and the ends of processes, the deadline
\* and the escalations interleave, no second bridge process ever runs beside the one
\* that BridgeService names, and none outlives the application.
THEOREM NeverTwoBridges == ServiceSpec => []OneReachableBridge
<1>1. IInv => OneReachableBridge
  BY DEF IInv
<1>. QED  BY <1>1, Invariance, PTL

\* No late line or answer of an earlier launch puts its endpoints or its pairing
\* credentials on display.
THEOREM NoStaleCredentials == ServiceSpec => []CredentialsAreCurrent
<1>1. IInv => CredentialsAreCurrent
  BY DEF IInv
<1>. QED  BY <1>1, Invariance, PTL

-----------------------------------------------------------------------------
(* Handshake.                                                                 *)

\* Comparisons of two that are each other's opposite, and three that chain.
Opposite(ab, ba) == ab \in {-1, 0, 1} /\ ba = -ab
Chains(ab, bc, ac) == ab <= 0 /\ bc <= 0 => ac <= 0 /\ (ac = 0 => ab = 0 /\ bc = 0)

LEMMA IdentifierOrder ==
    /\ \A a, b \in PreIdentifier : Opposite(CompareIdentifier(a, b), CompareIdentifier(b, a))
    /\ \A a, b, c \in PreIdentifier :
          Chains(CompareIdentifier(a, b), CompareIdentifier(b, c), CompareIdentifier(a, c))
<1>1. ASSUME NEW a \in PreIdentifier, NEW b \in PreIdentifier
      PROVE  Opposite(CompareIdentifier(a, b), CompareIdentifier(b, a))
  BY DEF PreIdentifier, CompareIdentifier, Sign, Opposite
<1>2. ASSUME NEW a \in PreIdentifier, NEW b \in PreIdentifier, NEW c \in PreIdentifier
      PROVE  Chains(CompareIdentifier(a, b), CompareIdentifier(b, c), CompareIdentifier(a, c))
  BY DEF PreIdentifier, CompareIdentifier, Sign, Chains
<1>. QED  BY <1>1, <1>2

\* Two pre-releases name the same identifiers up to n.
Same(a, b, n) == \A j \in 1..n : CompareIdentifier(a[j], b[j]) = 0
\* The first difference of two is at i.
Differ(a, b, i) ==
    /\ i \in 1..Len(a) /\ i \in 1..Len(b)
    /\ Same(a, b, i - 1) /\ CompareIdentifier(a[i], b[i]) # 0

\* They are the same before m, and not in the wrong order at m.
InOrder(a, b, m) ==
    /\ m \in Nat /\ m >= 1 /\ m <= Len(a) /\ m <= Len(b)
    /\ Same(a, b, m - 1) /\ CompareIdentifier(a[m], b[m]) <= 0

LEMMA SameOpposite ==
    ASSUME NEW a \in Seq(PreIdentifier), NEW b \in Seq(PreIdentifier), NEW n \in Nat,
           n <= Len(a), n <= Len(b), Same(a, b, n)
    PROVE  Same(b, a, n)
<1>1. ASSUME NEW j \in 1..n PROVE CompareIdentifier(b[j], a[j]) = 0
  <2>1. a[j] \in PreIdentifier /\ b[j] \in PreIdentifier
    OBVIOUS
  <2>2. CompareIdentifier(a[j], b[j]) = 0
    BY DEF Same
  <2>. QED  BY <2>1, <2>2, IdentifierOrder DEF Opposite
<1>. QED  BY <1>1 DEF Same

LEMMA SameChains ==
    ASSUME NEW a \in Seq(PreIdentifier), NEW b \in Seq(PreIdentifier), NEW c \in Seq(PreIdentifier),
           NEW n \in Nat, n <= Len(a), n <= Len(b), n <= Len(c), Same(a, b, n), Same(b, c, n)
    PROVE  Same(a, c, n)
<1>1. ASSUME NEW j \in 1..n PROVE CompareIdentifier(a[j], c[j]) = 0
  <2>1. a[j] \in PreIdentifier /\ b[j] \in PreIdentifier /\ c[j] \in PreIdentifier
    OBVIOUS
  <2>2. CompareIdentifier(a[j], b[j]) = 0 /\ CompareIdentifier(b[j], c[j]) = 0
    BY DEF Same
  <2>3. CompareIdentifier(b[j], a[j]) = 0 /\ CompareIdentifier(c[j], b[j]) = 0
    BY <2>1, <2>2, IdentifierOrder DEF Opposite
  <2>4. CompareIdentifier(a[j], c[j]) <= 0 /\ CompareIdentifier(c[j], a[j]) <= 0
    BY <2>1, <2>2, <2>3, IdentifierOrder DEF Chains
  <2>5. Opposite(CompareIdentifier(a[j], c[j]), CompareIdentifier(c[j], a[j]))
    BY <2>1, IdentifierOrder
  <2>. QED  BY <2>4, <2>5 DEF Opposite
<1>. QED  BY <1>1 DEF Same

\* Pre-releases compare as they do where they first differ or, if one begins with the
\* other, as their lengths.
LEMMA ComparePre ==
    ASSUME NEW a \in Seq(PreIdentifier), NEW b \in Seq(PreIdentifier), a # NoPre, b # NoPre
    PROVE  /\ \A i : Differ(a, b, i) => ComparePrerelease(a, b) = CompareIdentifier(a[i], b[i])
           /\ (\A i : ~Differ(a, b, i)) =>
                /\ ComparePrerelease(a, b) = Sign(Len(a), Len(b))
                /\ \A n \in Nat : n <= Len(a) /\ n <= Len(b) => Same(a, b, n)
<1> DEFINE shared == 1 .. (IF Len(a) < Len(b) THEN Len(a) ELSE Len(b))
           differs == {i \in shared : CompareIdentifier(a[i], b[i]) # 0}
           First(i) == i \in differs /\ \A j \in differs : i <= j
<1>1. ComparePrerelease(a, b) =
        IF differs = {} THEN Sign(Len(a), Len(b))
        ELSE LET i == CHOOSE i \in differs : \A j \in differs : i <= j
             IN  CompareIdentifier(a[i], b[i])
  BY DEF ComparePrerelease
<1>2. Len(a) \in Nat /\ Len(b) \in Nat
  OBVIOUS
<1>3. \A i : First(i) <=> Differ(a, b, i)
  BY <1>2 DEF Differ, Same
<1>4. differs # {} => \E i : First(i)
  <2>1. differs \in SUBSET Nat
    BY <1>2
  <2>. QED  BY <2>1, Smallest
<1>5. \A i, j : First(i) /\ First(j) => i = j
  BY <1>2
<1>6. ASSUME NEW i, First(i)
      PROVE  ComparePrerelease(a, b) = CompareIdentifier(a[i], b[i])
  <2> DEFINE k == CHOOSE k \in differs : \A j \in differs : k <= j
  <2>1. First(k)
    BY <1>6
  <2>2. k = i
    <3>. HIDE DEF k, First
    <3>. QED  BY <2>1, <1>5, <1>6
  <2>3. differs # {}
    BY <1>6
  <2>4. ComparePrerelease(a, b) = CompareIdentifier(a[k], b[k])
    <3>. HIDE DEF differs
    <3>. QED  BY <1>1, <2>3
  <2>. HIDE DEF k
  <2>. QED  BY <2>2, <2>4
<1>7. ASSUME differs = {}
      PROVE  /\ ComparePrerelease(a, b) = Sign(Len(a), Len(b))
             /\ \A n \in Nat : n <= Len(a) /\ n <= Len(b) => Same(a, b, n)
  <2>1. ComparePrerelease(a, b) = Sign(Len(a), Len(b))
    <3>. HIDE DEF differs
    <3>. QED  BY <1>1, <1>7
  <2>2. ASSUME NEW n \in Nat, n <= Len(a), n <= Len(b), NEW j \in 1..n
        PROVE  CompareIdentifier(a[j], b[j]) = 0
    <3>1. j \in shared
      BY <1>2, <2>2
    <3>. QED  BY <3>1, <1>7
  <2>. QED  BY <2>1, <2>2 DEF Same
<1>. HIDE DEF First, differs
<1>. QED  BY <1>3, <1>4, <1>6, <1>7

\* When one precedes another, and when they are alike.
Precedes(a, b) ==
    \/ \E i \in Nat : Differ(a, b, i) /\ CompareIdentifier(a[i], b[i]) < 0
    \/ Len(a) < Len(b) /\ Same(a, b, Len(a))
Equivalent(a, b) == Len(a) = Len(b) /\ Same(a, b, Len(a))

LEMMA PreOrder ==
    ASSUME NEW a \in Seq(PreIdentifier), NEW b \in Seq(PreIdentifier), a # NoPre, b # NoPre
    PROVE  /\ ComparePrerelease(a, b) \in {-1, 0, 1}
           /\ ComparePrerelease(a, b) < 0 <=> Precedes(a, b)
           /\ ComparePrerelease(a, b) = 0 <=> Equivalent(a, b)
<1>0. Len(a) \in Nat /\ Len(b) \in Nat
  OBVIOUS
<1>1. CASE \A i : ~Differ(a, b, i)
  <2>1. ComparePrerelease(a, b) = Sign(Len(a), Len(b))
    BY <1>1, ComparePre
  <2>2. Len(a) <= Len(b) => Same(a, b, Len(a))
    BY <1>0, <1>1, ComparePre
  <2>. QED  BY <1>0, <1>1, <2>1, <2>2 DEF Precedes, Equivalent, Sign
<1>2. ASSUME NEW i, Differ(a, b, i)
      PROVE  /\ ComparePrerelease(a, b) \in {-1, 0, 1}
             /\ ComparePrerelease(a, b) < 0 <=> Precedes(a, b)
             /\ ComparePrerelease(a, b) = 0 <=> Equivalent(a, b)
  <2>1. /\ i \in Nat /\ i <= Len(a) /\ i <= Len(b) /\ i >= 1
        /\ a[i] \in PreIdentifier /\ b[i] \in PreIdentifier
        /\ CompareIdentifier(a[i], b[i]) # 0
    BY <1>0, <1>2 DEF Differ
  <2>2. ComparePrerelease(a, b) = CompareIdentifier(a[i], b[i])
    BY <1>2, ComparePre
  <2>3. CompareIdentifier(a[i], b[i]) \in {-1, 1}
    BY <2>1, IdentifierOrder DEF Opposite
  <2>4. ~Same(a, b, Len(a))
    BY <1>0, <2>1 DEF Same
  <2>5. \A k \in Nat : Differ(a, b, k) => k = i
    BY <1>0, <1>2, <2>1 DEF Differ, Same
  <2>. QED  BY <1>2, <2>1, <2>2, <2>3, <2>4, <2>5 DEF Precedes, Equivalent
<1>. QED  BY <1>1, <1>2

\* Pre-releases are ordered, a release above all of them.
LEMMA PrereleaseOrder ==
    /\ \A a, b \in Seq(PreIdentifier) : Opposite(ComparePrerelease(a, b), ComparePrerelease(b, a))
    /\ \A a, b, c \in Seq(PreIdentifier) :
          Chains(ComparePrerelease(a, b), ComparePrerelease(b, c), ComparePrerelease(a, c))
<1>1. \A a, b \in Seq(PreIdentifier) :
        a = NoPre \/ b = NoPre =>
          ComparePrerelease(a, b) = IF a = b THEN 0 ELSE IF a = NoPre THEN 1 ELSE -1
  BY DEF ComparePrerelease
<1>2. ASSUME NEW a \in Seq(PreIdentifier), NEW b \in Seq(PreIdentifier), a # NoPre, b # NoPre
      PROVE  Opposite(ComparePrerelease(a, b), ComparePrerelease(b, a))
  <2>0. Len(a) \in Nat /\ Len(b) \in Nat
    OBVIOUS
  <2>1. ASSUME NEW i, Differ(a, b, i)
        PROVE  Opposite(ComparePrerelease(a, b), ComparePrerelease(b, a))
    <3>1. /\ i \in Nat /\ i <= Len(a) /\ i <= Len(b) /\ i >= 1
          /\ a[i] \in PreIdentifier /\ b[i] \in PreIdentifier
      BY <2>0, <2>1 DEF Differ
    <3>2. Opposite(CompareIdentifier(a[i], b[i]), CompareIdentifier(b[i], a[i]))
      BY <3>1, IdentifierOrder
    <3>3. Same(b, a, i - 1)
      BY <2>0, <2>1, <3>1, SameOpposite DEF Differ
    <3>4. Differ(b, a, i)
      BY <2>1, <3>2, <3>3 DEF Differ, Opposite
    <3>5. /\ ComparePrerelease(a, b) = CompareIdentifier(a[i], b[i])
          /\ ComparePrerelease(b, a) = CompareIdentifier(b[i], a[i])
      BY <1>2, <2>1, <3>4, ComparePre
    <3>. QED  BY <3>2, <3>5
  <2>2. CASE \A i : ~Differ(a, b, i)
    <3>1. ASSUME NEW i, Differ(b, a, i) PROVE FALSE
      <4>1. /\ i \in Nat /\ i <= Len(a) /\ i <= Len(b) /\ i >= 1
            /\ a[i] \in PreIdentifier /\ b[i] \in PreIdentifier
        BY <2>0, <3>1 DEF Differ
      <4>2. Opposite(CompareIdentifier(b[i], a[i]), CompareIdentifier(a[i], b[i]))
        BY <4>1, IdentifierOrder
      <4>3. Same(a, b, i - 1)
        BY <2>0, <3>1, <4>1, SameOpposite DEF Differ
      <4>4. Differ(a, b, i)
        BY <3>1, <4>2, <4>3 DEF Differ, Opposite
      <4>. QED  BY <2>2, <4>4
    <3>2. /\ ComparePrerelease(a, b) = Sign(Len(a), Len(b))
          /\ ComparePrerelease(b, a) = Sign(Len(b), Len(a))
      BY <1>2, <2>2, <3>1, ComparePre
    <3>. QED  BY <2>0, <3>2 DEF Sign, Opposite
  <2>. QED  BY <2>1, <2>2
<1>3. ASSUME NEW a \in Seq(PreIdentifier), NEW b \in Seq(PreIdentifier), NEW c \in Seq(PreIdentifier),
             a # NoPre, b # NoPre, c # NoPre,
             Precedes(a, b) \/ Equivalent(a, b), Precedes(b, c) \/ Equivalent(b, c)
      PROVE  Precedes(a, c) \/ (Equivalent(a, c) /\ Equivalent(a, b) /\ Equivalent(b, c))
  <2>0. Len(a) \in Nat /\ Len(b) \in Nat /\ Len(c) \in Nat
    OBVIOUS
  <2>1. ASSUME NEW m, InOrder(a, b, m), InOrder(b, c, m),
               CompareIdentifier(a[m], b[m]) < 0 \/ CompareIdentifier(b[m], c[m]) < 0
        PROVE  Precedes(a, c)
    <3>0. /\ m \in Nat /\ m >= 1 /\ m <= Len(a) /\ m <= Len(b) /\ m <= Len(c)
          /\ Same(a, b, m - 1) /\ Same(b, c, m - 1)
          /\ CompareIdentifier(a[m], b[m]) <= 0 /\ CompareIdentifier(b[m], c[m]) <= 0
      BY <2>1 DEF InOrder
    <3>1. a[m] \in PreIdentifier /\ b[m] \in PreIdentifier /\ c[m] \in PreIdentifier
      BY <2>0, <3>0
    <3>2. Chains(CompareIdentifier(a[m], b[m]), CompareIdentifier(b[m], c[m]),
                 CompareIdentifier(a[m], c[m]))
      BY <3>1, IdentifierOrder
    <3>3. CompareIdentifier(a[m], c[m]) \in {-1, 0, 1}
      BY <3>1, IdentifierOrder DEF Opposite
    <3>4. CompareIdentifier(a[m], c[m]) < 0
      BY <2>1, <3>0, <3>2, <3>3 DEF Chains
    <3>5. Same(a, c, m - 1)
      BY <2>0, <3>0, SameChains
    <3>. QED  BY <2>0, <3>0, <3>4, <3>5 DEF Precedes, Differ
  <2>2. \A x, y \in Seq(PreIdentifier), i \in Nat :
          Differ(x, y, i) => /\ i >= 1 /\ i <= Len(x) /\ i <= Len(y) /\ Same(x, y, i - 1)
                             /\ CompareIdentifier(x[i], y[i]) \in {-1, 0, 1}
    <3>1. SUFFICES ASSUME NEW x \in Seq(PreIdentifier), NEW y \in Seq(PreIdentifier),
                          NEW i \in Nat, Differ(x, y, i)
                   PROVE  /\ i >= 1 /\ i <= Len(x) /\ i <= Len(y) /\ Same(x, y, i - 1)
                          /\ CompareIdentifier(x[i], y[i]) \in {-1, 0, 1}
      OBVIOUS
    <3>2. /\ i >= 1 /\ i <= Len(x) /\ i <= Len(y) /\ Same(x, y, i - 1)
          /\ x[i] \in PreIdentifier /\ y[i] \in PreIdentifier
      BY <3>1 DEF Differ
    <3>. QED  BY <3>2, IdentifierOrder DEF Opposite
  <2>3. \A x, y, n, k : Same(x, y, n) /\ n \in Nat /\ k \in Nat /\ k <= n => Same(x, y, k)
    BY DEF Same
  <2>4. \A x, y, n, k : Same(x, y, n) /\ n \in Nat /\ k \in Nat /\ k <= n /\ k >= 1
                        => CompareIdentifier(x[k], y[k]) = 0
    BY DEF Same
  <2>5. ASSUME NEW i \in Nat, Differ(a, b, i), CompareIdentifier(a[i], b[i]) < 0
        PROVE  Precedes(a, c)
    <3>1. ASSUME NEW j \in Nat, Differ(b, c, j), CompareIdentifier(b[j], c[j]) < 0
          PROVE  Precedes(a, c)
      <4>0. /\ i >= 1 /\ i <= Len(a) /\ i <= Len(b) /\ Same(a, b, i - 1)
            /\ CompareIdentifier(a[i], b[i]) \in {-1, 0, 1}
            /\ CompareIdentifier(b[j], c[j]) \in {-1, 0, 1}
            /\ j >= 1 /\ j <= Len(b) /\ j <= Len(c) /\ Same(b, c, j - 1)
        BY <2>2, <2>5, <3>1
      <4>1. CASE i < j
        <5>1. /\ i - 1 \in Nat /\ j - 1 \in Nat /\ i - 1 <= j - 1 /\ i <= j - 1 /\ i <= Len(c)
          BY <2>0, <4>0, <4>1
        <5>2. Same(b, c, i - 1) /\ CompareIdentifier(b[i], c[i]) = 0
          BY <2>3, <2>4, <4>0, <5>1
        <5>3. InOrder(a, b, i) /\ InOrder(b, c, i)
          BY <2>5, <4>0, <5>1, <5>2 DEF InOrder
        <5>. QED  BY <2>1, <2>5, <5>3
      <4>2. CASE i = j
        <5>1. InOrder(a, b, i) /\ InOrder(b, c, i)
          BY <2>5, <3>1, <4>0, <4>2 DEF InOrder
        <5>. QED  BY <2>1, <2>5, <5>1
      <4>3. CASE i > j
        <5>1. /\ i - 1 \in Nat /\ j - 1 \in Nat /\ j - 1 <= i - 1 /\ j <= i - 1 /\ j <= Len(a)
          BY <2>0, <4>0, <4>3
        <5>2. Same(a, b, j - 1) /\ CompareIdentifier(a[j], b[j]) = 0
          BY <2>3, <2>4, <4>0, <5>1
        <5>3. InOrder(a, b, j) /\ InOrder(b, c, j)
          BY <3>1, <4>0, <5>1, <5>2 DEF InOrder
        <5>. QED  BY <2>1, <3>1, <5>3
      <4>. QED  BY <4>1, <4>2, <4>3
    <3>2. CASE Same(b, c, Len(b)) /\ Len(b) <= Len(c)
      <4>0. /\ i >= 1 /\ i <= Len(a) /\ i <= Len(b) /\ Same(a, b, i - 1)
            /\ CompareIdentifier(a[i], b[i]) \in {-1, 0, 1}
        BY <2>2, <2>5
      <4>1. i - 1 \in Nat /\ i - 1 <= Len(b) /\ i <= Len(c)
        BY <2>0, <3>2, <4>0
      <4>2. Same(b, c, i - 1) /\ CompareIdentifier(b[i], c[i]) = 0
        BY <2>0, <2>3, <2>4, <3>2, <4>0, <4>1
      <4>3. InOrder(a, b, i) /\ InOrder(b, c, i)
        BY <2>5, <4>0, <4>1, <4>2 DEF InOrder
      <4>. QED  BY <2>1, <2>5, <4>3
    <3>. QED  BY <1>3, <2>0, <3>1, <3>2 DEF Precedes, Equivalent
  <2>6. CASE Same(a, b, Len(a)) /\ Len(a) <= Len(b)
    <3>1. ASSUME NEW j \in Nat, Differ(b, c, j), CompareIdentifier(b[j], c[j]) < 0
          PROVE  Precedes(a, c)
      <4>1. CASE j <= Len(a)
        <5>0. /\ j >= 1 /\ j <= Len(b) /\ j <= Len(c) /\ Same(b, c, j - 1)
              /\ CompareIdentifier(b[j], c[j]) \in {-1, 0, 1}
          BY <2>2, <3>1
        <5>1. j - 1 \in Nat /\ j - 1 <= Len(a)
          BY <2>0, <4>1, <5>0
        <5>2. Same(a, b, j - 1) /\ CompareIdentifier(a[j], b[j]) = 0
          BY <2>0, <2>3, <2>4, <2>6, <4>1, <5>0, <5>1
        <5>3. InOrder(a, b, j) /\ InOrder(b, c, j)
          BY <3>1, <4>1, <5>0, <5>1, <5>2 DEF InOrder
        <5>. QED  BY <2>1, <3>1, <5>3
      <4>2. CASE j > Len(a)
        <5>1. Same(b, c, Len(a)) /\ Len(a) < Len(c)
          <6>1. /\ j >= 1 /\ j <= Len(b) /\ j <= Len(c) /\ Same(b, c, j - 1)
            BY <2>2, <3>1
          <6>2. j - 1 \in Nat /\ Len(a) <= j - 1 /\ Len(a) < Len(c)
            BY <2>0, <4>2, <6>1
          <6>. QED  BY <2>0, <2>3, <6>1, <6>2
        <5>2. Same(a, c, Len(a))
          BY <2>0, <2>6, <5>1, SameChains
        <5>. QED  BY <5>1, <5>2 DEF Precedes
      <4>. QED  BY <2>0, <4>1, <4>2
    <3>2. CASE Same(b, c, Len(b)) /\ Len(b) <= Len(c)
      <4>1. Same(b, c, Len(a)) /\ Len(a) <= Len(c)
        BY <2>0, <2>3, <2>6, <3>2
      <4>2. Same(a, c, Len(a))
        BY <2>0, <2>6, <4>1, SameChains
      <4>. QED  BY <2>0, <2>6, <3>2, <4>1, <4>2 DEF Precedes, Equivalent
    <3>. QED  BY <1>3, <2>0, <3>1, <3>2 DEF Precedes, Equivalent
  <2>. QED  BY <1>3, <2>0, <2>5, <2>6 DEF Precedes, Equivalent
<1>4. ASSUME NEW a \in Seq(PreIdentifier), NEW b \in Seq(PreIdentifier)
      PROVE  Opposite(ComparePrerelease(a, b), ComparePrerelease(b, a))
  BY <1>1, <1>2 DEF Opposite
<1>5. ASSUME NEW a \in Seq(PreIdentifier), NEW b \in Seq(PreIdentifier), NEW c \in Seq(PreIdentifier)
      PROVE  Chains(ComparePrerelease(a, b), ComparePrerelease(b, c), ComparePrerelease(a, c))
  <2>1. CASE a = NoPre \/ b = NoPre \/ c = NoPre
    <3>1. /\ ComparePrerelease(a, b) \in {-1, 0, 1} /\ ComparePrerelease(b, c) \in {-1, 0, 1}
          /\ ComparePrerelease(a, c) \in {-1, 0, 1}
      BY <1>4 DEF Opposite
    <3>. QED  BY <1>1, <2>1, <3>1 DEF Chains
  <2>2. CASE a # NoPre /\ b # NoPre /\ c # NoPre
    <3> DEFINE ab == ComparePrerelease(a, b)
               bc == ComparePrerelease(b, c)
               ac == ComparePrerelease(a, c)
    <3>1. /\ ab \in {-1, 0, 1} /\ (ab < 0 <=> Precedes(a, b)) /\ (ab = 0 <=> Equivalent(a, b))
          /\ bc \in {-1, 0, 1} /\ (bc < 0 <=> Precedes(b, c)) /\ (bc = 0 <=> Equivalent(b, c))
          /\ ac \in {-1, 0, 1} /\ (ac < 0 <=> Precedes(a, c)) /\ (ac = 0 <=> Equivalent(a, c))
      BY <2>2, PreOrder
    <3>. HIDE DEF ab, bc, ac
    <3>2. ASSUME ab <= 0, bc <= 0 PROVE ac <= 0 /\ (ac = 0 => ab = 0 /\ bc = 0)
      <4>1. (Precedes(a, b) \/ Equivalent(a, b)) /\ (Precedes(b, c) \/ Equivalent(b, c))
        BY <3>1, <3>2
      <4>2. Precedes(a, c) \/ (Equivalent(a, c) /\ Equivalent(a, b) /\ Equivalent(b, c))
        BY <1>3, <2>2, <4>1
      <4>. QED  BY <3>1, <4>2
    <3>3. Chains(ab, bc, ac)
      BY <3>2 DEF Chains
    <3>. QED  BY <3>3 DEF ab, bc, ac
  <2>. QED  BY <2>1, <2>2
<1>. QED  BY <1>4, <1>5

\* Versions are compared field by field.
LEMMA CompareFields ==
    ASSUME NEW v \in Versions, NEW w \in Versions
    PROVE  CompareVersions(v, w) =
             IF v.core[1] # w.core[1] THEN Sign(v.core[1], w.core[1])
             ELSE IF v.core[2] # w.core[2] THEN Sign(v.core[2], w.core[2])
             ELSE IF v.core[3] # w.core[3] THEN Sign(v.core[3], w.core[3])
             ELSE ComparePrerelease(v.pre, w.pre)
<1> DEFINE differs == {i \in 1..3 : v.core[i] # w.core[i]}
           First(i) == i \in differs /\ \A j \in differs : i <= j
           first == CHOOSE i \in differs : \A j \in differs : i <= j
<1>1. CompareVersions(v, w) = IF differs = {} THEN ComparePrerelease(v.pre, w.pre)
                              ELSE Sign(v.core[first], w.core[first])
  BY DEF CompareVersions
<1>2. differs \subseteq {1, 2, 3}
  OBVIOUS
<1>3. \A i : First(i) => first = i
  <2>1. SUFFICES ASSUME NEW i, First(i) PROVE first = i
    OBVIOUS
  <2>2. First(first)
    BY <2>1
  <2>3. \A j : First(j) => j = i
    BY <1>2, <2>1
  <2>. HIDE DEF first, First
  <2>. QED  BY <2>2, <2>3
<1>4. /\ v.core[1] # w.core[1] => First(1)
      /\ v.core[1] = w.core[1] /\ v.core[2] # w.core[2] => First(2)
      /\ v.core[1] = w.core[1] /\ v.core[2] = w.core[2] /\ v.core[3] # w.core[3] => First(3)
      /\ v.core[1] = w.core[1] /\ v.core[2] = w.core[2] /\ v.core[3] = w.core[3] => differs = {}
  BY <1>2
<1>5. \A i : First(i) => differs # {}
  OBVIOUS
<1>. HIDE DEF first, First, differs
<1>. QED  BY <1>1, <1>3, <1>4, <1>5

LEMMA VersionOrder ==
    /\ \A v, w \in Versions : Opposite(CompareVersions(v, w), CompareVersions(w, v))
    /\ \A u, v, w \in Versions :
          Chains(CompareVersions(u, v), CompareVersions(v, w), CompareVersions(u, w))
<1>0. \A v \in Versions : /\ v.core[1] \in Nat /\ v.core[2] \in Nat /\ v.core[3] \in Nat
                          /\ v.pre \in Seq(PreIdentifier)
  BY DEF Versions
<1>1. ASSUME NEW v \in Versions, NEW w \in Versions
      PROVE  Opposite(CompareVersions(v, w), CompareVersions(w, v))
  <2>1. Opposite(ComparePrerelease(v.pre, w.pre), ComparePrerelease(w.pre, v.pre))
    BY <1>0, PrereleaseOrder
  <2>. QED  BY <1>0, <2>1, CompareFields DEF Opposite, Sign
<1>2. ASSUME NEW u \in Versions, NEW v \in Versions, NEW w \in Versions
      PROVE  Chains(CompareVersions(u, v), CompareVersions(v, w), CompareVersions(u, w))
  <2>1. Chains(ComparePrerelease(u.pre, v.pre), ComparePrerelease(v.pre, w.pre),
               ComparePrerelease(u.pre, w.pre))
    BY <1>0, PrereleaseOrder
  <2>2. CASE u.core[1] # v.core[1] \/ v.core[1] # w.core[1]
    BY <1>0, <2>2, CompareFields DEF Chains, Sign
  <2>3. CASE u.core[1] = v.core[1] /\ v.core[1] = w.core[1]
    <3>1. CASE u.core[2] # v.core[2] \/ v.core[2] # w.core[2]
      BY <1>0, <2>3, <3>1, CompareFields DEF Chains, Sign
    <3>2. CASE u.core[2] = v.core[2] /\ v.core[2] = w.core[2]
      <4>1. CASE u.core[3] # v.core[3] \/ v.core[3] # w.core[3]
        BY <1>0, <2>3, <3>2, <4>1, CompareFields DEF Chains, Sign
      <4>2. CASE u.core[3] = v.core[3] /\ v.core[3] = w.core[3]
        BY <2>1, <2>3, <3>2, <4>2, CompareFields
      <4>. QED  BY <4>1, <4>2
    <3>. QED  BY <3>1, <3>2
  <2>. QED  BY <2>2, <2>3
<1>. QED  BY <1>1, <1>2

-----------------------------------------------------------------------------
(* The negotiated version. *)

\* In the order in which the common versions are sorted, j is not after i.
Below(remote, j, i) ==
    LET c == CompareVersions(remote[j], remote[i]) IN c < 0 \/ (c = 0 /\ j <= i)

LEMMA BelowOrder ==
    ASSUME NEW remote \in Seq(Versions)
    PROVE  /\ \A i \in DOMAIN remote : Below(remote, i, i)
           /\ \A i, j \in DOMAIN remote : Below(remote, i, j) \/ Below(remote, j, i)
           /\ \A i, j, k \in DOMAIN remote :
                 Below(remote, i, j) /\ Below(remote, j, k) => Below(remote, i, k)
<1>0. \A i \in DOMAIN remote : i \in Nat /\ remote[i] \in Versions
  OBVIOUS
<1>1. ASSUME NEW i \in DOMAIN remote, NEW j \in DOMAIN remote
      PROVE  Below(remote, i, j) \/ Below(remote, j, i)
  <2>1. Opposite(CompareVersions(remote[i], remote[j]), CompareVersions(remote[j], remote[i]))
    BY <1>0, VersionOrder
  <2>. QED  BY <1>0, <2>1 DEF Below, Opposite
<1>2. ASSUME NEW i \in DOMAIN remote, NEW j \in DOMAIN remote, NEW k \in DOMAIN remote,
             Below(remote, i, j), Below(remote, j, k)
      PROVE  Below(remote, i, k)
  <2> DEFINE ij == CompareVersions(remote[i], remote[j])
             jk == CompareVersions(remote[j], remote[k])
             ik == CompareVersions(remote[i], remote[k])
  <2>1. Chains(ij, jk, ik)
    BY <1>0, VersionOrder
  <2>2. ij \in {-1, 0, 1} /\ jk \in {-1, 0, 1} /\ ik \in {-1, 0, 1}
    BY <1>0, VersionOrder DEF Opposite
  <2>3. (ij < 0 \/ (ij = 0 /\ i <= j)) /\ (jk < 0 \/ (jk = 0 /\ j <= k))
    BY <1>2 DEF Below
  <2>4. i \in Nat /\ j \in Nat /\ k \in Nat
    BY <1>0
  <2>. HIDE DEF ij, jk
  <2>5. ik < 0 \/ (ik = 0 /\ i <= k)
    <3>. HIDE DEF ik
    <3>. QED  BY <2>1, <2>2, <2>3, <2>4 DEF Chains
  <2>. QED  BY <2>5 DEF Below
<1>. QED  BY <1>1, <1>2

\* The last of the common versions in this order exists.
LEMMA NegotiatedIs ==
    ASSUME NEW remote \in Seq(Versions), NEW local, Common(remote, local) # {}
    PROVE  \E i \in Common(remote, local) :
              /\ Negotiated(remote, local) = remote[i]
              /\ \A j \in Common(remote, local) : Below(remote, j, i)
<1> DEFINE common == Common(remote, local)
           Above(i) == {j \in common : ~Below(remote, j, i)}
           above == {Above(i) : i \in common}
           last == CHOOSE i \in common : \A j \in common : Below(remote, j, i)
<1>1. common \subseteq DOMAIN remote /\ IsFiniteSet(common)
  <2>1. common \subseteq 1..Len(remote) /\ IsFiniteSet(1..Len(remote))
    BY FS_Interval DEF Common
  <2>. QED  BY <2>1, FS_Subset
<1>2. above \in SUBSET (SUBSET common) /\ above # {}
  OBVIOUS
<1>. HIDE DEF common
<1>3. PICK m \in above : \A T \in above : T \subseteq m => T = m
  <2>. HIDE DEF above
  <2>. QED  BY <1>1, <1>2, SmallestSet
<1>4. PICK i \in common : m = Above(i)
  OBVIOUS
<1>5. ASSUME NEW j \in common, ~Below(remote, j, i) PROVE FALSE
  <2>1. Below(remote, i, j) /\ Below(remote, j, j)
    BY <1>1, <1>5, BelowOrder
  <2>2. \A k \in common : Below(remote, k, i) => Below(remote, k, j)
    BY <1>1, <2>1, BelowOrder
  <2>3. Above(j) \subseteq Above(i)
    BY <2>2
  <2>4. Above(j) = Above(i)
    BY <1>3, <1>4, <2>3
  <2>. QED  BY <1>5, <2>1, <2>4
<1>6. last \in common /\ \A j \in common : Below(remote, j, last)
  BY <1>5
<1>7. Negotiated(remote, local) = remote[last]
  BY DEF Negotiated, common, Below
<1>. HIDE DEF last
<1>. QED  BY <1>6, <1>7 DEF common

\* A version that semver puts higher compares as greater.
LEMMA HigherIsGreater ==
    ASSUME NEW v \in Versions, NEW w \in Versions, Higher(v, w)
    PROVE  CompareVersions(v, w) > 0
<1>0. /\ v.core[1] \in Nat /\ v.core[2] \in Nat /\ v.core[3] \in Nat
      /\ w.core[1] \in Nat /\ w.core[2] \in Nat /\ w.core[3] \in Nat
      /\ v.pre \in Seq(PreIdentifier) /\ w.pre \in Seq(PreIdentifier)
  BY DEF Versions
<1> DEFINE Before(a, b) ==
            IF a.numeric /\ b.numeric THEN a.value < b.value
            ELSE (a.numeric /\ ~b.numeric) \/ (~a.numeric /\ ~b.numeric /\ a.text < b.text)
<1>1. CASE \E i \in 1..3 : v.core[i] > w.core[i] /\ \A j \in 1..(i - 1) : v.core[j] = w.core[j]
  <2>1. \/ v.core[1] > w.core[1]
        \/ v.core[1] = w.core[1] /\ v.core[2] > w.core[2]
        \/ v.core[1] = w.core[1] /\ v.core[2] = w.core[2] /\ v.core[3] > w.core[3]
    BY <1>1
  <2>. QED  BY <1>0, <2>1, CompareFields DEF Sign
<1>2. ASSUME v.core = w.core, v.pre # NoPre, w.pre # NoPre, Precedes(w.pre, v.pre)
      PROVE  CompareVersions(v, w) > 0
  <2>1. ComparePrerelease(w.pre, v.pre) < 0
    BY <1>0, <1>2, PreOrder
  <2>2. Opposite(ComparePrerelease(v.pre, w.pre), ComparePrerelease(w.pre, v.pre))
    BY <1>0, PrereleaseOrder
  <2>3. ComparePrerelease(v.pre, w.pre) > 0
    BY <2>1, <2>2 DEF Opposite
  <2>. QED  BY <1>0, <1>2, <2>3, CompareFields
<1>3. CASE v.core = w.core /\ v.pre = NoPre /\ w.pre # NoPre
  <2>1. ComparePrerelease(v.pre, w.pre) = 1
    BY <1>3 DEF ComparePrerelease
  <2>. QED  BY <1>0, <1>3, <2>1, CompareFields
<1>4. \A a \in PreIdentifier : CompareIdentifier(a, a) = 0
  BY IdentifierOrder DEF Opposite
<1>5. CASE v.core = w.core /\ v.pre # NoPre /\ w.pre # NoPre /\ IsStrictPrefix(w.pre, v.pre)
  <2>1. /\ Len(w.pre) \in Nat /\ Len(v.pre) \in Nat /\ Len(w.pre) <= Len(v.pre)
        /\ SubSeq(w.pre, 1, Len(w.pre)) = SubSeq(v.pre, 1, Len(w.pre)) /\ w.pre # v.pre
    BY <1>0, <1>5 DEF IsStrictPrefix, IsPrefix
  <2>2. \A j \in 1..Len(w.pre) : w.pre[j] = v.pre[j] /\ w.pre[j] \in PreIdentifier
    BY <1>0, <2>1
  <2>3. Len(w.pre) < Len(v.pre)
    <3>1. SUFFICES ASSUME Len(w.pre) = Len(v.pre) PROVE w.pre = v.pre
      BY <2>1
    <3>. QED  BY <1>0, <2>2, <3>1, SeqEqual
  <2>4. Same(w.pre, v.pre, Len(w.pre))
    BY <1>4, <2>2 DEF Same
  <2>. QED  BY <1>2, <1>5, <2>3, <2>4 DEF Precedes
<1>6. CASE /\ v.core = w.core /\ v.pre # NoPre /\ w.pre # NoPre
           /\ \E i \in DOMAIN v.pre \cap DOMAIN w.pre :
                 /\ Before(w.pre[i], v.pre[i])
                 /\ \A j \in 1..(i - 1) : v.pre[j] = w.pre[j]
  <2>1. PICK i \in DOMAIN v.pre \cap DOMAIN w.pre :
          /\ Before(w.pre[i], v.pre[i])
          /\ \A j \in 1..(i - 1) : v.pre[j] = w.pre[j]
    BY <1>6
  <2>2. /\ i \in Nat /\ i \in 1..Len(v.pre) /\ i \in 1..Len(w.pre)
        /\ v.pre[i] \in PreIdentifier /\ w.pre[i] \in PreIdentifier
        /\ \A j \in 1..(i - 1) : w.pre[j] \in PreIdentifier
    BY <1>0
  <2>3. CompareIdentifier(w.pre[i], v.pre[i]) < 0
    BY <2>1, <2>2 DEF CompareIdentifier, Sign, PreIdentifier
  <2>4. Same(w.pre, v.pre, i - 1)
    BY <1>4, <2>1, <2>2 DEF Same
  <2>5. Precedes(w.pre, v.pre)
    BY <2>2, <2>3, <2>4 DEF Precedes, Differ
  <2>. QED  BY <1>2, <1>6, <2>5
<1>. QED  BY <1>1, <1>3, <1>5, <1>6 DEF Higher

-----------------------------------------------------------------------------
(* The handshake. *)

\* The highest version that both list.
IsHighest(version) ==
    LET common == ToSet(hello.versions) \cap ToSet(release)
    IN  version \in common /\ \A v \in common : ~Higher(v, version)

LEMMA NegotiatedHighest ==
    ASSUME hello \in Hello, release \in Seq(Versions), Common(hello.versions, release) # {}
    PROVE  IsHighest(Negotiated(hello.versions, release))
<1>1. hello.versions \in Seq(Versions)
  BY DEF Hello
<1>2. PICK i \in Common(hello.versions, release) :
        /\ Negotiated(hello.versions, release) = hello.versions[i]
        /\ \A j \in Common(hello.versions, release) : Below(hello.versions, j, i)
  BY <1>1, NegotiatedIs
<1>3. hello.versions[i] \in ToSet(hello.versions) \cap ToSet(release)
  BY DEF Common, ToSet
<1>4. ASSUME NEW v \in ToSet(hello.versions) \cap ToSet(release), Higher(v, hello.versions[i])
      PROVE  FALSE
  <2>1. PICK j \in Common(hello.versions, release) : hello.versions[j] = v
    BY DEF Common, ToSet
  <2>2. v \in Versions /\ hello.versions[i] \in Versions
    BY <1>1, <2>1 DEF Common
  <2>3. CompareVersions(v, hello.versions[i]) > 0
    BY <1>4, <2>2, HigherIsGreater
  <2>4. CompareVersions(v, hello.versions[i]) \in {-1, 0, 1}
    BY <2>2, VersionOrder DEF Opposite
  <2>5. Below(hello.versions, j, i)
    BY <1>2
  <2>. QED  BY <2>1, <2>3, <2>4, <2>5 DEF Below
<1>. QED  BY <1>2, <1>3, <1>4 DEF IsHighest

\* The limits that normalizeBridgeConfig lets through, a welcome may announce.
LEMMA LimitsAnnounced ==
    ASSUME limits \in [DOMAIN DefaultLimits -> Int], Normalizes(limits)
    PROVE  Flat(Limits, AnnouncedLimits)
<1>0. /\ MaxProtocolInvocations \in Nat /\ MaxTimeout \in Nat /\ MaxStringLength \in Nat
      /\ 1 \in Nat /\ 1024 \in Nat /\ MaxSafeInteger \in Nat
  BY HandshakeAssumption, SMT DEF HandshakeAssumption, MaxProtocolInvocations, MaxTimeout, MaxStringLength
<1>1. DOMAIN limits = DOMAIN DefaultLimits
  OBVIOUS
<1>2. /\ limits.maxWebSocketPayloadBytes \in 1024..MaxStringLength
      /\ limits.maxConcurrentRequestsPerRuntime \in 1..MaxProtocolInvocations
      /\ limits.browserRequestTimeoutMs \in 1..MaxTimeout
  <2>1. /\ "maxConcurrentRequestsPerRuntime" \in DOMAIN limits
        /\ "browserRequestTimeoutMs" \in DOMAIN limits
    BY <1>1 DEF DefaultLimits
  <2>2. /\ limits["maxConcurrentRequestsPerRuntime"] \in 1..MaxSafeInteger
        /\ limits["browserRequestTimeoutMs"] \in 1..MaxSafeInteger
    BY <2>1 DEF Normalizes, Positive
  <2>3. /\ limits["maxConcurrentRequestsPerRuntime"] <= MaxProtocolInvocations
        /\ limits["browserRequestTimeoutMs"] <= MaxTimeout
        /\ limits["maxWebSocketPayloadBytes"] \in 1024..MaxStringLength
    BY SMT DEF Normalizes
  <2>. QED  BY <1>0, <2>2, <2>3
<1> DEFINE ann == [maxMessageBytes |-> NumberOf(limits.maxWebSocketPayloadBytes),
                   maxConcurrentInvocations |-> NumberOf(limits.maxConcurrentRequestsPerRuntime),
                   requestTimeoutMs |-> NumberOf(limits.browserRequestTimeoutMs)]
           req == [maxMessageBytes |-> Whole(1024, MaxStringLength),
                   maxConcurrentInvocations |-> Whole(1, MaxProtocolInvocations),
                   requestTimeoutMs |-> Whole(1, MaxTimeout)]
<1>3. AnnouncedLimits.sort = "object" /\ AnnouncedLimits.fields = ann /\ Limits.required = req
  BY SMT DEF AnnouncedLimits, Limits, Object, MaxProtocolInvocations
<1>4. DOMAIN ann = {"maxMessageBytes", "maxConcurrentInvocations", "requestTimeoutMs"}
      /\ DOMAIN req = DOMAIN ann
  OBVIOUS
<1>5. ASSUME NEW min \in Nat, NEW max \in Nat, NEW n \in min..max
      PROVE  Plain(Whole(min, max), NumberOf(n))
  BY <1>5, SMT DEF Plain, Whole, NumberOf
<1>6. /\ Plain(Whole(1024, MaxStringLength), NumberOf(limits.maxWebSocketPayloadBytes))
      /\ Plain(Whole(1, MaxProtocolInvocations), NumberOf(limits.maxConcurrentRequestsPerRuntime))
      /\ Plain(Whole(1, MaxTimeout), NumberOf(limits.browserRequestTimeoutMs))
  <2>. HIDE DEF ann, req
  <2>. QED  BY <1>0, <1>2, <1>5
<1>7. /\ Plain(req["maxMessageBytes"], ann["maxMessageBytes"])
      /\ Plain(req["maxConcurrentInvocations"], ann["maxConcurrentInvocations"])
      /\ Plain(req["requestTimeoutMs"], ann["requestTimeoutMs"])
  BY <1>6, SMT
<1>. HIDE DEF ann, req
<1>. QED  BY <1>3, <1>4, <1>7 DEF Flat, Exact, RuleOf

\* Past the configuration its limits are accepted ones, and past the connect the version
\* is the highest; the welcome names it.
HandshakeInv ==
    /\ limits \in [DOMAIN DefaultLimits -> Int] /\ release \in Seq(Versions) /\ hello \in Hello
    /\ stage \notin {"threw", "declined"}
    /\ stage \in {"listening", "approving", "welcoming", "welcomed", "connected"} => Normalizes(limits)
    /\ stage \in {"approving", "welcoming", "welcomed", "connected"} =>
         IsHighest(selected) /\ hello.complete
    /\ stage = "welcomed" => message.version = selected

LEMMA InitHandshakeInv == HandshakeInit => HandshakeInv
  BY HandshakeAssumption DEF HandshakeAssumption, HandshakeInit, Begins, HandshakeInv, Meeting

LEMMA NextHandshakeInv == HandshakeInv /\ [HandshakeNext]_handshakeVars => HandshakeInv'
<1>0. SUFFICES ASSUME HandshakeInv, [HandshakeNext]_handshakeVars PROVE HandshakeInv'
  OBVIOUS
<1> DEFINE Kept == UNCHANGED given
<1>1. ASSUME Kept
      PROVE  /\ \A v : IsHighest(v)' <=> IsHighest(v)
             /\ (limits \in [DOMAIN DefaultLimits -> Int])' /\ (release \in Seq(Versions))' /\ (hello \in Hello)'
             /\ Normalizes(limits)' <=> Normalizes(limits)
             /\ hello'.complete = hello.complete
  BY <1>0, <1>1, SMT DEF given, IsHighest, Normalizes, Positive, HandshakeInv
<1>2. CASE UNCHANGED handshakeVars
  BY <1>0, <1>1, <1>2 DEF handshakeVars, given, HandshakeInv, IsHighest
<1>3. CASE Configure
  BY <1>0, <1>1, <1>3 DEF Configure, given, HandshakeInv
<1>4. CASE Connect
  BY <1>0, <1>1, <1>4, NegotiatedHighest DEF Connect, given, HandshakeInv, Versioned, Says
<1>5. CASE Decide
  BY <1>0, <1>1, <1>5 DEF Decide, given, HandshakeInv
<1>6. CASE Welcome
  BY <1>0, <1>1, <1>6, LimitsAnnounced DEF Welcome, given, HandshakeInv, Says
<1>7. CASE TabAnswers
  BY <1>0, <1>1, <1>7 DEF TabAnswers, given, HandshakeInv, IsHighest
<1>8. CASE \E type \in SessionMessages : Talks(type)
  BY <1>0, <1>1, <1>8 DEF Talks, given, HandshakeInv, IsHighest
<1>. QED  BY <1>0, <1>2, <1>3, <1>4, <1>5, <1>6, <1>7, <1>8 DEF HandshakeNext

\* Whatever limits a bridge has configured and accepted, and whatever versions it and the
\* tab support: the welcome that establishSession sends is one that createBridgeMessage and
\* the tab accept, and the version is the highest that both list.
THEOREM EveryHandshakeFits == HandshakeSpec => []HandshakeSound
<1>1. HandshakeInv => HandshakeSound
  BY DEF HandshakeInv, HandshakeSound, IsHighest
<1>. QED  BY <1>1, InitHandshakeInv, NextHandshakeInv, PTL DEF HandshakeSpec
=============================================================================
