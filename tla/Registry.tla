------------------------------ MODULE Registry ------------------------------
(***************************************************************************)
(* CapabilityRegistry (bridge/src/registry.ts): the sessions of the        *)
(* connected tabs and the tools, resources and prompts each has            *)
(* registered, with the count and the bytes that its four limits are       *)
(* enforced on.                                                            *)
(*                                                                         *)
(* A session's identity is the pair its MCP names are derived from (the    *)
(* Origin and the application id) and the instance id of its tab.  Two     *)
(* tabs of one application share their MCP names; a call to a name that    *)
(* two tabs provide is refused as ambiguous.                               *)
(*                                                                         *)
(* The three maps by connection (#sessions, #registrations,                *)
(* #bytesByConnection) get and lose their keys together.  An absent        *)
(* session is NoSession and its other entries are empty.  A call that      *)
(* throws changes nothing and is not a step.                               *)
(***************************************************************************)
EXTENDS Integers, FiniteSets, Functions

CONSTANTS
    Connections,   \* browser connections
    Identities,    \* records with fields origin, app and instance
    NoSession,     \* not an identity
    Definitions,   \* registrations: [id, kind, name, uri, bytes]
    SafeName,      \* [names -> names]: safeName's normalization
    MaxPerRuntime, MaxTotal, MaxBytesPerRuntime, MaxBytesTotal

ASSUME RegistryAssumption ==
    /\ NoSession \notin Identities
    /\ MaxPerRuntime \in Nat /\ MaxTotal \in Nat
    /\ MaxBytesPerRuntime \in Nat /\ MaxBytesTotal \in Nat
    /\ \A d \in Definitions : d.bytes \in Nat

VARIABLES
    sessions,       \* #sessions
    registrations,  \* #registrations: the definitions of each connection
    bytes,          \* #bytesByConnection: bytes by registration id
    count,          \* #registrationCount
    retained,       \* #retainedBytes
    announced       \* kinds whose "...Changed" event the last call emitted

maps == <<sessions, registrations, bytes>>
counters == <<count, retained>>
vars == <<maps, counters, announced>>

DefinedKinds == {d.kind : d \in Definitions}
NoBytes == [id \in {} |-> 0]
TotalOf(f) == FoldFunction(LAMBDA x, y : x + y, 0, f)
NotNegative(n) == IF n < 0 THEN 0 ELSE n

\* emitChangedKinds: one event for each kind among the definitions.
KindsOf_OfOne(ds) == IF ds = {} THEN {} ELSE {(CHOOSE d \in ds : TRUE).kind}
KindsOf(ds) == {d.kind : d \in ds}

\* capabilityName and resourceUri: the name and the URI an MCP client sees.
ExposedName(c, d) == <<sessions[c].origin, sessions[c].app, SafeName[d.name]>>
ExposedUri(c, d) == <<sessions[c].origin, sessions[c].app, d.uri>>

-----------------------------------------------------------------------------
(* addSession and removeSession *)

\* The runtime instance is already connected.
Conflicts_Never(live, who) == FALSE
Conflicts(live, who) ==
    \E c \in Connections :
        /\ live[c] # NoSession
        /\ live[c].origin = who.origin
        /\ live[c].app = who.app
        /\ live[c].instance = who.instance

AddSession(c, who) ==
    /\ ~Conflicts(sessions, who)
    /\ sessions' = [sessions EXCEPT ![c] = who]
    /\ registrations' = [registrations EXCEPT ![c] = {}]
    /\ bytes' = [bytes EXCEPT ![c] = NoBytes]
    /\ UNCHANGED counters

\* What removeSession leaves of the registrations and of their accounting.
Forget_KeepsBytes(c) ==
    /\ registrations' = [registrations EXCEPT ![c] = {}]
    /\ bytes' = [bytes EXCEPT ![c] = NoBytes]
    /\ count' = NotNegative(count - Cardinality(registrations[c]))
    /\ UNCHANGED retained
Forget(c) ==
    /\ registrations' = [registrations EXCEPT ![c] = {}]
    /\ bytes' = [bytes EXCEPT ![c] = NoBytes]
    /\ count' = NotNegative(count - Cardinality(registrations[c]))
    /\ retained' = NotNegative(retained - TotalOf(bytes[c]))

RemoveSession(c) ==
    /\ sessions' = [sessions EXCEPT ![c] = NoSession]
    /\ Forget(c)

-----------------------------------------------------------------------------
(* register and unregister *)

\* The id, the exposed name within its kind, and a resource's URI are free in this
\* runtime.
Unclaimed_NameOnly(c, d) ==
    \A r \in registrations[c] :
        /\ r.id # d.id
        /\ ~(r.kind = d.kind /\ ExposedName(c, r) = ExposedName(c, d))
Unclaimed(c, d) ==
    \A r \in registrations[c] :
        /\ r.id # d.id
        /\ ~(r.kind = d.kind /\ ExposedName(c, r) = ExposedName(c, d))
        /\ ~(r.kind = "resource" /\ d.kind = "resource"
               /\ ExposedUri(c, r) = ExposedUri(c, d))

WithinLimits(c, d) ==
    /\ Cardinality(registrations[c]) < MaxPerRuntime
    /\ count < MaxTotal
    /\ TotalOf(bytes[c]) + d.bytes <= MaxBytesPerRuntime
    /\ retained + d.bytes <= MaxBytesTotal

Register(c, d) ==
    /\ sessions[c] # NoSession
    /\ Unclaimed(c, d)
    /\ WithinLimits(c, d)
    /\ registrations' = [registrations EXCEPT ![c] = @ \cup {d}]
    /\ bytes' = [bytes EXCEPT ![c] =
                    [id \in DOMAIN @ \cup {d.id} |-> IF id = d.id THEN d.bytes ELSE @[id]]]
    /\ count' = count + 1
    /\ retained' = retained + d.bytes
    /\ UNCHANGED sessions

Unregister(c, d) ==
    /\ d \in registrations[c]
    /\ registrations' = [registrations EXCEPT ![c] = @ \ {d}]
    /\ bytes' = [bytes EXCEPT ![c] = [id \in DOMAIN @ \ {d.id} |-> @[id]]]
    /\ count' = NotNegative(count - 1)
    /\ retained' = NotNegative(retained - bytes[c][d.id])
    /\ UNCHANGED sessions

-----------------------------------------------------------------------------
(* providersByName, providersByUri and resolveUnique *)

Providers(kind, name) ==
    {p \in Connections \X Definitions :
        /\ p[2] \in registrations[p[1]]
        /\ p[2].kind = kind /\ ExposedName(p[1], p[2]) = name}

UriProviders(uri) ==
    {p \in Connections \X Definitions :
        /\ p[2] \in registrations[p[1]]
        /\ p[2].kind = "resource" /\ ExposedUri(p[1], p[2]) = uri}

\* A target is resolved when it has exactly one provider.
Resolves(providers, c, d) == providers = {<<c, d>>}

-----------------------------------------------------------------------------
(* The registry by itself.  A connection that comes back stands for a new one. *)

Announces(kinds) == announced' = kinds

Init ==
    /\ sessions = [c \in Connections |-> NoSession]
    /\ registrations = [c \in Connections |-> {}]
    /\ bytes = [c \in Connections |-> NoBytes]
    /\ count = 0 /\ retained = 0
    /\ announced = {}

Next ==
    \E c \in Connections :
        \/ /\ sessions[c] = NoSession
           /\ \E who \in Identities : AddSession(c, who) /\ Announces({})
        \/ RemoveSession(c) /\ Announces(KindsOf(registrations[c]))
        \/ \E d \in Definitions :
              (Register(c, d) \/ Unregister(c, d)) /\ Announces({d.kind})

Spec == Init /\ [][Next]_vars

-----------------------------------------------------------------------------
(* Properties *)

\* What each connected runtime holds.
Connected == {c \in Connections : sessions[c] # NoSession}
Holdings == [c \in Connected |-> Cardinality(registrations[c])]
Weights == [c \in Connected |-> TotalOf(bytes[c])]

\* The two counters that enforce the bridge's limits never drift from what the maps
\* hold, although each is kept by hand, clamped at zero, over two separate maps; so
\* the limits hold of what is registered, not just of the counters.
UsageExact ==
    /\ count = TotalOf(Holdings) /\ TotalOf(Holdings) <= MaxTotal
    /\ retained = TotalOf(Weights) /\ TotalOf(Weights) <= MaxBytesTotal
    /\ \A c \in Connections :
        /\ Cardinality(registrations[c]) <= MaxPerRuntime
        /\ TotalOf(bytes[c]) <= MaxBytesPerRuntime
        /\ \A d \in registrations[c] : bytes[c][d.id] = d.bytes

\* "Two tabs for the same app and Origin intentionally share the stable name"
\* (docs/bridge-protocol.md), and nothing else does: a target that has two providers
\* has them in two tabs of one application, so closing one of them resolves it.
AmbiguityOnlyBetweenTabs ==
    LET TwoTabs(providers) ==
            \A p, q \in providers :
                p # q => /\ p[1] # q[1]
                         /\ sessions[p[1]].instance # sessions[q[1]].instance
    IN  \A c \in Connections : \A d \in registrations[c] :
            /\ TwoTabs(Providers(d.kind, ExposedName(c, d)))
            /\ d.kind = "resource" => TwoTabs(UriProviders(ExposedUri(c, d)))

\* What each connection provides of a kind.
Provided(kind) == [c \in Connections |-> {d \in registrations[c] : d.kind = kind}]

\* An MCP client that listens for list changes misses none: a step that changes what
\* is provided of a kind emits the event of that kind, and of no other kind.
ChangesAnnounced ==
    [][\A k \in DefinedKinds : Provided(k)' # Provided(k) <=> k \in announced']_vars
=============================================================================
