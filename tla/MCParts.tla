------------------------------ MODULE MCParts -------------------------------
(***************************************************************************)
(* The parts that need no other to be checked, side by side for TLC: a     *)
(* behaviour picks one of Parts, and the others stay where they start.     *)
(***************************************************************************)
EXTENDS Registry, TokenStore, HttpFront, Wire, Supervisor, Storage, Cube, CubeMoves

CONSTANT Parts

VARIABLE part   \* the one that moves

parts == <<vars, storeVars, frontVars, wireVars, serviceVars, databaseVars, cubeVars, turnVars,
           part>>

\* Where the parts with several initial states stay.
WireRests == Begins(AnyMeeting) /\ flow = AnyFlow /\ sample = AnySample
DatabaseRests ==
    /\ schema = "current" /\ records = {} /\ held = FALSE /\ pending = "nothing"
    /\ op = [t \in Tabs |-> NoOp] /\ foreign = 0
TurnRests ==
    /\ cubie = [home |-> <<1, 1, 1>>, position |-> <<1, 1, 1>>, basis |-> IdentityBasis]
    /\ places = [f \in Stickers(cubie.home) |-> [at |-> cubie.home, normal |-> Normal[f]]]

PartsInit ==
    /\ part \in Parts
    /\ Init /\ StoreInit /\ FrontInit /\ ServiceInit /\ CubeInit
    /\ IF part = "wire" THEN WireInit ELSE WireRests
    /\ IF part = "storage" THEN DatabaseInit ELSE DatabaseRests
    /\ IF part = "moves" THEN TurnInit ELSE TurnRests

PartsNext ==
    /\ UNCHANGED part
    /\ \/ /\ part = "registry" /\ Next
          /\ UNCHANGED <<storeVars, frontVars, wireVars, serviceVars, databaseVars, cubeVars,
                       turnVars>>
       \/ /\ part = "tokens" /\ StoreNext
          /\ UNCHANGED <<vars, frontVars, wireVars, serviceVars, databaseVars, cubeVars,
                       turnVars>>
       \/ /\ part = "front" /\ FrontNext
          /\ UNCHANGED <<vars, storeVars, wireVars, serviceVars, databaseVars, cubeVars,
                       turnVars>>
       \/ /\ part = "wire" /\ WireNext
          /\ UNCHANGED <<vars, storeVars, frontVars, serviceVars, databaseVars, cubeVars,
                       turnVars>>
       \/ /\ part = "supervisor" /\ ServiceNext
          /\ UNCHANGED <<vars, storeVars, frontVars, wireVars, databaseVars, cubeVars,
                       turnVars>>
       \/ /\ part = "storage" /\ DatabaseNext
          /\ UNCHANGED <<vars, storeVars, frontVars, wireVars, serviceVars, cubeVars, turnVars>>
       \/ /\ part = "cube" /\ CubeNext
          /\ UNCHANGED <<vars, storeVars, frontVars, wireVars, serviceVars, databaseVars,
                       turnVars>>
       \/ /\ part = "moves" /\ TurnNext
          /\ UNCHANGED <<vars, storeVars, frontVars, wireVars, serviceVars, databaseVars,
                       cubeVars>>

PartsSpec == PartsInit /\ [][PartsNext]_parts /\ FrontFairness /\ ServiceFairness

-----------------------------------------------------------------------------
(* Registry: three tabs that may belong to two applications, and definitions *)
(* that collide in each way that register refuses: by id, by name after      *)
(* normalization, by URI, by each limit.                                     *)

CONSTANTS c1, c2, c3
MCConnections == {c1, c2, c3}
MCIdentities ==
    {[origin |-> "o", app |-> "a", instance |-> 1],
     [origin |-> "o", app |-> "a", instance |-> 2],
     [origin |-> "p", app |-> "a", instance |-> 1]}
MCDefinitions ==
    {[id |-> "r1", kind |-> "tool", name |-> "x y", uri |-> "", bytes |-> 1],
     [id |-> "r2", kind |-> "tool", name |-> "x_y", uri |-> "", bytes |-> 2],
     [id |-> "r3", kind |-> "resource", name |-> "x_y", uri |-> "u", bytes |-> 1],
     [id |-> "r4", kind |-> "resource", name |-> "z", uri |-> "u", bytes |-> 2],
     [id |-> "r2", kind |-> "prompt", name |-> "z", uri |-> "", bytes |-> 1]}
MCSafeName == [name \in {"x y", "x_y", "z"} |-> IF name = "x y" THEN "x_y" ELSE name]

-----------------------------------------------------------------------------
(* Wire: five versions, three of them pre-releases; tabs that list up to     *)
(* three; the limits that reach the tab, at the borders of its rules.        *)

Num(n, t) == [numeric |-> TRUE, value |-> n, text |-> t]
Word(t) == [numeric |-> FALSE, value |-> 0, text |-> t]
Ver(a, b, c, pre) == [core |-> <<a, b, c>>, pre |-> pre]
MCVersions ==
    {Ver(1, 1, 0, <<>>), Ver(1, 0, 0, <<>>), Ver(1, 0, 0, <<Word(3)>>),
     Ver(1, 0, 0, <<Word(3), Num(2, 2)>>), Ver(1, 0, 0, <<Word(3), Num(10, 1)>>)}
MCListings == {s \in UNION {[1..k -> MCVersions] : k \in 1..3} : IsInjective(s)}
MCHellos ==
    {h \in [versions : MCListings, envelope : MCVersions, complete : BOOLEAN,
            auth : {"approval", "token"}] : h.envelope \in ToSet(h.versions)}
MCReleases ==
    {<<Ver(1, 1, 0, <<>>), Ver(1, 0, 0, <<>>)>>,
     <<Ver(1, 0, 0, <<Word(3), Num(10, 1)>>), Ver(1, 0, 0, <<Word(3), Num(2, 2)>>),
       Ver(1, 0, 0, <<>>)>>}
MCVarying ==
    {"maxWebSocketPayloadBytes", "maxConcurrentRequestsPerRuntime", "maxConcurrentRequests",
     "browserRequestTimeoutMs"}
MCValues == {0, 1, 1023, 1024, 10000, 10001, 600000, 600001, 1048576, 1048577}
MCLimits ==
    {[DefaultLimits EXCEPT ![m] = v, ![n] = w] :
        m \in MCVarying, n \in MCVarying, v \in MCValues, w \in MCValues}
\* One of the two varies: the configuration or the releases.
MCMeetings ==
    {[limits |-> l, release |-> h.versions, hello |-> h] :
        l \in MCLimits, h \in {CHOOSE h \in MCHellos : h.complete}}
    \cup [limits : {DefaultLimits}, release : MCReleases, hello : MCHellos]
=============================================================================
