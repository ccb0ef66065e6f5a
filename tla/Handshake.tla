----------------------------- MODULE Handshake ------------------------------
(***************************************************************************)
(* How a connection gets its version and its limits: the negotiation       *)
(* (packages/protocol/src/negotiation.ts), the checks of a configuration   *)
(* (bridge/src/config.ts), and the messages up to the tab's check of the   *)
(* welcome.  The tab may be of another release than the bridge.            *)
(***************************************************************************)
EXTENDS Rules, SequencesExt

CONSTANT Meetings  \* of a bridge and a tab

-----------------------------------------------------------------------------
(* Versions.  A pre-release is a sequence of identifiers, a numeric one a    *)
(* number and another its place among texts; NoPre is none.                  *)

NoPre == <<>>

\* comparePrereleaseIdentifier, comparePrerelease and compareVersions: minus
\* one, zero or one.
Sign(a, b) == IF a < b THEN -1 ELSE IF a > b THEN 1 ELSE 0
CompareIdentifier(a, b) ==
    IF a.numeric = b.numeric THEN Sign(IF a.numeric THEN a.value ELSE a.text,
                                       IF a.numeric THEN b.value ELSE b.text)
    ELSE IF a.numeric THEN -1 ELSE 1

ComparePrerelease(a, b) ==
    LET shared == 1 .. (IF Len(a) < Len(b) THEN Len(a) ELSE Len(b))
        differs == {i \in shared : CompareIdentifier(a[i], b[i]) # 0}
    IN  IF a = NoPre \/ b = NoPre THEN IF a = b THEN 0 ELSE IF a = NoPre THEN 1 ELSE -1
        ELSE IF differs = {} THEN Sign(Len(a), Len(b))
        ELSE LET i == CHOOSE i \in differs : \A j \in differs : i <= j
             IN  CompareIdentifier(a[i], b[i])

CompareVersions(v, w) ==
    LET differs == {i \in 1..3 : v.core[i] # w.core[i]}
    IN  IF differs = {} THEN ComparePrerelease(v.pre, w.pre)
        ELSE LET i == CHOOSE i \in differs : \A j \in differs : i <= j
             IN  Sign(v.core[i], w.core[i])

\* negotiateProtocolVersion: the last of the common ones in order.
Common(remote, local) == {i \in DOMAIN remote : \E j \in DOMAIN local : local[j] = remote[i]}
Negotiated(remote, local) ==
    remote[CHOOSE i \in Common(remote, local) :
              \A j \in Common(remote, local) :
                  LET c == CompareVersions(remote[j], remote[i]) IN c < 0 \/ (c = 0 /\ j <= i)]

-----------------------------------------------------------------------------
(* Configuration.                                                           *)

MaxProtocolInvocations == 10000

DefaultLimits ==
    [browserHandshakeTimeoutMs |-> 5000, browserRequestTimeoutMs |-> 30000,
     httpHeadersTimeoutMs |-> 10000, httpKeepAliveTimeoutMs |-> 5000,
     httpRequestTimeoutMs |-> 30000, maxBrowserConnections |-> 16, maxConcurrentRequests |-> 64,
     maxConcurrentRequestsPerRuntime |-> 8, maxHttpBodyBytes |-> 1048576,
     maxHttpConnections |-> 128, maxMcpSubscriptions |-> 64,
     maxRegistrationBytesPerRuntime |-> 2097152, maxRegistrationBytesTotal |-> 16777216,
     maxRegistrationsPerRuntime |-> 256, maxRegistrationsTotal |-> 2048,
     maxWebSocketPayloadBytes |-> 1048576, pairingTokenTtlMs |-> 120000,
     resumeTokenTtlMs |-> 300000, uiSessionTtlMs |-> 3600000]

\* The limits without a variable of the environment.
Fixed == {"browserHandshakeTimeoutMs", "maxBrowserConnections", "pairingTokenTtlMs",
          "resumeTokenTtlMs", "uiSessionTtlMs"}

\* positiveInteger, and configFromEnvironment's own comparisons.
FromEnvironment(limits) ==
    /\ \A n \in DOMAIN limits \ Fixed : limits[n] \in 1 .. MaxSafeInteger
    /\ \A n \in Fixed : limits[n] = DefaultLimits[n]
    /\ limits.httpHeadersTimeoutMs <= limits.httpRequestTimeoutMs
    /\ limits.maxRegistrationsPerRuntime <= limits.maxRegistrationsTotal
    /\ limits.maxRegistrationBytesPerRuntime <= limits.maxRegistrationBytesTotal

\* normalizeBridgeConfig
Positive(limits) == \A n \in DOMAIN limits : limits[n] \in 1 .. MaxSafeInteger
Normalizes_PerRuntimeUnlimited(limits) ==
    /\ Positive(limits)
    /\ limits.httpHeadersTimeoutMs <= limits.httpRequestTimeoutMs
    /\ limits.maxConcurrentRequestsPerRuntime <= limits.maxConcurrentRequests
    /\ limits.browserRequestTimeoutMs <= MaxTimeout
    /\ limits.maxWebSocketPayloadBytes \in 1024 .. MaxStringLength
    /\ limits.maxRegistrationsPerRuntime <= limits.maxRegistrationsTotal
    /\ limits.maxRegistrationBytesPerRuntime <= limits.maxRegistrationBytesTotal
Normalizes(limits) ==
    /\ Positive(limits)
    /\ limits.httpHeadersTimeoutMs <= limits.httpRequestTimeoutMs
    /\ limits.maxConcurrentRequestsPerRuntime <= limits.maxConcurrentRequests
    /\ limits.maxConcurrentRequestsPerRuntime <= MaxProtocolInvocations
    /\ limits.browserRequestTimeoutMs <= MaxTimeout
    /\ limits.maxWebSocketPayloadBytes \in 1024 .. MaxStringLength
    /\ limits.maxRegistrationsPerRuntime <= limits.maxRegistrationsTotal
    /\ limits.maxRegistrationBytesPerRuntime <= limits.maxRegistrationBytesTotal

\* What the welcome may announce.
Limits == Object([maxMessageBytes |-> Whole(1024, MaxStringLength),
                  maxConcurrentInvocations |-> Whole(1, 10000),
                  requestTimeoutMs |-> Whole(1, MaxTimeout)], None)

-----------------------------------------------------------------------------
(* The handshake.                                                           *)

\* Of a bridge that has these limits configured and supports these versions, its own
\* first, and a tab that sends this connect.
PreIdentifier == [numeric : BOOLEAN, value : Nat, text : Nat]
Versions == [core : [1..3 -> Nat], pre : Seq(PreIdentifier)]
Hello == [versions : Seq(Versions), envelope : Versions, complete : BOOLEAN,
          auth : {"approval", "token"}]
Meeting == [limits : [DOMAIN DefaultLimits -> Int], release : Seq(Versions), hello : Hello]

ASSUME HandshakeAssumption ==
    /\ MaxSafeInteger \in Nat
    /\ \A s \in Meetings : s \in Meeting /\ s.release # <<>>

VARIABLES
    limits,    \* the configuration's
    release,   \* the versions the bridge supports
    hello,     \* the tab's connect
    stage,     \* "configured", "listening", "approving", "welcoming", "welcomed",
               \* "connected"; or ended: "refused", "closed", "threw", "declined"
    selected,  \* the negotiated version
    message    \* the bridge's last message: [type, version]

given == <<limits, release, hello>>
handshakeVars == <<given, stage, selected, message>>

NoMessage == [type |-> "none", version |-> [core |-> <<0, 0, 0>>, pre |-> NoPre]]

Begins(s) ==
    /\ limits = s.limits /\ release = s.release /\ hello = s.hello
    /\ stage = "configured" /\ selected = NoMessage.version /\ message = NoMessage
HandshakeInit == \E s \in Meetings : Begins(s)

Says(type, version) == message' = [type |-> type, version |-> version]

Configure ==
    /\ stage = "configured"
    /\ \E fromEnvironment \in BOOLEAN :
          stage' = IF (fromEnvironment => FromEnvironment(limits)) /\ Normalizes(limits)
                   THEN "listening" ELSE "refused"
    /\ UNCHANGED <<given, selected, message>>

\* What connect requires before it looks at the credential.
Versioned == hello.envelope \in ToSet(release) /\ Common(hello.versions, release) # {}
MayAsk(version) == hello.auth # "approval" \/ version.core # <<1, 0, 0>> \/ version.pre # NoPre

Connect ==
    /\ stage = "listening"
    /\ LET version == Negotiated(hello.versions, release)
       IN  IF Versioned /\ hello.complete /\ MayAsk(version)
           THEN /\ selected' = version
                /\ IF hello.auth = "approval"
                   THEN stage' = "approving" /\ Says("approval_required", version)
                   ELSE stage' \in {"closed", "welcoming"} /\ UNCHANGED message
           ELSE stage' = "closed" /\ Says("error", release[1]) /\ UNCHANGED selected
    /\ UNCHANGED given

Decide ==
    /\ stage = "approving"
    /\ stage' \in {"closed", "welcoming"}
    /\ UNCHANGED <<given, selected, message>>

NumberOf(n) == [sort |-> "number", value |-> n, whole |-> TRUE]

\* What establishSession puts on the wire of the configuration.
AnnouncedLimits ==
    [sort |-> "object", tag |-> "limits",
     fields |-> [maxMessageBytes |-> NumberOf(limits.maxWebSocketPayloadBytes),
                 maxConcurrentInvocations |-> NumberOf(limits.maxConcurrentRequestsPerRuntime),
                 requestTimeoutMs |-> NumberOf(limits.browserRequestTimeoutMs)]]

\* createBridgeMessage throws what its own rules refuse.
Welcome ==
    /\ stage = "welcoming"
    /\ IF Flat(Limits, AnnouncedLimits)
       THEN stage' = "welcomed" /\ Says("welcome", selected)
       ELSE stage' = "threw" /\ UNCHANGED message
    /\ UNCHANGED <<given, selected>>

\* parseBridgeMessage and onWelcome, in the tab.
TabAnswers ==
    /\ stage = "welcomed"
    /\ stage' = IF message.version \in ToSet(hello.versions) /\ message.version = selected
                THEN "connected" ELSE "declined"
    /\ UNCHANGED <<given, selected, message>>

\* Of the bridge's messages in a session, its errors alone name a version.
Talks(type) ==
    /\ stage = "connected" /\ message.type # type
    /\ Says(type, IF type = "error" THEN selected ELSE release[1])
    /\ UNCHANGED <<given, stage, selected>>

SessionMessages == {"registered", "unregistered", "invoke", "cancel", "ping", "pong", "disconnect",
                    "error"}

HandshakeNext ==
    \/ Configure \/ Connect \/ Decide \/ Welcome \/ TabAnswers
    \/ \E type \in SessionMessages : Talks(type)

HandshakeSpec == HandshakeInit /\ [][HandshakeNext]_handshakeVars

-----------------------------------------------------------------------------
(* Properties.                                                              *)

\* The version that semver puts highest: no other common one precedes it in the
\* sense of the specification's own wording, field by field.
Higher(v, w) ==
    LET Before(a, b) ==
            IF a.numeric /\ b.numeric THEN a.value < b.value
            ELSE (a.numeric /\ ~b.numeric) \/ (~a.numeric /\ ~b.numeric /\ a.text < b.text)
    IN  \/ \E i \in 1..3 : v.core[i] > w.core[i] /\ \A j \in 1..(i - 1) : v.core[j] = w.core[j]
        \/ /\ v.core = w.core
           /\ \/ v.pre = NoPre /\ w.pre # NoPre
              \/ /\ v.pre # NoPre /\ w.pre # NoPre
                 /\ \/ IsStrictPrefix(w.pre, v.pre)
                    \/ \E i \in DOMAIN v.pre \cap DOMAIN w.pre :
                          /\ Before(w.pre[i], v.pre[i])
                          /\ \A j \in 1..(i - 1) : v.pre[j] = w.pre[j]

\* A tab that offers a common version, all capabilities and a credential of that
\* version gets a session at the highest common version, whatever configuration the
\* bridge accepted: no configuration reaches the point where the welcome is refused by
\* the bridge's own rules, with the session already registered, or by the tab.
HandshakeSound ==
    /\ stage \notin {"threw", "declined"}
    /\ stage \in {"approving", "welcoming", "welcomed", "connected"} =>
         LET common == ToSet(hello.versions) \cap ToSet(release)
         IN  /\ selected \in common
             /\ \A v \in common : ~Higher(v, selected)
             /\ hello.complete

\* "version is the selected exact wire version after the handshake"
\* (docs/bridge-protocol.md:57).
VersionKept == stage = "connected" => message.version = selected
=============================================================================
