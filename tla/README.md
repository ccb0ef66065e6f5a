# BrowserMCP: a TLA+ verification project

BrowserMCP lets an MCP client (an AI application) call tools, read resources and
get prompts that a web page has registered. A local Node process, the *bridge*,
stands between them: MCP over HTTP on one side, a WebSocket protocol with the tabs
on the other. In each tab a *web runtime* keeps a connection to the bridge, and a macOS
application may supervise the bridge's process. This directory models the state of
these programs, and checks and proves what they promise about it.

## 1. Inventory

| component | source | state | operations | talks to |
|---|---|---|---|---|
| Invocation broker | `bridge/src/broker.ts` | `#pending`, `#activeByConnection`, `#cancelled`, one timer and one abort listener per request | `invoke`, `resolve`, `rejectFromBrowser`, `cancelFromBrowser`, `disconnect`, `close`, timer, abort | MCP endpoint (caller), gateway (`send`, messages), recent requests |
| Recent requests | `bridge/src/recent-requests.ts` | the newest 100 requests with their outcome | `start`, `finish` | broker, state page |
| One-time tokens | `bridge/src/security.ts` | digests with grant and expiry | `issue`, `consumeIf`, `revokeAll`, `sweep` | gateway (pairing and resume tokens) |
| Capability registry | `bridge/src/registry.ts` | sessions, registrations, bytes per connection, two counters | `addSession`, `removeSession`, `register`, `unregister`, resolution | gateway (writes), MCP endpoint (reads, events) |
| Browser gateway | `bridge/src/browser-gateway.ts` | `#states`: socket, session, pending approval, timer, `lastSeenAt` per connection; two token stores; heartbeat | upgrade, connect (approval, pairing, resume), decide, expire, messages, close, heartbeat, stop | tabs, operator, registry, broker |
| MCP endpoint | `bridge/src/mcp-endpoint.ts` | coalesced notifications and their timer, streamed answers | `tools/call`, `resources/read`, `prompts/get`, lists | MCP clients, registry, broker |
| Bridge / HTTP | `bridge/src/bridge.ts`, `cli.ts`, `state-ui.ts` | `#activeHttpRequests` | routing, `handleMcp`, admin API, `close` | all of the above |
| Configuration | `bridge/src/config.ts` | limits | `normalizeBridgeConfig`, `configFromEnvironment` | gateway (the welcome announces limits) |
| Origins, log | `bridge/src/origins.ts`, `logger.ts` | a ring | | |
| Protocol | `packages/protocol/src` | none | validation, negotiation, message construction | bridge and web runtime |
| Web runtime | `packages/web/src/browser-mcp.ts` | connection state, handshake, session, registrations, pending replies, active invocations, reconnect timer | connect, disconnect, reconnect, register, messages, close | bridge, page, session store |
| macOS supervisor | `macOS/BrowserMCPApp/Model/BridgeService.swift` | process, state, generation, restart intent, deadlines, polling | start, stop, restart, ready, terminated, poll | bridge process |
| Demo storage | `site/src/runtime/storage.ts` | an IndexedDB store with a quota | put, get, delete, usage, upgrade, repair | other tabs and releases of the page |
| Demo cube | `site/src/runtime/rubiks-cube.ts` | cubies, a revision, a queue of moves, timers | apply, scramble, reset, autoplay, views, aborts | MCP callers and the page's keys |
| Demo controller and views | `site/src` | one web runtime | | web runtime |

### What is hard here

The bridge is one event loop, so a callback runs to its end; the difficulty is the
order of callbacks. Seven different events may settle one request. A socket that is
closing still delivers messages but accepts none. A tab that comes back resumes its
session on a new connection while the former one is half-open with requests in
progress. Approvals, handshakes, tokens and tombstones all expire. Counters are kept
by hand beside the maps they count. `PROJECT.json` lists each of these hazards at
its line, with the properties that would catch it going wrong. In the web runtime and
the macOS supervisor the hazards are of another kind: state read before an `await`
and used after it, while a disconnect, a close event, a timer or the exit of a process
comes in between; and both sides of the socket keep their own view of what is
registered and of what runs.

### What makes each component correct

- Broker: one owner and one terminal state for each request; an answer resolves
  only its own request; counters equal what they count; limits hold; every request
  settles; a closed connection leaves nothing.
- Tokens: a token admits once, until it expires, for the identity it was issued to;
  and only use, revocation, expiry or the cap take it away.
- Registry: exact accounting, limits, no ambiguity inside one tab, no list change
  without its event.
- Gateway: the three maps of connections agree; one connection acts for a runtime; a
  takeover is one step and leaves nothing of the former connection; a connected tab
  can always resume; approvals are bounded; nothing unauthenticated stays untimed; a
  silent tab is given up and a responsive one is not.
- HTTP front and MCP endpoint: the counter of requests is exact, and every listener
  hears of every change.
- Protocol and configuration: no accepted configuration makes a handshake fail, the
  highest common version is chosen, and what one message may carry the answer may too.
- Web runtime: one attempt at a time; the stored session is the current one; no
  reconnect after a rejection; a disconnect leaves nothing; every operation ends;
  registrations agree with the bridge's once both have said all.
- Supervisor: one bridge process, that can be reached and whose credentials are the
  ones shown; what was told to end ends.
- Demo storage: a write keeps the quota, evicts the oldest only, and says so. Demo cube:
  `expectedRevision` is compare-and-swap, a watched cube stops only by a scramble or a reset
  that is refused too late, and what clients read is a real cube.

## 2. Modules

| module | models | role |
|---|---|---|
| `InvocationLedger` | the promise of `docs/architecture.md` on forwarded requests | abstract specification |
| `Broker` | `broker.ts`, `recent-requests.ts` | implements `InvocationLedger` |
| `BrokerProofs` | | theorems on `Broker`, and that it implements `InvocationLedger` |
| `Tokens` | methods of `OneTimeTokenStore` as functions of its entries | used by `TokenStore` and `Gateway` |
| `TokenStore` | one store among arbitrary callers | |
| `TokenProofs` | | lemmas on `Tokens`, theorems on `TokenStore` |
| `Registry` | `registry.ts` | used alone and inside `Gateway` |
| `RuntimeOwnership` | the promise of `docs/bridge-protocol.md` on connections | abstract specification |
| `Gateway` | `browser-gateway.ts` composed with registry, broker, both token stores, the MCP handlers' `invoke` and the bridge's `close` | implements `RuntimeOwnership` and `Broker!Spec` |
| `GatewayProofs` | | theorems on `Gateway`, both refinements among them |
| `HttpFront` | the routes and slots of `bridge.ts`, the streams and notifications of `mcp-endpoint.ts` | |
| `Rules` | the rules of `validation.ts` that hold no others, as data | used by `Handshake` and `Wire` |
| `Handshake` | `negotiation.ts`, the limits of `config.ts`, the messages of both ends up to the welcome | |
| `Wire` | the rules of every message of `packages/protocol/src`, the values that come back in other messages | extends `Handshake` |
| `WebConnection` | the connection life cycle of `browser-mcp.ts` | |
| `WebConnectionProofs` | | theorems on `WebConnection` |
| `Conversation` | registrations and invocations of `browser-mcp.ts`, composed with the bridge's end over two FIFO channels | |
| `ConversationProofs` | | theorems on `Conversation` |
| `Supervisor` | `BridgeService.swift`, `LaunchResolver.swift`, the process of `cli.ts` | |
| `BridgePartsProofs` | | theorems on `Registry`, `HttpFront`, `Supervisor` and `Handshake` |
| `Storage` | `site/src/runtime/storage.ts` | |
| `Cube`, `CubeMoves` | `site/src/runtime/rubiks-cube.ts`: the queue, and the geometry of a move | |
| `SiteProofs` | | theorems on `Storage` and `Cube` |
| `Sums` | | lemmas on finite sets and on the community modules' total over one, for `BridgePartsProofs` and `SiteProofs` |
| `MCParts` | `Registry`, `TokenStore`, `HttpFront`, `Wire`, `Supervisor`, `Storage`, `Cube`, `CubeMoves` side by side: a behaviour picks one | instance for TLC |
| `MCWeb` | `WebConnection` and `Conversation` side by side | instance for TLC |
| `MCBroker`, `MCGateway` | | instances for TLC |

### How state and actions correspond to the code

*Broker.* `pending`, `active` and `cancelled` are `#pending`, `#activeByConnection`
and `#cancelled`; `calls` remembers every invocation with the outcome of its promise,
and a request's id is its position in it (`randomUUID` is a fresh name). `recent` is
`RecentRequestStore`. One action is one callback: `InvokeSent` and `InvokeUnsent`
(the send fails, and everything just taken is given back), `TimerFires`, `Abort`,
`Result`, `Error`, `CancelFromBrowser`, `LateMessage` (the three messages for a request
that is not pending), `Disconnect`, `Close`. A tombstone has an order because
`Map` iterates in insertion order and eviction takes the first. `link` is what
`BrowserSender.send` sees of a socket. An `invoke` that throws before it has an id
(a limit, an aborted signal) changes nothing and is no step.

*Tokens.* A token is the number of its issue. All tokens of one store live equally
long, so they expire in that order and the clock is one number, `expired`. The store
has operators instead of actions because the gateway calls several of its methods in
one callback; `TokenStore` makes them actions and adds what callers were answered.

*Registry.* The three maps by connection have the same keys; `sessions[c] = NoSession`
is an absent key. `ExposedName` and `ExposedUri` keep what the names are derived from
(Origin, application, normalized name or URI) rather than digests. `SafeName` is the
normalization as a constant function, so that two names may collide.

*Gateway.* `socket` is the WebSocket's `readyState`, `states` the keys of `#states`,
`session` and `approval` the fields of `SocketState`, `timer` what
`handshakeTimer` is armed for, `silent` the heartbeat ticks since `lastSeenAt`. The
tab behind a connection is a constant (`PageOf`): a tab's Origin and
identity do not change, and several connections may belong to one tab.
`Establish`, `Conflict`, `Retire` and `Rotated` are the shared parts of the three ways to
connect, in the order of the code: the token is consumed and the former connection
retired before the registry may refuse the session. `held` is the resume token a tab was
sent last; a welcome on a closing socket is not received. Any tab may present any
page's token (`ConnectResume(c, held[page])`), which covers tokens that are stale,
revoked or another identity's. What a message says beyond what the gateway decides on
is left out; its validation is a free choice between the action of the message and
`Refuse` or `Violation`.

*HTTP front.* A request passes the phases of `handleHttp` and `handleMcp`: reading its
body, fetching the SDK's answer, streaming, draining. `Route` is the whole decision table of the
routes over what they look at; `slots` is `#activeHttpRequests`. `stale` is a history
variable: what has changed since listeners were told. The SDK is external.

*Wire.* Every field of every message has a rule as data (`Payload`), and `Accepts` is the
validator. A value is its length, forms and number, not its characters. `Flows` lists the pairs of
fields where a value validated in one message is sent in another.

*Handshake.* It runs from the configuration (`Configure`) to the tab's check of the welcome
(`TabAnswers`). A meeting is what comes together: the configured limits, the versions the bridge
supports and the tab's connect, all of which may be of different releases. A version's
identifiers are numbers, the textual ones by their place among texts.

*Web runtime, connection.* `rt` is the object's fields, `attempts` the activations of
`#connectAttempt` with the `await` each is at, `disc` and `rec` those of
`disconnect` and `reconnect`, `queue` the operations behind `#sessionStoreTail`. Promise
continuations run before the next event, as microtasks do: an event is possible only when
none is ready (`Quiet`). `bridge` and the network are the environment.

*Web runtime, conversation.* `up` and `down` are the messages on the socket; `replies`
is `#pendingReplies`, `active` is `#activeInvocations`. The bridge is its routes and its pending
requests. `packages/web` and `bridge` count the same invocations independently.

*Supervisor.* A method runs to its end or to its next `await` on the main actor; what the
operating system reports is in `mail`, a set, because the tasks that the pipe's and the
process's handlers create are not ordered among each other. A launch is its `generation`.

*Storage.* An operation opens the database in one step and commits its transaction in another.
`Foreign` steps stand for whatever else of the Origin writes to the store: tabs of this
release, older releases, the developer tools. One tab with foreign steps therefore covers several.

*Cube.* A handler is an operator from cube to cube; a promise is the `phase` of its call. The
entries of a call share its signal, so an abort takes all of them in one step. Zero moves stand
for every list or length that is refused, and a call may come with any expected revision and with a
signal that is aborted already. `applyMoves` refuses before it changes anything. `scramble` checks its
length first, but its other options only after it has replaced the state, and `reset` checks its length
after it has: a refusal there (`Leaves`) keeps the solved state, has cancelled what was waiting, and
schedules nothing. The history variable `stopped` records that this took away the move under way.
`CubeMoves` follows
one of the 26 cubies, which do not interact, beside the stickers of a real cube (`places`), which
move by the meaning of the notation, a rotation about the face's normal, and not by the code.

## 3. Runs

All runs fix small constants; the bounds of the models are `MaxInvocations`, `MaxTime`,
`MaxIssued`, `MaxPairings`, `MaxConnects`, `MaxConnections`, `MaxCalls`, `MaxGenerations`,
`MaxForeign`, `MaxViews`, `MaxMoves` and `MaxRevision`. Deadlock is not checked: the models
stop when a bound is reached or, as the programs do, when everything is closed.

- **broker** (1.2 million states): two connections, three requests, two kinds of
  capability. Limits are 3 in all and 2 per runtime, one tombstone is kept (the code
  keeps at least 32) and two recent requests (the code: 100), so that eviction happens
  within three requests. The limits themselves are the subject of the proofs, for all
  values.
- **broker_fair**: two requests, one slot per connection, under fairness. `Broker`
  implements `InvocationLedger`, and every request settles.
- **gateway_sessions**: two connections of one tab and one of another; approvals,
  resumes with right and wrong tokens, heartbeats, closing, stop.
  Two connections of a tab are what a resume needs; the third brings the
  competition for approvals and a token of another identity.
- **gateway_routing**: two connections of one tab, a tool, a request, a pairing token:
  the composition of gateway, registry and broker. It checks `ImplementsOwnership`
  and `ImplementsBroker`: the gateway never does to the broker what the broker's own
  model, and its proofs, do not allow.
- **gateway_fair**: `AttemptsEnd` and `SilentSessionsEnd`.
- **gateway_heartbeat** (a violation is expected): see below.
- **web** (77,000 states). *Connection*: two attempts, one automatic reconnection, local network
  access prepared, one of every call of the application after the other: enough for an attempt and
  the one that follows, supersedes or waits for it, each with a socket, a handshake and
  store operations. `Eager` is FALSE: see the divergences. *Conversation*: two registrations, two
  connections, two register or unregister messages, two invocations with one slot: a registration
  may be added and removed, time out before its answer, and meet the loss of the connection
  and the next one; two invocations compete for the slot that a cancellation frees. Each of the two
  is a behaviour of its own. With two attempts the one that is rejected is never an automatic one;
  `RejectionEnds` proves `RejectionIsFinal` for any number. All the safety properties are proved for any number of these, but
  for those listed at the end of section 4.
- **web_eager**, **web_revoked**, **supervisor_restart**, **wire_version** (violations are expected): see below.
- **parts** (112,000 states), by part:
  - *Registry*: three connections, three identities (two tabs of one application and
    one of another Origin), five definitions that collide by id, by name after
    normalization, by URI and at each of the four limits;
  - *TokenStore*: a cap of two entries, four tokens, two grants: enough for eviction to
    race use and expiry;
  - *HttpFront*: two requests and one slot, two kinds of lists, every head of a request;
  - *Wire*, with *Handshake*: the configuration varies two limits at a time over the borders of the
    rules; or the two releases vary (every list of up to three of five versions, with
    pre-releases whose numeric and textual orders differ); or a value varies at the borders of
    the two rules of every pair in `Flows`;
  - *Supervisor*: two launches, so that the reports of one may arrive in the other; the
    proofs are for any number;
  - *Storage*: three keys, a store of two entries and three bytes, entries of up to two bytes and
    foreign records of three (an invalid record may be larger than any entry that `put`
    admits), two times so that the clock may step back, every schema at the start;
  - *Cube* (9,500 states): two calls of up to two moves, two views, revisions up to six; expected
    revisions that are the current one, the one after a replacement, an outdated one or none;
  - *CubeMoves*: each cubie in every orientation it can reach, under all 18 moves.

Every property has a mutant in `PROJECT.json`: an operator of the module, named
`<definition>_<what is wrong>`, that a plausible slip in the code would produce and
that makes TLC refute the property.

### Fairness

The broker's fair specification assumes that time passes and that Node runs a timer
that is due. The gateway's assumes that the handshake timer, the approval timer and the
heartbeat interval fire, that an approval's two minutes pass, and that `ws` ends a
socket that is closing (it destroys it after a closing timeout). Nothing is assumed
of tabs, of the operator, or of MCP callers, and not of the network: a tab may never
answer, and closing is not assumed of a socket the gateway has not closed.

The web runtime's assumes that what it awaits of the page ends (the session store,
`getToken`, the local network request), that its timers fire, that browsers close a
socket that is closing, and nothing of the bridge. Conversation's assumes timers only: neither a mute
bridge nor a handler that never returns keeps anything. The supervisor's assumes the main
actor and its timers, and nothing of the bridge process, which may ignore SIGTERM.
HttpFront's assumes that the SDK ends what was aborted and that the notification timer
fires; a client that stays connected and reads nothing may keep its slot.

### Divergences

`gateway_heartbeat` shows that the heartbeat may close a tab that was never asked.
`lastSeenAt` is set by the connect message. While the operator decides, heartbeats
skip the connection and the tab must not send. If the decision comes after 45 seconds,
the first heartbeat after it finds an old `lastSeenAt` and closes the session, unless
the tab has happened to send a registration in between. The protocol document describes the heartbeat as a
question that the receiver answers.

`supervisor_restart` shows that the macOS app's Restart only stops: when the old process has ended,
`processTerminated` calls `start()` in the state `stopping`, where `canStart` is false. No process is
launched and the state stays `stopping`, from which the interface offers no way out but quitting.
`macOS/README.md` says that a restart launches a fresh process.

`wire_version` shows that in a session of version 1.0.0 all of the bridge's messages but the
welcome and the errors name 1.1.0, since `createBridgeMessage` is called without a version.
`docs/bridge-protocol.md` says that `version` is the selected one after the handshake; a runtime that supports
1.0.0 only, and validates as this release does, refuses the first of them.

`web_eager` lets the application call `connect` while the socket of a failed attempt is still
closing. The close event of that socket is then handled as if it belonged to the new attempt, and
schedules a reconnection; the timer begins an attempt without looking for one to join.
Two attempts are in progress, and `disconnect` no longer knows the first. With `Eager = TRUE`,
`DisconnectForgets` is violated too. The other runs set `Eager` FALSE, which means an
application that waits for the former socket to close.
`packages/web/README.md` promises that overlapping calls share one operation and that an old
operation does not overwrite the state of a new one.

`web_revoked` was found when `RejectionIsFinal` was to be proved for any number of attempts; it needs three,
where the run had two. An attempt of the reconnection timer is welcomed, and its registrations are
still unanswered when the bridge sends a `disconnect` with `canResume: false`. The runtime
notes that the close is not to be followed by a reconnection. But the close event uses that note
up, and settles the handshake with a retryable error; the timer's handler of a failed attempt then
schedules another. `packages/web/README.md` says that such a disconnect is not followed by
an automatic reconnection, and `bridge/README.md` that a tab must wait for fresh pairing. What is
refused at the handshake is final: `RejectionIsFinal`.

One more was met and is a hazard without a run of its own: a subscriber that registers while it is told
of the state `connected` sends its registration, which the loop over the stored registrations
then sends again. The bridge refuses the second and keeps the first, and the runtime takes the
capability for rejected. With `ListenerRegisters = TRUE`, `RegistrationsAgree` is violated; the
run sets it FALSE.

And one of the demo: `scramble` refused for its `expectedRevision` or its signal, and `reset` refused for its
length, have replaced the cube and cancelled its moves by then, and a watched cube stands still until something
schedules autoplay. With `scramble` the revision is compared after the replacement has raised it, so it does
not protect the state that the caller saw. No document says otherwise, and the site's tools and views pass no
revision to `scramble` and check the length that they pass to `reset`; `QueueSound` states it as it is.

## 4. Proofs

The theorems hold for every value of the constants that the named assumptions admit: any set
of connections, tabs, kinds and definitions, any limits, and any bound on how long a behaviour is.
The assumptions (`BrokerAssumption`, `TokensAssumption`, `TokenStoreAssumption`,
`RegistryAssumption`, `GatewayAssumption`, `FrontAssumption`, `SupervisorAssumption`,
`WebConnectionAssumption`, `ConversationAssumption`, `StorageAssumption`, `CubeAssumption`,
`HandshakeAssumption`) say that limits
and bounds are naturals, that those the code divides by or waits for are positive, that a tab has one
identity, that the largest entry the demo's storage admits fits its quota by itself, and that a bridge
supports some version. Each run evaluates those of its modules.

| module | theorem | property |
|---|---|---|
| `BrokerProofs` | `TypeCorrect` | `TypeOK`, with the bounds of the two bounded maps |
| | `CountersExact` | `ActiveMatchesPending` |
| | `CapacityNeverExceeded` | `CapacityRespected` |
| | `NoOrphanedCall` | `PendingIffUnsettled` |
| | `AnswersFromOwner` | `AnswerIsOwners` |
| | `RecentListTruthful` | `RecentAgrees` |
| | `TombstonesOnlyForGivenUp` | `TombstonesSound` |
| | `OneTerminalState` | `ImplementsLedger`: `Spec => Ledger!Spec` |
| `TokenProofs` | `TokensAdmitOnce`, `TokensKept` | `ConsumedOnce`, `NoTokenLost` |
| `BridgePartsProofs` | `NamesSharedByTabsOnly` | `AmbiguityOnlyBetweenTabs` |
| | `EveryChangeAnnounced` | `ChangesAnnounced` |
| | `LimitsCountWhatIsHeld` | `UsageExact` |
| | `SlotsNeverLeak` | `SlotsExact` |
| | `NoticesComing` | the safety half of `FrontProgress` |
| | `NeverTwoBridges`, `NoStaleCredentials` | `OneReachableBridge`, `CredentialsAreCurrent` |
| | `EveryHandshakeFits` | `HandshakeSound` |
| `GatewayProofs` | `ApprovalsLimited` | `ApprovalsBounded` |
| | `RetirementReplaces` | `RetiredIsReplaced` |
| | `ResumptionReady` | `ResumeReady` |
| | `MapsNeverDisagree` | `MapsAgree` |
| | `GatewayUsesBroker` | `ImplementsBroker`: `Spec => Broker!Spec` |
| | `OneOwnerPerRuntime` | `ImplementsOwnership`: `Spec => Ownership!Spec` |
| | `BrokerPromisesKept` | what is proved of `Broker`, of the broker in the gateway |
| `WebConnectionProofs` | `FieldsTellTheTruth` | the inductive invariant |
| | `AttemptsOneByOne`, `NothingLeft` | `OneAttempt`, `DisconnectForgets` |
| | `StoredSessionIsCurrent` | `StoredIsCurrent` |
| | `RejectionEnds` | `RejectionIsFinal` |
| `ConversationProofs` | `RoutesAreHandlers` | `RegistrationsAgree` |
| | `EveryInvocationFits` | `InvocationsAccepted` |
| `SiteProofs` | `WritesKeepTheQuota` | `PutKeepsQuota` |
| | `CallsWaitForTheirMoves` | `QueueSound` |

### The arguments

*Broker.* The inductive invariant is `IInv == RequestInv /\ TombstoneInv /\ ClockInv`. Counters
alone are not inductive: `Released` subtracts the number of settled requests of a
connection and clamps at zero, so that the result is exact only if it was exact before
and the settled requests were pending; capacity follows from exact counters and the
guard of `invoke`; and both need pending sets to be finite, which needs
`PendingIffUnsettled` (pending requests are positions in a finite sequence). Every way
to settle goes through `Settle`, so its effect on each conjunct is one lemma
(`SettleCalls`, `SettleActive`, `SettleRequestInv`) that the actions cite. The bound on
tombstones rests on `NewestBound`: among finitely many tombstones with distinct orders,
those with fewer than n newer ones are at most n. `RecordInv`, the recent list and the
tombstones, is inductive once `IInv` is known. The refinement maps a request to its entry in the
ledger: every action that settles is a `Settle` step of the ledger for the requests it settles, or,
when it settles none, a stutter.

*Tokens.* The lemmas on the methods say which entries each of them leaves. The
cap costs only the oldest because a store is `Numbered`, by tokens up to the last one issued and each once;
what is evicted by an `issue` therefore has a capful of newer ones, and that stays so.

*Registry.* `RegistryInv` keeps what `register` and `addSession` refuse: two registrations of a
connection differ in all that they could be named by, and a runtime is connected once. Two
providers of one name are then on two connections whose names agree in Origin and application,
hence in two instances of it. Its announcements are an action property: `Provided(kind)` changes only in
`register`, `unregister` and `removeSession`, each with the event of every kind it touches.
`UsageExact` says that the counters kept by hand are totals: of the bytes of a connection's registrations, and of
the numbers and bytes of all connections. Each call changes what one connection holds, so a lemma on the total
of a function changed at one point (`SumChange` in `Sums`) gives the new totals, and `Forget`,
which subtracts and clamps at zero, is exact because what it subtracts was part of the total.

*Totals.* The lemmas on `Sums` are about the fold of the community modules. They need an induction over
finite sets, which the library states with an operator as a parameter, so it is done here by
the smallest counterexample (`SmallestSet`): a finite set of finite sets has a member none of
whose parts is another. The recursive functions along a sequence in `Cube` are handled in the same way, by
the smallest number.

*Gateway.* `ConnectionInv` says that a session is on a connection that is listened to, known to the
registry under the page that began it, without an approval, and that no other acts for the
same runtime. Every action is one of six kinds of step to these maps (`Quiet`, `Asks`, `Arrives`,
`Leaves`, `Changes`, `Enters`), so each invariant is shown once for each kind. The two facts
that are not local are proved together with it: a resume token grants only what the connection
that began the session had (`TokensInv`), so a takeover does not change who a session belongs to;
and requests in progress are of connections that act (`WorkInv`). Then every step of the gateway
is shown to be a step of `Broker` or to leave the broker alone, including those that call it twice in
one callback (`DisconnectAgain`: a second disconnect of a closed connection finds nothing). This
brings the broker's theorems to the gateway, by `INSTANCE BrokerProofs`, and with
them each step is a step of `RuntimeOwnership` or a stutter.

The attempt to prove `ResumeReady` corrected it. It used to say that a connected tab's last token is
held until it expires, which is false under the store's cap: it may be evicted. The runs did not
reach that many issues. It now names that case, a capful of newer tokens, which is what the
token store guarantees.

*HTTP front.* A request holds a slot in the phases between admission and the end of its response. Each
action moves one request into these phases, out of them or within them, with the counter.

*Supervisor.* `OneReachableBridge` is about the launch the service names; what makes it inductive
(`LaunchInv`) is about those it has forgotten: one that is still being prepared has no process, one to
come has none, and a process reported to have ended has ended. The report then clears
the name of a process only when that one is dead, and a new launch starts only when none is named.

*Handshake.* The code's comparison is three nested ones that look for the first difference, and the
specification of semver says which of two versions precedes field by field. `CompareFields` is the
first difference once for all, from any comparison of single fields whose answers are opposite and chain; with
`IdentifierOrder` and `PrereleaseOrder` it gives `VersionOrder`, that `CompareVersions` orders any two versions and chains, and
`HigherIsGreater`, that it is the specification's. A greatest common version then exists
(`NegotiatedIs`: the ones below it are the most there are) and is the one chosen. The limits are
arithmetic: each that `normalizeBridgeConfig` lets through lies within the rule of the field that
announces it (`LimitsAnnounced`), so the welcome is never refused after the session is registered.

*Web runtime.* Nothing in the code checks that no other attempt is in progress when one
begins. `ConnInv` says why there is none: an attempt in progress is the one `#connectPromise` and
`#connectAbort` name, and before its handshake there is no socket (`Known`); the timer is set only when
no socket is left and the attempt is ending (`TimerInv`); what `disconnect` and `reconnect`
took down stays down until they go on, because `manual` keeps each close event from scheduling a
reconnection (`Down`); and a connect that resumes after a disconnect finds an attempt to join or
no socket (`QueuedInv`). The hypothesis is `~Eager`; `web_eager` shows that it is needed.
Within one step the fields change several times (a failure, its rejection of the
handshake, the clearing of the session), so the synchronous parts have lemmas of their own
(`RejectedFacts`, `FailedFacts`, `DroppedFacts`...), and each action composes them.

`StoredIsCurrent` compares a connected session with what the queue of storage operations will leave.
What has to be excluded is an operation of an earlier attempt that comes last. `StoreInv` says why
there is none: the save that may still complete a handshake is the last operation of the queue, because
its attempt has read the store before, behind whatever earlier ones had left (`Saves`); an attempt that
has not read yet is behind them too (`Standing`); `disconnect` and `reconnect` settle the handshake
they find (`Settled`); and whoever is connected has its session in the store and nothing
behind it, until the bridge takes the session back (`ConnectedInv`). Steps that begin nothing keep
it for one reason, which is a lemma of its own (`Calm`).

`RejectionIsFinal` rests on `FinalInv`, for any number of attempts. While the bridge has not answered on
a socket, the handshake of its attempt waits (`AskingInv`), so a rejection always finds a handshake to end, and
`#refuse` never returns early. The attempt then ends for good, and the close of its socket finds
the reconnection suppressed; until another attempt is begun, no reconnection is scheduled (`RefusedInv`), for whoever
could schedule one is the latest attempt (`LatestInv`), and that one is the rejected one. What a
revocation lacks (`web_revoked`) is the first of these: its attempt ends with a retryable error.

*Conversation.* Both properties speak of moments when nothing is on its way, or of the next message; the
inductive invariant (`TalkInv`) is about what is. Calls are handled and answered in the order of
their ids (`OrderInv`), each call waited for is still to be handled or its reply to arrive
(`WaitingInv`), and a registration is asked for once in a connection, before anything else is said of
it (`AskedInv`). Where the client does not yet know what the bridge has done, a reply on its way
tells it (`RoutesInv`); a call that has timed out is waited for no more, and its reply, if it says that
something was done, ends the connection, which is why a late confirmation cannot leave a route without a
handler. For the slots, `SlotsInv` counts for each invocation on its way those that the bridge waited
for, or had given up without the client's having heard, when it sent it: they were within the limit, and
all that runs at the client is among them. The hypothesis is `~ListenerRegisters`: with such a subscriber one
registration is asked for twice, and `AskedInv` fails first.

*Storage.* What a `put` keeps is stated by `PutKeepsQuota` for whatever the store holds when its transaction runs,
because other tabs write between the opening and the commit, and beyond the quota if they are of another release.
`Older` orders records strictly because a store has one record for each key (`StoreInv`), so the
entries that survive are a tail of that order: the longest that fits (`KeptIs`). Such a tail exists because the
new entry fits by itself (`OneFits`), which is where the assumption on the largest entry is used.

*Cube.* The move in progress and the queue are one line of moves (`Line`). `CubeInv` says for each call that
it waits for exactly the moves it has in the line (`CallSound`), and that a call which expects a revision is ahead
of all others in it (`Ahead`) and expects the current one. A commit takes the head of the line (`CommitHead`) and raises
the revision, which no other call may expect then; an abort takes one call out (`WithoutKeeps`) and leaves the rest
in order; and moves without an animation are committed in a row when they come to the head (`StartNextLined`).
Autoplay begins a move of nobody's only in an idle cube, and whatever call comes first stops it.
A watched cube has its timer, a move under way, or `stopped`, which only `Leaves` sets
(`LeftInv`) and only in a cube that is idle and has no timer; every handler that schedules ends it.

### Only model-checked

- Liveness: `EveryCallSettles`, `AttemptsEnd`, `SilentSessionsEnd`, `OperationsEnd`, `WorkEnds`,
  `ToldToEndEnds`, `FrontProgress` (fairness and `ENABLED` are out of the prover's reach).
- `ValuesCarry`: `Wire` interprets rules within rules with RECURSIVE operators, so nothing can be
  proved in a module that reaches it; the run takes the texts about the limits of both rules, with
  and without the form each asks for, which is all that tells two of these rules apart.
- `FaceletsReal` is an enumeration of a finite geometry, which the run exhausts.
- `HeartbeatSparesResponsive`, `VersionKept`, `RestartStartsAgain`, `RevocationIsFinal`, and `OneAttempt` with
  `Eager`, are false.

## 5. Not modelled, and the plan

Not modelled by choice: rendering, the texts of messages and logs, paths and TLS files of the configuration,
the ring of the log, the normal form of Origins; random ids and digests are fresh
names. The demo's documentation, translations and views are sequential; its controller
calls the web runtime's operations and adds no protocol of its own (what may go wrong when its
operations overlap is among the hazards). The macOS views render what `Supervisor` has. IndexedDB,
WebSocket, the MCP SDK and the operating system's processes are external, and modelled by how the code uses them.

The models that are done are those of section 2, and the safety properties of the runs are proved but for those
named above. Left: `ValuesCarry` for every value, which needs the rules at a path without recursion; and an
order of versions that includes build metadata, should a release ever carry it.
