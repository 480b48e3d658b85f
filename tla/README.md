# homelab-apps in TLA+

TLA+ models of the parts of this monorepo whose correctness depends on order: what happens
between two `await`s, what a crash leaves behind, what a late answer does. Paths below are
relative to the repository root; `kb` stands for `apis/knowledge-base-api/src`, `miot` for
`apis/miot-bridge-api/src`.

- [The system](#the-system): inventory, state, interactions, what is hard
- [Modules](#modules): which module models what, and how
- [Hosts](#hosts): how several parts share a run
- [Runs](#runs): what TLC checks, with which bounds and fairness
- [Proofs](#proofs): what TLAPS proves and along which argument
- [Where code and documentation part](#where-code-and-documentation-part)
- [Not modelled](#not-modelled) and [Plan](#plan)

## The system

A pnpm monorepo of small Ts.ED services and browser apps. Node runs one JavaScript thread per
process, so code between two `await`s is atomic; several replicas of a service run side by side
and share Postgres or MongoDB. A deploy replaces pods while others run.

| Component | State | Operations | Hard part |
|---|---|---|---|
| Indexer (`kb/services/IndexerService.ts`, `kb/sources/git`, `kb/storage/postgres`) | tables `documents`, `knowledge_bases` (cursor, run record), `chunks`, embeddings; the advisory lock | one run: lock, cursor, change report, upserts, deletions, cursor, embeddings, record | interrupted between any two steps; branch moves and is rewritten; GitHub cuts long comparisons; lock lost under a run |
| Indexing loop (`kb/services/IndexingLoopService.ts`) | `timer`, `running`, `pending`, `abort`, `stopped` per pod | timer, `trigger`, `run`, `$onReady`, `$onDestroy` | queue and merge while running, another pod has the lock, shutdown in the middle |
| Repository discovery (`kb/sources/git/GitSourceAdapter.ts`, `kb/endpoints/github`) | promises of discoveries, Apps with their key, clients by credential | `discover`, `forget`, `getApp`, listing of installations | failures and answers in any order, rotated secrets, moved installations |
| Document writes (`kb/services/DocumentWriteService.ts`) | a promise queue; the repository on GitHub | `write`, `delete` with versions, one retry | lost answers, conflicting editors |
| Chunks and embeddings (`kb/services/MarkdownChunkerService.ts`, `kb/storage/postgres/DocumentRepository.ts`, `EmbeddingRepository.ts`) | chunks and their vectors | chunk, reconcile by hash, embed in batches | two runs side by side, text without a vector, exact limits |
| Search (`kb/services/SearchService.ts`, `RankFusionService.ts`) | none | full-text and vector search, fused | the index changes between its queries |
| Schema migration (`kb/storage/postgres/SchemaMigrator.ts`) | indexes, `knowledge_bases.ts_config` | migrate at boot under a lock | pods of two releases, a boot that ends half-way |
| Subscriptions (`miot/handlers/notifications`, `handlers/devices/DeviceDeleteHandler.ts`) | notification documents in MongoDB | POST, DELETE one, DELETE all, DELETE device | each spans several awaits and two stores |
| Property poller (`miot/services/DevicePropertyPollerService.ts`) | `_subscriptions`, `_lastValues`, error counts, one timer | tick, read, emit; `addSubscriptions`, `removeSubscription`, `stop` | a read in flight while subscriptions change, a stop during a tick |
| Notification dispatch (`miot/services/NotificationDispatchService.ts`) | `queue`, `timer`, `lastPublishAt`; mqtt.js' unacknowledged publishes | `receive`, timer, `onReconnect`, `$onDestroy` | pacing across disconnects, coalescing without losing the newest value |
| Device client (`packages/miot-device/src/MiotDevice.ts`, `MiotTransport.ts`, `packet`) | a promise chain, `_deviceId`, the clock, an optional stamp store; a socket per exchange | calls, `discover`, `setStampState` | UDP loss, strays, retries of commands that are not idempotent, device reboots |
| Device clock (`packages/miot-device/src/DeviceClock.ts`) | one reading: stamp, local time, wall time | `sync`, `observe`, `next`, `restore`, `reset` | two clocks of different phase, echoed stamps |
| Device registration and registry (`miot/handlers/devices`, `miot/services/MiotDeviceRegistry.ts`) | device documents; clients by hardware id | POST, DELETE, `getOrCreate`, `remove` | registrations, deletions and polls that read the device before |
| Specification and overrides (`miot/mappers`, `miot/services/DeviceCommandService.ts`) | a spec per device, overrides per model | mapping, get, set, action | repeated types, overrides against published keys |
| MQTT commands (`miot/services/MqttListenerService.ts`, `miot/providers/MqttClientProvider.ts`) | the client, one subscription | connect, message, response | retained and repeated deliveries, reconnections |
| HTTP provider (`packages/http-provider`) | `generation`; the exchanged token, its expiry, `cacheEpoch`, the fetch in flight | interceptors, `getCredentials`, `invalidate`, the replay of a 401 | refusals, refreshes and late token answers of calls that share one credential |
| Resilience policy (`packages/resilience`) | circuit breaker | retry over breaker over timeout | cancellation, a breaker's half-open trial shared by calls |
| Inbound authentication (`packages/auth`, `tsed-auth`) | key caches | verify, guard | key rotation, ambiguous outcomes |
| Health and shutdown (`packages/health`, `tsed-health`) | drain flag, cached reports | checks, drain sequence | deadline against a slow stop |
| QR manager (`apis/qr-manager-api`) | QR codes in MongoDB, slugs unique | create, update, delete, list, scan | slug collisions, lost answers, impatient clients |
| Browser sign-in (`packages/ui-auth`), API status (`packages/ui-runtime`, `uis/qr-manager-ui`) | a session in memory, counters in session storage; the rated status | redirects, renewals, logout; probe, recovery | several timers and redirects against the user's own acts |
| Telemetry (`packages/otel`, `miot/otel`) | spans, contexts | tick, read, publish, message | a context that outlives its span |
| `mcp/knowledge-base-mcp`, `apis/interactive-map-feeder-api`, UI kit and dashboard | none | forwarding, images, pages | little |

How they meet: a document write asks the loop for a run (`trigger`); the loop calls the indexer
under the lock; the poller reads through the device client and hands what changed to the dispatcher,
as do direct commands; the handlers write MongoDB first and the poller's cache after; at shutdown all
`$onDestroy` hooks are started together and the listeners close when the last has returned.

What makes each correct, in one line:

- indexer: what the cursor claims is what the index holds, and it catches up with the branch;
- loop: one indexer at a time over all replicas, the chain never ends, callers are answered truthfully;
- discovery: a source that can be read is read again, whatever failed before;
- writes: nothing an editor has not seen is overwritten, a write that was answered was committed once;
- chunks: every stored text has its own vectors or is still to get them; no line is lost;
- search: a reader sees nothing forbidden, and what was there throughout is not missing by accident;
- migration: a ready pod serves with the indexes and the language it was configured with;
- dispatcher: paced, never stranded, the newest value of each property arrives;
- subscriptions: what is polled is what is stored, and a subscriber ends up with the present value;
- device client: no call runs twice more than it must, none blocks the others, a failure says why;
- device clock: a packet is never far from the device's own second;
- registry, specification, MQTT: a command goes to the device and the property it names, once;
- HTTP provider and policy: a refused call is replayed with a credential that is good, no call is sent more often than promised, the breaker answers for real failures only;
- door and health: a caller is told the truth of its credential, a probe that of the process;
- QR manager: no other code answers a printed label's slug while the code it was printed for exists (a deleted
  one's slug is free again);
- browser: no endless redirects, a logout stays, an outage ends by itself.

## Modules

| Module | Models | State in the model |
|---|---|---|
| `SourceMirror` | what the indexer promises a reader (abstract) | `history` of trees, `docs`, `cursor` |
| `KnowledgeIndex` | one knowledge base indexed by several pods | the branch, `docs`, `cursor`, `outcome`, `lock`, one run record per pod, its abort signal |
| `IndexingLoop` | `IndexingLoopService` on every replica | the service's fields per pod, the runs under way, the lock, callers' answers |
| `GitHubDiscovery` | `GitHubRepositoryService`, `GitHubEndpoint`'s apps and clients | `promises`, `remembered`, `apps`, `clients`, who asks; coverage and secrets outside |
| `DocumentWrite` | the write handlers and `DocumentWriteService` over GitHub's contents API | `branch`, `line` (a pod's queue), per call where it is |
| `EmbeddingBacklog` | chunks, vectors and two runs over them | `documents`, `chunks`, `vectors`, per run its step |
| `MarkdownChunks` | `MarkdownChunkerService` as operators | a document, a section's body |
| `KnowledgeSearch` | `SearchGetHandler`, `SearchService`, `RankFusionService`, `DocumentsGetHandler` | the index, the query under way |
| `SchemaMigration` | a pod's boot: `SchemaMigrator`, `PostgresService` | `language`, `fts`, `indexes`, `vectors`, `holder`, per pod its step |
| `NotificationDispatch` | the dispatcher and the MQTT connection | `queue`, `timer`, `wait`, `link`, `inflight` |
| `Subscriptions` | handlers, stored documents, the poller's cache and the poll | `docs`, `cache`, `last`, handler per caller, poll |
| `DeviceClock` | the clock estimate against the device's clock | `reading`, `saved`, local, wall and device time, one exchange |
| `MiotDevice` | the client's calls, the clock reduced to none / right / wrong | `line` (the chain), per call its stage, `clock`, `store` |
| `MiotExchange` | one call's datagrams: `MiotTransport`, `IncomingPacket`, `MiotError` | `socket` with what is on its way, `call`, `outcome`, the recorded metric |
| `DeviceRegistry` | device documents and the pool of clients | `documents`, `client`, per request its step |
| `MqttCommands` | `MqttClientProvider`, `MqttListenerService` | `mqtt`, `listener`, per message its step |
| `MiotSpec` | mappers, overrides and what a command resolves to | `stored`, `overrides`, the command and the bulk read under way |
| `PollSignals` | the poller's ticks, back-off and stop, and the spans and metrics around them | `timer`, `tick`, `errors`, `skip`, `spans`, the dispatcher's queue with contexts |
| `OutboundRequest` | calls of one HTTP provider sharing a credential | `generation`, the strategy's fields, the token requests, per call its config and where it is |
| `UpstreamCall` | calls of one upstream sharing a breaker | `breaker`, per call its attempt |
| `InboundAuth` | `Authenticator`, `AuthGuard`, `JwtVerifier` and its key sources, `McpTokenVerifier` | the provider's keys, `cache`, per request its step |
| `ServiceHealth` | `HealthRegistry`, `HealthController`, the shutdown handler | the evaluation in flight and its cache, `probe`, `shutdown` |
| `QrCodes` | the QR manager's handlers and lookups | `records`, per call its step, `breaker` |
| `UiAuth` | `AuthProvider`, `AuthCallback` and the provider's redirects | per tab its page and storage, the provider's `session` |
| `UiStatus` | `useApiStatus`, the recovery probe and the pages that load again | `status`, `wanted`, `probe`, `page`, requests |
| `KnowledgeIndexProofs`, `IndexingLoopProofs`, `SubscriptionsProofs` | theorems of one module | |
| `KnowledgeBaseProofs`, `MiotBridgeProofs`, `PlatformProofs`, `PartsProofs` | theorems of the parts of a host, see [Proofs](#proofs) | |
| `MarkdownProofs` | lemmas: what `MarkdownChunks` computes, for `KnowledgeBaseProofs` | |
| `MCKnowledgeIndex`, `MCSubscriptions`, `MCGitHubDiscovery` | symmetry and functions for TLC | |
| `MCKnowledgeBase`, `MCPlatform`, `MCMiotBridge`, `MCLiveness` | several parts in one run, see [Hosts](#hosts) | `part` |

Conventions. A handler or method that awaits is one action per await; code between awaits is one
action. Definitions headed `MUTANT` are plausible bugs of the definition below them, used to show that
a property notices; no specification uses them. A *history variable* records something the program
does not, only for a property to speak of; no guard reads one. Bounds are constants named `Max...`, or
finite sets marked *bound* (`Ids`, `Slots`, `Callers`, `Fetches`).

**KnowledgeIndex.** A commit is an index into `history`; its tree maps every path to a content or
`Absent`. `ReadSource` is `GitSourceAdapter.changes`: nothing when the cursor is the head, the
comparison when the cursor is an ancestor of the head and the list is below GitHub's limit, otherwise
the whole tree. `Upsert` is one transaction per document; `Delete` one statement; `SetCursor` does not
look at the signal first, as in the code. `Abort`, `Fail`, `Crash` and `LoseLock` share one bound.
`torn` holds the paths written since a cursor last covered them. The trees of the branch are the input:
`Commit` may write any tree, `ForcePush` one that no earlier commit is an ancestor of. `Start` stands
for the loop's decision to run; which requests exist and when is `IndexingLoop`'s subject. Chunks and
embeddings are `EmbeddingBacklog`'s: a document and its chunks are written in one transaction, and an
embedding is stored after the cursor and never fails a run.

**IndexingLoop.** `runs[p][s]` is a run in progress: a pod may have several, because the listeners open
before `$onReady` arms its first run (`early` remembers pods called that early). `Callers` are numbered
in the order in which they call, and a run takes any free slot: both only name things. `Settle` is the end of
`run` and the rest of `start`: forget `this.running`, continue with `pending`, or re-arm the timer.
`Stopped(p)` makes every query fail: Ts.ED starts all destroy hooks together, and
`PostgresService.$onDestroy` drops its pool before its first await.

**NotificationDispatch.** Time is relative: `timer` and `wait` count down, `Tick` is one tick, a due
timer may fire late. `link` distinguishes a connection that is lost but still counts as `connected`
(`silent`) from one known to be down. `Reconnect` is mqtt.js' `connect` event with the service's
listener: `client.connected` turning true and the event are one step, as they are in mqtt.js. mqtt.js
itself is external: publishes at QoS 1 are acknowledged, held, or refused. `Interval` is at least 1; 0
turns pacing off. With `link = "closed"` values may still be received: the service's queue then grows
and nobody sends it.

**Subscriptions.** One device. A POST is check, existing, one create per property, add; a DELETE is
get, delete, look for remaining ones, drop; a device's deletion is both of DELETE all's steps and its
own. `torn` says that a POST overlapped a DELETE or failed halfway. `actual` is the device's own value,
`shown` what was last handed to the dispatcher. The poll's keys are those of the moment it began; only
what is still subscribed at its end counts.

**DeviceClock.** `Unit` time units make a second, so that device and local clock tick at different
phases. Either clock may gain on the other (`DeviceGains`, `LocalGains`), and the wall clock, which ages a
restored reading, may be set back and forward (`WallSetBack`, `WallSetForward`). The
device may answer a packet with its own clock or with an echo of the packet's stamp, and drops a packet
behind its clock. Reboots are in `MiotDevice`.

**MiotDevice.** `BulkSize`, `HasStore` and `DeviceFaults` are constants of the host, which TLC is given one value
of. `line` is the order of `runWithStamp` calls; `ReachedBy` is the promise chain. A call
loads the stored reading, handshakes or not, sends each of its packets, and on failure with a cached
reading handshakes and sends everything once more. `discover()` runs beside the chain, as in the code.
Losing a packet and losing its answer are both `TimesOut`, before or after `Execute`.

**OutboundRequest.** One action per stretch between awaits: `Tag` is the interceptors up to
`getCredentials`' first await (wrap the adapter, tag the generation, take, join or start a fetch),
`Dispatch` and `Retry` are attempts of `execute`, `Replay` and `PassOn` the response interceptor's two
ways with a 401. A credential is what the upstream makes of it: `valid`, `revoked` (by `Revoke`, which
turns everything minted so far) or `blank` (which `applyTransport` rejects). `fetches` are token
requests: asked, minted at the endpoint, settled in `then`, forgotten in `finally`, so that an
`invalidate` may fall between any two. `effects` counts how often the upstream carried a call out,
whatever the client heard of it. The circuit breaker is reduced to an attempt that may fail at once;
`UpstreamCall` has its states. A
401 is taken not to be one of the provider's `retriableStatusCodes`. `JwtSelfSignedStrategy` has the
same cache, epoch and single flight as `TokenExchangeStrategy` and adds nothing to the model.

**GitHubDiscovery.** A promise of `discover` may be awaited by a run and by file reads alike; `Key(kb)` is
`discoveryKey`. `GitHubLists` fixes what a listing saw, `Discovered` what the code makes of it: in
between, coverage and secrets change. `stale` are repositories a credential lost during the listing.

**DocumentWrite.** A version is a blob SHA, so it is the content itself. `line` is a pod's promise queue;
a write checks its version against the branch, GitHub checks again, and Octokit resends within each of
the service's two attempts. `restored` and `unheard` say under which condition a write may commit
twice: its answer was lost and the very same version came back meanwhile.

**EmbeddingBacklog.** A chunk's text is its hash, a vector is known by the text it was computed from.
Each SQL statement or transaction is a step; two runs overlap, as after a lost lock. A pending chunk is
one without a vector of the model, not an entry of a list.

**MarkdownChunks.** The machine only writes documents line by line; `Sections` and `Split` are the
service's algorithms, held against what a reader expects of a section (`Above`, `IsTitle`) and of a part
(`PartFits`). Each loop of the service is a recursive function of the number of lines read (`Reading`,
`Gathering`, `Filling`, `Packing`) and its body an operator (`Read`, `Gather`, `Fill`, `Pack`). A title is a
sequence of words and numbers, so that `Slug`'s `-1` can meet a heading that ends in `1`. Lengths 1, 7 and 12 with a part of 10 and an overlap of 4 give lines that fit, that fit
only alone and that must be cut, with tables and fences.

**KnowledgeSearch.** How well a chunk answers is a given order. `steady` and `late` record what was
stored, and what was embedded, since the request came: a document between the two legs of a hybrid
search is the only one that may be missed.

**SchemaMigration.** Every boot has a configuration of its own. The upsert of the row and the rewriting
of the chunks are two statements, as are the check of stored sizes and the drop of an index; ready pods
go on writing under the configuration they booted with (`mixed`).

**MiotExchange.** `arriving` are the datagrams on their way to the socket of the exchange; strays, an
earlier try's answer, the timer and socket errors race for it. A packet is its device's if and only if
the token fits, which stands for checksum and encryption. The address is a lease and may pass to
another device.

**DeviceRegistry.** One hardware device under several documents and addresses. `late` marks a client
built from a document that was gone already, `overlapped` two registrations past the check.

**MqttCommands.** A member of `Messages` is one copy of what was published, or a REST command. At QoS 1 a
publisher that misses its acknowledgement publishes again (`Redeliver`), any number of times, and the listener
takes each copy for a command; what the broker forwards is lost with our connection, for the session is clean.
Retained messages come again with a subscription unless the broker honours `rh: 2`. `calls` and `records` count
what a copy led to; a storage that fails under it (`StorageFails`) leaves neither.

**MiotSpec.** A type is a sequence of words and numbers, and a key is the service's and the property's type, each with its
iid behind it where the type repeats: the code's joined strings, in which a type may spell another's key. Of two
that do, one is not to be had, which `Addressable` excepts. The specification is stored as a DTO and mapped back on
each read; overrides are any sequence of additions and removals and change between the reads of one command.

**PollSignals.** A span's name is what it stands for; a context is what `AsyncLocalStorage` hands on,
so a timer keeps the context that armed it. The poller's back-off, its `finally`, `stop()` and the
sampling of ticks are the code's; the dispatcher's queue is here only for the context a value carries.

**UpstreamCall.** `filter` decides by an attempt's start state whether its end counts; calls that come
while the trial runs are held. cockatiel's breaker is external and modelled as the policy uses it.

**InboundAuth.** A token is the record of what the code reads of it. Verifiers have their remote key
sets each; requests share the fetch in flight. `blind` marks a request one of whose methods could not
judge, `failures` what each said and when; `Good` says that a method would admit a token if it knew every key.

**ServiceHealth.** Ticks bound checks, cache, drain and deadline. `fresh` says that what a probe was told
was seen late enough. Crashes reach the process's last handlers.

**QrCodes.** One statement is one step; an insert may take effect and lose its answer. `seen` is what a
scan could have been told since it arrived.

**UiAuth.** A tab is its page, its redirect in preparation, its callback and its session storage; the
user's load, login and logout may fall anywhere, and whatever they do starts `auto`, the count of redirects a tab made
by itself, anew (`acted` is when). `left` says of who logged out whether a renewal was in preparation beside it, and
whether that one's redirect left the page first. `TimerLimit` stands for the longest delay `setTimeout` keeps
(2^31-1 ms, 24.8 days), beyond which it fires at once, and `MaxStorm` bounds the loop that follows.

**UiStatus.** A `setState` is remembered in `wanted`; `Render` shows it and runs the effects, so several
may be shown as one. A page has failed because its request did (`blamed`), or for reasons of its own, a 4xx or a body
that breaks off behind good headers. `late` marks a recovery announced before the page showed its failure, `dropped` a
probe's success that was set back before it was rendered. A page is kept when only its id changes, so a detail page
may still hold another code (`held`).

### Hosts

Most parts share no state: what one asks of another is an answer that may come, fail or be late, and
each module has that at its border. `MCKnowledgeBase`, `MCPlatform`, `MCMiotBridge` and `MCLiveness` put
several parts into one run: `part` says which one a behaviour is of, the other parts' variables stand
still at `Off` (or in their initial state, for the part the host EXTENDS), and each next-state disjunct
is a part's own action. A property of a host is the part's property, stated of that part's behaviours:
`part = "QrCodes" => Qr!QrCodesSound`. A host thus checks what one configuration per part would. The
parts' parameters are the host's `CONSTANTS`, so that a theorem about the host is one about every size of
a part, but for what a host fixes itself: the specifications, overrides and values of `MiotSpec` (`SpecsTried`,
`OverridesTried`), GitHub's sources and coverage, and the sizes of `IndexingLoop`, `Subscriptions` and `UiStatus` in
`MCLiveness`. `KnowledgeBaseAssumption`, `PlatformAssumption` and `BridgeAssumption` state what the parts need
of them: that a marker such as `None` is none of the values it is told from, that bounds are numbers, that
secrets are texts.

What parts do share is composed within one module: indexer, lock and branch in `KnowledgeIndex`;
handlers, store, cache, poll and direct commands in `Subscriptions`; poller, dispatcher and telemetry
in `PollSignals`; chain, clock and store in `MiotDevice`; interceptors, strategy and policy in
`OutboundRequest`.

## Runs

`expect: violation` runs check one claim of the documentation that the code does not keep.

| Run | Checks | Instance | Distinct states |
|---|---|---|---|
| `KnowledgeIndex_crash` | `OnlyTornDiffer`, `CompleteRunHeals`, refinement `MirrorsSource` | 3 paths, 2 contents of which one unstorable, 2 pods, comparison cut at 3 files, branch of 2, 2 faults | 344 k |
| `KnowledgeIndex_lockloss` | `CursorCatchesUp` (liveness) | 1 path, 2 pods, branch of 3, 1 fault, lock connection may be lost | 300 k |
| `KnowledgeIndex_ghost` | violation: `CrashHarmless` | 1 path, 1 pod, branch of 3, 1 fault | |
| `IndexingLoop_interrupted` | violation: `StopIsRecorded` | 1 pod, 1 fault | |
| `DeviceClock_latency` | violation: `NeverBehind` | 3 units a second, answers of less than a second, no drift, no clock set | |
| `GitHubDiscovery_rotation` | violation: `Recovers`, an App's key rotating | 2 knowledge bases, an App and a token, 1 change | |
| `SchemaMigration_torn` | violation: `RewrittenHere` | 1 pod, 4 boots, 2 faults | |
| `Subscriptions_two` | `PollerHonest` (types, `CacheInSync`, `NothingStaleRemembered`), `NoOrphans` | 2 properties, 2 values, 2 overlapping calls, 2 documents, 1 fault, direct commands; states told apart without `shown`, of which the invariants do not speak | 909 k |
| `KnowledgeBase_parts` | see below | one per part | 719 k |
| `Platform_parts` | see below | one per part | 1.4 M |
| `MiotBridge_parts` | see below | one per part | 1.5 M |
| `Liveness_parts` | see below | one per part | 209 k |

The parts of the hosts:

| Property | Part | Says | Instance |
|---|---|---|---|
| `OneRunAtATime` | IndexingLoop | one indexer over all pods, no overlap in a pod, a pod that is down runs nothing | 2 pods, 2 slots, 2 callers, 1 fault |
| `QueuedIsKept` | IndexingLoop | a request that was queued is in the run that follows, unless that finds the lock taken | |
| `CommitsLawful`, `CommitsOnce` | DocumentWrite | nothing unseen is overwritten, `raw/` only grows, `mirror/` is left alone, no secret is committed; one commit per write, one's own outcome | 2 writes, 1 pod, 1 resend, 1 foreign commit, 1 fault |
| `BacklogSound` | EmbeddingBacklog | a vector belongs to its chunk's text; what has one is not embedded again | 2 runs, 2 documents, 2 commits, 1 failure |
| `ChunksSound` | MarkdownChunks | every line under its headings, anchors distinct, parts fit, no character lost | documents of 4 lines, bodies of 4 |
| `AnswersWhole` | KnowledgeSearch | a document there throughout is found unless a leg was full by itself, only what was stored and asked for is shown, the best by the legs' ranks, superseded last but never crowded out | 2 knowledge bases, 3 candidates, 1 change |
| `SchemaServes` | SchemaMigration | the newest boot's language and index are in force, chunks are in the row's language | 2 pods, 2 languages, 2 sizes, 3 boots, 2 faults |
| `SingleFlight`, `RefusedMeansRevoked`, `NoSecondWrite`, `GoodCredentialKept` | OutboundRequest | as proved, see [Proofs](#proofs) | 2 calls, 3 fetches, 2 retries |
| `BreakerHonest` | UpstreamCall | the breaker closes by a trial that was answered and opens by failures of the upstream | 3 calls, 1 retry, throughput 2 |
| `HealthSound` | ServiceHealth | a probe is answered in time and with nothing stale; one teardown, after the drain | 2 probes, 4 ticks, 1 fault |
| `DoorHonest` | InboundAuth | rotation is seen in time, an outage is not blamed on the caller, nobody passes undecorated | 2 requests, 11 arrivals, 2 keys, 3 ticks |
| `SignInSound` | UiAuth | what loads has something to wait for, one renewal per usable token life, a logout stays | 1 tab, 3 ticks, 4 token lives (none usable, just past the skew, longer, longer than the timer), 2 faults, 2 toggles |
| `QrCodesSound` | QrCodes | one record per POST, a label keeps its record, a scan is told what was true | 3 calls, 2 slugs, 2 ids, 2 faults |
| `EstimateBounded` | DeviceClock | a stamp is a second ahead at most, but for a local clock that gains or a wall clock set forward; behind by less than a second, but for latency, the device's gain, a wall clock set back | 2 units a second, 4 units of time, each clock gains 1, the wall clock set 1 back and 1 forward |
| `FailureSaysWhy` | MiotExchange | a settled call blames the device exactly when the device refused, no socket or timer outlives it | 2 codes, 1 moved lease |
| `RegistryAgrees` | DeviceRegistry | a client of a deleted device is about to go, two documents of a device take overlapping registrations | 2 requests, 2 documents, 2 addresses |
| `CommandsOnce` | MqttCommands | one call and one record per copy delivered, none of a replay, a connected bridge listens | 2 messages or copies of one, 1 lost connection |
| `CommandMeansProperty` | MiotSpec | every published property has its key, the newest override of a key rules, what is sent is what its key means, a lost key is reported once | 17 specifications, one with types that spell each other's keys, 2 of 3 overrides stored, 2 reads |
| `SignalsSound` | PollSignals | no span without its run, a publish joins the read that saw the value, one record per tick, a stopped poller stays stopped | 1 device, 3 ticks, 1 message |
| `Paced`, `NewestSurvives`, `NobodyStarves` | NotificationDispatch | as proved, and every waiting property is sent while the connection stays | 2 properties, 2 values, interval 2 |
| `PartsSound` | MiotDevice and others | at most twice, sends in sync with its handshake, a refreshed error was retried; the parts' types | 2 calls, one of 2 packets, 2 faults |
| `CallsSettle` | MiotDevice | every call ends | |
| `ClientKept`, `Recovers` | GitHubDiscovery | a client goes only with its own listing; what can be read is read again | 2 knowledge bases sharing an App or a repository, 1 change |
| `CallersAnswered`, `LoopGoesOn` | IndexingLoop | a caller hears what became of its request; a pod that stays up runs again and again | 2 pods, 2 slots, 1 caller, 1 fault |
| `SubscriberConverges` | Subscriptions | a value that settles is the one handed on in the end | 1 property, 2 values, 1 call, dispatch on change |
| `OutageEnds` | UiStatus | once the API answers for good, the banner goes and a page the outage left with nothing loads again, but for `late` and `dropped` | 2 requests, 1 act, 2 troubles |

Why the bounds are enough. Two pods give every race for a lock; three paths are the smallest tree with a
rewritten, an added and an untouched file, hence renames and a comparison at the limit; three commits
are the smallest branch with a change and its reversal after a run. Two slots let runs of a pod overlap
once, two callers let requests merge. Two writes in one pod queue, and each meets a foreign commit and
a lost answer. Two knowledge bases are enough to share an App, a repository or neither. Three boots
are one that gives up, one of the other release and one that sees both. Two properties suffice to
starve one. Two overlapping handlers give every pair of them in every order. Where the fault bound is
two, a fault may fall into the recovery from another. Two calls of one credential let one be refused
under what the other has replaced; three calls of a breaker are its trial, one held behind it and one
from before it opened. Two slugs and two ids collide as often as attempts allow. What is proved holds for every
value of the constants, so that its small instances only guard against mistakes in the statement.

Fairness. `KnowledgeIndex`: a run's next step happens (every await settles) and some pod's timer fires
again, which `LoopGoesOn` shows of the chain; commits and faults are free. `IndexingLoop`: timers fire,
awaits settle and hooks return; nobody has to call, stop or crash. `GitHubDiscovery`: GitHub answers or
the request fails, and each knowledge base's runs come again and again (`LoopGoesOn` once more; in
`MCLiveness` it is stated by its effect, `[]<>` of asking and of not asking). `NotificationDispatch`: time passes and a due
timer fires; receiving, losing and regaining the connection are free, and `NobodyStarves` assumes a
connection that eventually stays. `Subscriptions`: only the poll goes on. `MiotDevice`: each step of a
call happens, because every exchange has a timer and store calls end; the device need not answer.
`UiStatus`: fetches end, React renders, the probe's timer fires; the user need do nothing.

In `MCLiveness` each caller calls and each call is made once, so that "is answered" can be written as
`[]<>` of "is not waiting", and a property is stated of the behaviours of its own part.

`CHECK_DEADLOCK FALSE` appears where the bounds end the behaviour: a branch, the callers, the time or
the calls are used up. `Subscriptions_two` checks for deadlock.

## Proofs

Theorems for every value of the constants, checked by TLAPS:

| Theorem | Says |
|---|---|
| `KnowledgeIndexProofs!TypeCorrect`, `OneIndexer`, `OnlyTorn`, `FullRunHeals`, `CursorNeverRegresses` | types, `WriterHoldsLock`, the invariants of `KnowledgeIndex_crash` and the cursor's monotony (`CursorForward`) |
| `KnowledgeIndexProofs!MirrorUntilFault` | the indexer implements `SourceMirror` until its first fault |
| `PartsProofs!TypeCorrect`, `PublishesPaced`, `QueueNeverStranded`, `NewestValueSurvives` | of the dispatcher: types, `Paced`, `NeverStranded`, `NewestSurvives` |
| `PartsProofs!DeviceTypeCorrect`, `CommandsAtMostTwice`, `CallsInSync`, `ErrorsSayRetried` | of the device client: types, `AtMostTwice`, `SendsInSync`, `RefreshedMeansRetried` |
| `PartsProofs!HostClientKept`, `HostPartsSound` | `ClientKept`, `PartsSound` |
| `SubscriptionsProofs!PollerStaysHonest`, `NothingOrphaned` | `PollerHonest`, `NoOrphans` |
| `PlatformProofs!TypeCorrect`, `OneFetchPerEpoch`, `ReplayIsEnough`, `WritesOnce`, `WithinBudget`, `NoGoodCredentialLost` | of the HTTP provider: types, `SingleFlight`, `RefusedMeansRevoked`, `NoSecondWrite`, `WireBudget`, `GoodCredentialKept` |
| `IndexingLoopProofs!TypeCorrect`, `OneRun`, `QueueKept` | of the indexing loop: types, `OneRunAtATime`, `QueuedIsKept` |
| `KnowledgeBaseProofs!HostCommitsOnce`, `HostCommitsLawful` | of document writes: `CommitsOnce`, `CommitsLawful` |
| `KnowledgeBaseProofs!HostBacklogSound`, `HostSchemaServes` | `BacklogSound`, `SchemaServes` |
| `KnowledgeBaseProofs!HostChunksSound`, `HostAnswersWhole` | of chunking and searching: `ChunksSound`, `AnswersWhole` |
| `MiotBridgeProofs!ClockTypeCorrect`, `StampBounded` | of the clock: types, the stamp's bounds above and below (`EstimateBounded`) |
| `MiotBridgeProofs!RegistryTypeCorrect`, `RegistryStaysTrue`, `HostRegistryAgrees` | of the registry: types, `RegistryAgrees`, on its own and in the host |
| `MiotBridgeProofs!HostFailureSaysWhy`, `HostCommandsOnce`, `HostSignalsSound` | `FailureSaysWhy`, `CommandsOnce`, `SignalsSound` |
| `MiotBridgeProofs!HostCommandMeansProperty` | of keys and overrides: `CommandMeansProperty` |
| `PlatformProofs!UpstreamTypeCorrect`, `BreakerStaysHonest`, `HostBreakerHonest` | of the breaker: types, `BreakerHonest`, on its own and in the host |
| `PlatformProofs!HostHealthSound`, `HostQrCodesSound` | `HealthSound`, `QrCodesSound` |
| `PlatformProofs!HostDoorHonest`, `HostSignInSound` | `DoorHonest`, `SignInSound` |

They assume what the modules state of their constants (`LoopAssumption`, `DispatchAssumption`,
`BridgeAssumption`, `PartsAssumption`, `SearchAssumption`, `MarkdownAssumption` and the like, evaluated by TLC in every
run of the module); a theorem of the device client alone names `DeviceAssumption`. A theorem whose name begins with `Host` is of the composition: it needs
that a step of the host is a step of the part the behaviour is of or leaves that part alone (`HostSteps`),
and the part's own inductive invariant. Each of these invariants was first checked by TLC on the instance
of its run.

*Indexer.* `OnlyTornDiffer` is not inductive: that a cursor's move makes the index agree depends on what
the run was told and what it has done. `IInv` adds, for the run past its source: it works towards a
commit of the branch (`HeadIsCommit`), from the present cursor or from nothing (`FromCursor`, which
needs `WriterHoldsLock`), its report covers every path that differs between the two (`ReportRight`),
and what it has written or deleted so far agrees with its head (`WrittenRight`). For the refinement,
`TornByRun` says that before any fault a torn path was written by the run in progress; with it
`SetCursor` is `Advance`, `Upsert` and `Delete` are `Copy`, and all else stutters.

*Dispatcher.* `NeverStranded` and `Paced` need `Clock`: what the timer and `wait` still count agrees
with `gap`, the time since the last publish. `NewestSurvives` is strengthened to `WaitingIsNewest`
(what waits is the newest value) and `OthersSettled` (a property that does not wait has its newest
value unacknowledged, delivered or refused).

*Clock.* In units of time the estimate is `stamp * Unit` plus the reading's age. `InStep` keeps it at or
below the device's time plus what the local clock gained and the wall clock was set forward, `WireInStep` says
the same of a stamp on the wire; rounding down then gives `AheadBounded`. `LagInv` bounds it from below by latency, gain and set-back, with separate conjuncts for
the reading, a saved reading's wall time, and a stamp on the wire.

*HTTP provider.* `FetchInv` says that the one fetch of the current epoch is the one in flight, which
with `SingleFlight` itself is inductive: an invalidation puts every fetch under way into the past.
`WaitInv` ties calls to the fetch they await. `CallsInv` counts, per call: what was sent and what may
still be sent fit into one pass, or two behind a refusal, and what may not be repeated has had no effect
while it is under way. For `ReplayIsEnough`, `RefusalInv` says of a call that has seen no revocation: if
it is being replayed, or its tag is behind `generation`, then neither the cache nor a fetch of the current
epoch holds anything revoked (`CacheClean`), and once replayed it holds nothing revoked itself. For
`NoGoodCredentialLost`, `KeptInv` says that until a credential lapses, generation and epoch agree and a
call of the current generation holds what the cache holds; a refusal under it then means that the cached
credential is revoked too. `lapsed` marks the two ways a credential is replaced without a refusal:
expiry, and a blank one.

*Indexing loop.* `OneIndexer` holds step by step, since the lock is taken only when it is free and a run
past it is the one it names. `NeverOverlap` needs `ChainOf`: in a pod nobody called before `$onReady`, a
slot in use is the one `running` names, and the timer is armed only when there is none. `DownIsQuiet`
needs `AwaitedBy`: in such a pod, once stopped, a run past the lock is the one `$onDestroy` awaits (a
stopped pod's other runs are refused the lock), so when the hook has returned there is none. For
`QueuedIsKept`, `Kept` says that until the first fault no pod stops, the lock is that of a run past it
(`HeldByRun`, the converse of `OneIndexer`), and such a run has taken its callers up. Every step then
`Keeps` a caller: it stays queued or in a run, was taken up, or its run met the lock of another pod's run or
of one that overlaps it, which `ChainOf` leaves to pods called too early.

*Document writes.* `CallLawful` ties a call's step to what its commits left behind: a call that may still
be sent after a commit has lost an answer (`unheard`), and if the branch holds its version again then
somebody put it back (`restored`); hence a second commit needs both. A request in flight has been
accepted, which with GitHub's check of the blob is `CommitsLawful`.

*Embeddings.* `RowsLawful` keeps the documents' rows disjoint and below `serial`, so that an id is never
given to another text; that the sequence of rows a reconciliation computes has no id twice is a lemma about `Nth` and
`Reusable`. `BatchLawful` then says of a batch on its way to Ollama that an id in it is gone or still has the
text that was sent, whatever another run did meanwhile. `SeenLawful` carries what `copyByHash` is for
from the deletions to the last batch: a text that had a vector before has one.

*Schema.* `PodLawful` is what a pod knows at each step of a migration: the lock is its own, and what it has
read of the indexes is still so, as only the lock's holder changes them. `NewestServed` holds outside of a
migration only; `NewestLawful` adds that the pod is ready, and `ChunksLawful` excepts the time between the
row and the rewrite.

*Search.* Between its legs a search must remember what it owes. `Wanted` is what full-text finds throughout in what was
asked for, `Answered` that a leg has it or was full, or that its vector came meanwhile; `LegsCover` says at each step of
the query for which wanted documents `Answered` already holds, or will by the leg to come: before the full-text leg,
those without a vector are its business alone. That a full leg excuses a document needs that its candidates fill
what is fused, which they do because a leg names nothing twice (`LegsRight`, `FullLeg`). `Ranked` is a sequence of
all that was found by falling score, whatever the weights and ranks (`RankedFacts`), so that what is cut off it is no
better than what is shown.

*Chunks.* `ChunksSound` is a statement about functions of a document, and `ChunksInv` only says that there is one. The
work is in `MarkdownProofs`. What a recursive function computes is proved by induction, which needs no
second-order fact: a set of numbers with 0 and each successor is all of `Nat` (`NatSetInduction`, by the pigeonhole
principle: were `n` missing, `m |-> m + 1` would put the members below `n` into those but 0), hence a function defined
step by step is what its equation says (`Recursion`), and a property carried from `i - 1` to `i` holds at the end. What
is carried through `Reading`: the fence, the title and the H2 known are the reader's (`MarksTo`), every line but a cut
is in one section, in order (`LinesTo`), under `Above` (`PathsTo`), and slugs are taken and distinct (`SlugsTo`); a
slug is free because there are more numbered names than names taken (`SlugFacts`). Through the three loops of `Split`: every
line with something on it is in one paragraph, once (`Gathered`); the pieces of a cut paragraph fit, end with
different slices and have every slice between them (`Filled`); the parts fit, end with different blocks and have
every block between them (`Packed`). That ends differ is what makes two parts differ whatever the overlap repeats.

*Subscriptions.* `CacheInSync` speaks of moments without a call. `SyncInv` says of all others, until
something is torn, who will mend a difference: what is stored and not polled is about to be added by a POST
(`StoredIsPolled`), what is polled and not stored has a call that will take it away (`PolledIsStored`,
`Responsible`), no two calls cross (`NoneCrossed`), and each relies only on what the others leave alone
(`Reliable`).

*Datagrams.* `ExchangeInv` knows from the stage of a call how often a command was sent, that a socket is
open only under way, and that the metric is recorded with the outcome; each way an exchange ends then fits
`FailureSaysWhy`.

*Commands over MQTT.* `OneCommand` says of a message, by where it is, how many calls and records there are
of it; `OneHandler` that the listener has one handler from its start on, so that a message is taken once.

*Keys.* `KeysLawful` is what a device publishes: no iid twice among its services, or among a service's properties; storing and
mapping back keeps it (`DeviceLawful`). Two members with one key are then spelt by each other's types
(`MemberKeysDiffer`), else the map has one published entry for a key, which an override may hide but not change; of
several overrides of a key the map's newest entry is the newest one's. `SentAsSpecified` and `WarnedOnce` are inductive given that a request
holds nothing before it is resolved (`RequestKept`) and that the keys asked for are finitely many.

*Poller's signals.* A span keeps what it was started with (`LawfulSpans`). `ContextInv` and `QueueInv` say
which context a tick, a read and a value waiting for the dispatcher carry, `MetricInv` what has been counted of
a read and of a tick that is not over, `StopInv` that a stopped poller has no timer.

*Health.* `FlightInTime` bounds the one evaluation in flight by the longest check and says that what it
saw, it saw since it began; `CacheInTime` carries that into the cache, `WaitsForFlight` to who joined
it. `ShutdownOrder` counts teardowns against the stage of the shutdown.

*QR codes.* `LawfulQr` fits what a POST has stored to its stage and answer. `LabelKept` needs that ids are
never given out again, `ScanKept` that what the collection could tell a scan now is among what it could
have been told since it arrived, with `UniqueSlugs` from the index.

*Device client.* `DevStory` says what a call has done at each stage: one attempt with the reading there is
or behind a handshake, and a second only behind a handshake (`retry => fresh`); `DevSingle` counts
the executions of a one-packet call against its attempts. `DevLined` and `DevSerial` are the promise chain: whoever
has begun has only settled calls before it, so two calls are never under way together (`DevOneActive`), and
the reset of the clock by one is not seen by another (`DevRead`).

*GitHub access.* `ListingsFair` is what `ForgottenWhenListed` needs: what the listing of an App that a discovery
holds does not show was not covered then, or has lost its cover since the listing began (`stale`). Hence a client
that `discover` takes away has lost its repository. `GhLawful` ties a promise to the key it was asked with, so
that it is the client's own listing.

*Parts.* Of the indexing loop `PartsSound` is carried over: `PartsProofs` instantiates `IndexingLoopProofs` with
the variables of the composition, shows that a part's step is a step there (`LoopPodSame`, `LoopRunSame`), and so
needs no second proof. Of the device client it follows from `DevIInv`. The browser's and the GitHub endpoint's types are shown step by
step (`UiSteps`, `GhStep`).

*Registry.* `OneDocument` is strengthened to `RegistryOneOf`: until two registrations overlap, documents and
registrations past the check are at most one together. `ClientOfDocument` is inductive.

*Door.* `CacheFair` says of every cached key set, and of the set a fetch in flight was asked for, that a
published key it lacks is not the first one and was published since the set was asked for, at most a fetch's
deadline before it came. `DoorLawful` says that a request before a verifier is before a configured one, that
`blind` is what its `failures` say, and what follows of its answer; `AllSeen` is `RotationIsSeen` of each
failure. A verdict under a set is then wrong only about a key the set lacks (`UnderKeys`): it was fresh or
cooling down, which bounds its age and with it the key's. The configuration, the routes and the tokens are
any that `DoorAssumption` allows: what the schema accepts, what decorators can say (`@Anonymous` decorates
methods only), roles that have names. Which of several refusals is reported is the first one's in the code and any
in the model, as no property tells them apart.

*Sign-in.* `AutoPaid` bounds the redirects a tab has made by itself. When tokens are of no use on arrival, by what its
storage has counted (`FutilePaid`): at most one more than the futile renewals while it is at the provider or back with a
code, no more while a timer or a redirect is pending. When they can be kept, by the time since the user acted
(`KeptPaid`): each redirect but the first has waited for a usable life, and an armed timer fires a usable life after the
last. A storage that is refused never arms a timer but for a token worth keeping. `PageLawful` gives a page with a
response nothing else to do than its callback, and `OutAndQuiet` says that who left has no response, a probe that counts
as made, and no redirect but a renewal that was pending. The
assumption is that the redirect URI is none of the app's routes (`routePathOf` never lands on it).

*Breaker.* `UpEntered` says that a running attempt was let in by a closed breaker or as the trial;
`AccountFacts` then reads off `Account` who may close the breaker and who may open it.

`WriterHoldsLock`, `CursorForward`, `NeverStranded` and `WireBudget` are no longer checked by a run,
since they are proved.

One attempt failed for a reason and corrected the model: in `PollSignals` the timer that a tick re-arms had been
given the context the tick polled in, so that an untraced tick would have silenced the next one's timer.
The `finally` that arms it runs outside of `runJob`, in the context the last timer fired in; no span tells the
two apart, as each tick is a root, but `ContextInv` does.

Every invariant, action property and refinement a passing run checks is thus proved. Out of the prover's reach, hence
model-checked only: liveness under fairness and `ENABLED` (`CallersAnswered`, `LoopGoesOn`, `SubscriberConverges`,
`NobodyStarves`, `CallsSettle`, `Recovers`, `OutageEnds`, `CursorCatchesUp`).

## Where code and documentation part

Shown by the violation runs (and recorded in `PROJECT.json`, "findings"):

1. *"The order is what makes a crash harmless"* (`IndexerService.ts:70`). An interrupted run repeats
   from the old cursor but towards a newer head. A path it wrote that the branch has since put back is
   in no later comparison and stays as written, until a full reindex (`KnowledgeIndex_ghost`;
   `CompleteRunHeals` shows that a full reindex does heal it).
2. *"The knowledge base it was on records INTERRUPTED"* (`apis/knowledge-base-api/README.md:105`). At
   shutdown the pool is gone before the record is written, and the error is swallowed
   (`IndexingLoop_interrupted`). A run interrupted by a lost lock does record it.
3. *"the + 1 keeps the packet from ever being behind"* (`DeviceClock.ts:27`). With no answer under way for a
   whole second, phase, latency and the floor still put a packet a second behind (`DeviceClock_latency`: a stamp
   read late in its second, two thirds of a second under way, two thirds more until the packet);
   `EstimateBounded` is what does hold.
4. *"The installation may have changed (key rotated, App moved) or the token been rotated: find it again
   next run"* (`GitSourceAdapter.ts:67`). A token is read anew, but `GitHubEndpoint.getApp` keeps an App with
   the private key it read first until the process ends (`GitHubDiscovery_rotation`); `Recovers` holds for everything else
   that may change (`Liveness_parts`).
5. *"A KB whose `tsConfig` changed gets its full-text vectors rewritten here"* (`SchemaMigrator.ts:33-34`).
   The new language is stored by one statement and the chunks are rewritten by another; a boot that ends between
   them leaves vectors of the old language that no later boot touches (`SchemaMigration_torn`).

Visible in the conditions of passing properties:

- `IndexingLoopService.ts:46` says runs in one pod never overlap; a call served before `$onReady`
  returns makes them (`NeverOverlap` excepts such pods). The advisory lock still keeps one indexer.
- A request answered `QUEUED` (202) is lost when its run finds another pod indexing (`QueuedIsKept`).
- The poller's cache is "kept in sync" (`DevicePropertyPollerService.ts`), except after a POST that
  overlapped a DELETE or failed between two inserts (`CacheInSync`, `NoOrphans`).
- A subscriber converges only without direct commands: a value set directly and changed back before
  the next poll is not reported, since the poller's remembered value never changed.
- A call refused twice saw a credential revoked while it was under way (`RefusedMeansRevoked`): one
  replay is enough for one revocation, not for two.
- Publishes are paced; what mqtt.js resends after a half-open connection is not, and leaves in a burst.
- A write commits twice only if its answer was lost and somebody put the very same version back
  (`CommitsOnce`).
- A token without a `kid` signed by a new key is refused for as long as the key set is cached, since it fits the old
  keys; one with a `kid` only for the cooldown (`RotationIsSeen`).
- The handlers of uncaught errors tear down again, without guard, drain or deadline
  (`miot/index.ts:97-108`; `OneTeardown` excepts a crash).
- The sign-in guard counts only renewals whose delay is already over (`AuthContext.tsx:242-253`): tokens just past the
  skew are renewed once per usable life, and for a token that lives more than 24.8 days past it `setTimeout` fires at
  once, so that it is renewed in a loop nothing counts (`NoRedirectStorm` excepts `TimerOverflows`).
- A logout does not cancel a renewal that is pending: if that one's redirect leaves first, the user comes back signed in
  (`SignedOutStays` excepts `left = "overtaken"`). `isHandlingCallback` takes any `code` or `error` in the query for
  the provider's.
- A page whose own failure is read after the recovery was announced stays failed until the user acts
  (`late`; `ApiStatusContext.tsx:25`). So does one whose load was answered with a 4xx, which pages show beside a status of
  ok (`App.spec.tsx:179-190`), or whose body broke off behind good headers: neither is an outage (`blamed`). A detail
  page left for another one keeps showing the first one's code when the second's load fails (`held`).
- The probe ends with its success. If another request's failure sets the status back before that success is rendered,
  React sees no change, the effect does not run again and the banner stays until a request is reported
  (`dropped`; `useApiStatus.ts:103-105`). A probe is only answered well if the whole list is (`Calm`).
- After a pause `errorCounts` is empty, so the tick that retries a dead device need not be traced, although
  `DevicePropertyPollerService.ts:317-319` says that a tick with a failing device always is.
- `MiotDevice.runWithFreshStamp` does not compare the handshake's device id with the one it knows: after a
  moved lease the call goes on to another device, whose refusal to answer is all that tells.
- Two registrations of one device that overlap both succeed: no unique index covers the device
  (`OneDocument` excepts them), and a poll that read a device before its deletion builds a client for it that
  stays (`ClientOfDocument`, `late`).
- A full-text hit that got its vector between the two legs may be missed by a hybrid search (`NothingMissed`, `late`).

## Not modelled

Wording, logging and exporters; the interactive map feeder (image compositing, no state), the UI kit, dashboard
and configuration files (rendering, values read once); YAML frontmatter; the byte layout and encryption
of packets; the tools of knowledge-base-mcp that forward one read; drawing QR images; wall-clock jumps
under the dispatcher's timer, and the burst of mqtt.js after a half-open connection. `PROJECT.json`, "components",
has the status of every part and "hazards" the list of what is hard to test, with the properties that
cover each.

## Plan

1. Abstract specifications: a document store with compare-and-set that `DocumentWrite` implements; a
   register that `Subscriptions` with `NotificationDispatch` implements for each property.
2. Composition: `DocumentWrite` asking `IndexingLoop` for the run that indexes what was written;
   `UpstreamCall`'s breaker under `OutboundRequest`'s calls.
