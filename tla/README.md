# AIProxyHub: models, checks and proofs

AIProxyHub is a local launcher and gateway. `launcher.py` starts CLIProxyAPI as
a child process and, when the gateway is enabled, puts a threading HTTP server
in front of it which limits, caches and relays the requests of local clients.
This directory models the part of it that decides things concurrently, checks
it with TLC and proves the most important results with TLAPS.

Line numbers refer to `src/launcher.py` unless another file is named.

## Inventory

| Component | State | Operations | Interacts with |
|---|---|---|---|
| Response cache (1008-1385) | `_cache_store` (LRU order), `_cache_bytes`, under `_cache_lock` | `_cache_lookup`, `_cache_put`, `_cache_clear` | request handler, lifecycle, panel |
| Request handler (2448-2823) | its locals; `_cache_inflight`: key to event | hit, stale-while-revalidate, stale-if-error, miss, refresh, no-store, bypass | cache, upstream relay |
| Rate gate (1076-1149, 1794-1820) | `_concurrency_active`, `_ratelimit_hits`, under `_ratelimit_lock` | acquire, check, release, reset | in front of every request; reset by the lifecycle |
| Upstream relay (1834-1986, 2627-2655) | one HTTP connection | relay, capture of event streams | handler, monitor (wake on 403/429) |
| WebSocket bridge (1418-1600, 2100-2446) | frames, messages, response ids | receive, relay events, close | upstream relay |
| Body sanitiser (1603-1740) | none | rewrite of a request body | handler, WebSocket bridge |
| Model aliases (1988-2098) | none | rewrite of one response | handler |
| Lifecycle (2828-3258) | `proxy_process`, `gateway_server`, `proxy_config_path`, under `_lock`; the configuration file | start, stop, restart, watcher, clean-up | clears the cache, resets the gate |
| Settings (522-745, `launcher_settings.py`) | `settings.json`, under `_settings_lock` | load with migration, save | lifecycle, monitor, panel |
| Monitor (`launcher_monitor.py`) | running flag, cancel and wake events | loop, start, stop, trigger | settings, usage summary, relay |
| Ports (3680-3705), usage summary (3373-3419), status (3422-3455), panel API (3458-3677), start-up (298-410, 3717-3840) | small or none | | lifecycle |

What is hard in this code: handler threads interleave around two locks and
around events set outside them; clocks are read before a lock is taken; a fetch
lasts up to 600 s while followers wait 90 s and clients disconnect; the proxy is
restarted while daemon handler threads of the old gateway go on. `PROJECT.json`
lists the hazards, each at its line, with the properties that cover it or the
reason why none does.

What makes the components correct:

* cache: the byte counter is the sum of the sizes, the limits hold, the entry
  just put survives the eviction, answers are within their windows and never
  cross from one credential to another;
* handler: one fetch per key at a time, no event left behind, no follower left
  waiting, no newer answer overwritten by an older one;
* gate: no slot lost or counted twice, the quota holds with clocks out of
  order, `Retry-After` is enough, the table is bounded, a full gate empties unless
  requests that linger hold all of it;
* lifecycle: one child and one gateway in charge at a time, the others on their
  way out; no running child is forgotten; a child reads the configuration of its own start; whatever is called,
  no operation hangs and nothing that was stopped goes on;
* monitor: the running flag is true, a stop ends every loop, an accepted trigger
  is followed by a check at once (which it is not: `TriggerNow`);
* settings: a secret is never replaced by an empty one, nor left in the clear;
* WebSocket bridge: messages and events arrive whole however they are cut, what is
  kept is what was sent, a request is one the upstream accepts, and it ends.

## Modules

`CacheStore` is the cache as a data structure: each operator is the body of one
`with _cache_lock` block, a function from the cache before to the cache after.
The byte counter is updated as the code updates it, never recomputed.

`GatewayCache` extends it to the state machine of the caching path. Every
request runs once in its own thread. Its stage `pc` is the place in `_handle`,
`frame` holds its locals; a step is what a thread does between two points at
which another can intervene:

| Action | Code |
|---|---|
| `Arrive` | 2518-2570: stream flag, cache control, reads the clock of the lookup |
| `Lookup` (`LookupHit`, `LookupStale`, `LookupSie`, `LookupMiss`) | 2662-2707: the lookup under the lock and the branch taken on it |
| `Lead`, `Follow` | `_cache_inflight_begin` |
| `Wake`, `TimeOut` | the two ways `ev.wait(timeout=90)` returns |
| `Relook` | the follower's second lookup, 2708-2722 and 2797-2804 |
| `Fetch` | the fetch and what the leader answers: complete, client gone, event stream, cut off, other status, failure |
| `Put` | `_cache_put` with the clock read before it |
| `EndSet`, `EndPop` | `_cache_inflight_end`, which sets the event before it takes the lock |
| `Pass` | the relay without cache |
| `Clear` | `_cache_clear`, by a start or stop of the proxy or from the panel |

A `threading.Event` is named by the request that created it. A background
refresh, which the code runs in a thread of its own after the handler returned,
goes on under the name of the request that started it. A few variables and
fields are history and influence nothing: `era`, an entry's `by`, `body`, `era`,
a frame's `led` and `seen`, and `sent`, the answer of the last step.

`RateGate` is `_dispatch` with the functions it calls. Time is in ticks, several
to a second, because `Retry-After` truncates. `_handle` is `Serve` when it ends by
itself; `Linger` is a request that goes on for as long as others like, until `Leave`:
a WebSocket session waits for its next message within its slot and without a timeout
(2151-2152, 2503-2505), an upstream may keep an event stream alive, and neither
reading a client's body nor writing to a client is bounded. The history variables are `strays`
(handlers at work that lived through a reset), `clean` (no stray gave back a slot
that was not its own), `recent` (the admissions a client's quota must count, a set
of clock values with a number to tell equal ones apart) and
`others` (how many other clients were seen since, that is whether the bounded
table still has to remember it).

`Lifecycle` has the threads of the panel, each with one operation at a time, the
children with their watchers, and the launcher itself, which may crash at any
moment and start again. The `n`-th child, its gateway and its configuration all
have the number `n`, so that `file` says whose configuration is on disk and
`readCfg` whose a child has read. A thread is in `_lock` between `StartBegin` and
`Serve`, `Spawn` (without a gateway), `Rollback` or an early return:

| Action | Code |
|---|---|
| `StartBegin`, `Select`, `PreflightFails`, `Unmanaged`, `Settle`, `SaveFails` | `start_proxy` up to the settled port (2938-3004), with `_select_proxy_port` |
| `Write`, `WriteFails`, `Spawn`, `SpawnFails` | `generate_proxy_config`, `Popen` and the watcher's thread |
| `Serve`, `ServeFails`, `Rollback` | `start_gateway`, and what is undone when its port is taken |
| `Await` | the polls after the lock, with any of their ends |
| `StopProbe`, `Take`, `NothingToStop`, `Ungate`, `Close`, `EndChild`, `StopUnlink` | `stop_proxy` and `stop_gateway`; a restart goes on to `start` |
| `CleanCheck`, `Sweep` | `secure_cleanup_outputs` |
| `ChildBoots`, `ChildExits`, `WatchUnlink`, `WatchClear` | CLIProxyAPI (external) and `_watch_process_cleanup` |
| `Crash`, `MainSweeps` | the launcher's end without clean-up, and `main()` after it |

`Supervisor` is the abstract specification of whatever the launcher starts: one
thing in charge, those no longer in charge end, nothing comes back. `Lifecycle`
implements it twice, by the mappings `ChildStatus` (a child is in charge while
`proxy_process` refers to it) and `GatewayStatus` (a gateway, while
`gateway_server` does).

`Requests` holds two pure functions: the sanitiser of `/v1/responses` bodies and
the aliases of `/v1/models`, on model names taken apart into the features the code
tests. `SseBlocks` cuts events out of a growing buffer as `_iter_sse_data_strings`
does; beside it is the reference `Events`, the events of a text as a whole: one for
each blank line, from the data lines since the blank line before it. `WsBridge` extends both
to the sessions of `/v1/responses` over WebSocket: `Recv*` receive frames and
assemble messages (`_ws_recv_message`), `Hit` to `MissAgain` are the cache and the
singleflight, `FetchFails` to `StreamEnds` the upstream's stream, chunk by chunk,
`Put`, `EndSet` and `EndPop` what follows it.

`Settings` is `settings.json` with `load_settings`, its migration, and
`save_settings` as functions on the file with a fault of reading, decrypting or
writing. `Monitor` extends it to the loop threads of `launcher_monitor`, the start,
stop and trigger of the panel (start under `_lock`, the others under none),
`/api/save`, which loads, saves and then starts or stops the monitor, and
`start_proxy`'s load and save of all settings for another port.

Components meet at these places: a start or stop of the proxy is `Clear` in
`GatewayCache` and `WsBridge` and `Reset` in `RateGate` (both may happen at any
time there, which is more than `Lifecycle` does); the handlers of
`GatewayCache` and `WsBridge` are `Serve` or `Linger` in `RateGate`; a 403 or 429 is `Wake` in `Monitor`.

Operators introduced as a faulty variant are not used by any specification. They
are plausible mistakes in the operator they precede, and `PROJECT.json` names for
every property the variant that breaks it.

`MCGatewayCache`, `MCRateGate`, `MCWsBridge` and `MCMonitor` hold the constants for
TLC (`Lifecycle` needs none); `CacheStoreProofs`, `GatewayCacheProofs`,
`CacheOrderProofs`, `RateGateProofs`, `LifecycleProofs`, `MonitorProofs` and
`WsBridgeProofs` the proofs. `SequenceFacts` has the facts about numbers and
sequences that three of them share.

## Runs

| Run | Question | Properties |
|---|---|---|
| `CacheFlight` | three handlers, one key, a clear | `Singleflight`, `InflightLive`, `NoLostWakeup`, `PopsOwnEvent`, `Answered` |
| `CacheWindows` | three handlers, normal and refresh, TTL 2 with jitter 1, windows 1 and 2, clock to 3, a clear | `FreshAnswers`, `NoRegress` |
| `CacheCapacity` | three handlers, keys that differ in credential, vary header and prompt, sizes 1-3, limits 2 entries, 2 per body, 3 in total, jitter above the TTL | `TypeOK`, `CacheCoherent`, `OwnAnswers`, `PutSurvives` |
| `Gate` | three handlers, two clients, two slots, quota 2, a window of 3 ticks, table of 1, clock to 3, a reset | `TypeOK`, `NoPhantomSlots`, `ExactWhenClean`, `QuotaHolds`, `RetryAfterSuffices`, `TableBounded`, `Recovers` |
| `Lifecycle` | two threads, three calls or crashes, with and without a gateway | `TypeOK`, `NoChildForgotten`, `RunsItsConfig`, `ChildrenSupervised`, `GatewaysSupervised`, `ComesToRest` |
| `WsBridge` | two sessions, one of them with fragments, binary messages and pings; three streams, two cache controls, a clear | `TypeOK`, `MessagesArriveWhole`, `ChunksMakeNoDifference`, `KeptAsSent`, `ReplayIsTheStream`, `OneLeader`, `UpstreamAccepts`, `RequestsEnd` |
| `Monitor` | two panel threads and the main one, two loops, three calls, one fault, four files to begin with | `TypeOK`, `SecretSurvives`, `NothingInTheClear`, `RunningHasThread`, `StopEndsThreads` |

Five runs show where the code does not do what its texts say:

* `SieWindow` (`SieWithinWindow`): the comments at 2714 and 2727 say a stale entry
  is answered within its stale-if-error window; it is answered after a wait or
  a fetch that can outlast it.
* `RefreshFollower` (`RefreshIsNew`): the comment at 2563 says a refresh does not
  read the cache; one that finds a fetch in flight does, and if that fetch failed
  it is answered with the entry it wanted to have replaced.
* `GateReset` (`InFlightWithinLimit`): `README.md:21` promises a global limit of
  the requests in flight; after a restart, a handler of the old gateway gives
  back a slot of the new one.
* `ConfigRace` (`ConfigOutlivesReader`): the docstring at 3238 says the clean-up
  removes configurations that are not in use; it looks and removes without a
  lock, and a start in between loses the configuration its child has yet to
  read. The watcher of an earlier child (2934) and a stop that waits for one
  (3207) remove the new file in the same way. What does hold is `RunsItsConfig`:
  the child in charge never reads another start's configuration; without its own
  it exits.
* `TriggerNow` (`TriggerIsPrompt`): `API.md:33` says that `/api/ext/trigger_monitor`
  runs a health check immediately (立即执行一次健康检查), and so does its answer
  (`launcher_monitor.py:125`). A trigger that comes during a check, or after it and
  before `_monitor_wake.clear()` (`launcher_monitor.py:78`), is forgotten, and the loop
  waits out its interval, up to a day, before it checks again.

### What the models allow and the properties do not forbid

The modules show the following as it is in the code; it is worth knowing when the
code is changed.

* `Worth` (2406-2412): any event type that ends with `.completed` counts, also that
  of one web search within an answer, so that an answer which then breaks off is
  kept although the comment speaks of `completed` only. `KeptAsSent` says what holds.
* `Replay`: the cache keeps lines, so an event of several data lines is replayed as
  several messages; `ReplayIsTheStream` is about events of one line.
* `Worth` again: a message is looked at as a whole, so that an event of several data
  lines, one of which alone would say that the answer has failed, is no failure.
  `KeptAsSent` is therefore about the events of an entry and not about its lines;
  that it is false of the lines came to light when it was to be proved
  (the stream `failed` LF `delta` LF LF `completed` breaks it).
* `Linger`: as many idle WebSocket sessions as there are slots keep the gate full for
  as long as their clients stay connected. `Recovers` has them as its exception.
* `LoopConfig` (`launcher_monitor.py:28`): an interval that is no number kills the
  thread and leaves the flag set. `RunningHasThread` has that thread as its exception.
* `AfterLoad` in `Settings`: after a failed read or decryption, the next load or save
  stores the defaults over the old values. `SecretSurvives` and `NothingInTheClear`
  are about runs without a fault.
* `MainSweeps`: an old child that a crash left behind answers `main()`'s probe, and the
  configuration stays. `ComesToRest` asks for its removal only when none was left.
* `Arrive`: the clock of a lookup is read before it waits for `_cache_lock`.
  `FreshAnswers` measures an answer by that clock value.
* `StartChecks`, `StopEnds`: a stop and a start during a check leave two loops for a
  while, and the end of the first clears the flag of the second. `StopEndsThreads`
  and `RunningHasThread` hold.
* `PortSaves`: `start_proxy` writes back all it loaded, over whatever the panel saved in
  between. `SecretSurvives` holds since the form's blank secret is filled in from
  the file.
* `SpawnFails`: when `Popen` raises, the configuration stays and
  `proxy_config_path` names it.

### Bounds

Three handlers are the leader, a follower and a third that arrives between the
end of the one and the return of the other, or that a clear cuts off from them
and makes the leader's successor. One clear makes one successor. The clock of `CacheWindows` passes every
boundary of an entry put at time 0 with the shorter lifetime (expiry, end of the
first window, end of the second). The limits of `CacheCapacity` make a body too
large to store, each eviction loop and one put that evicts by both happen; a body
within its own limit but above the total one is not among them.
`Gate` needs clocks to be read out of order, two clients to push one out of a table
of one, a clock that reaches the end of the first window, and two requests that
linger in both slots while a third handler is turned away; larger tables, quotas and
limits are left to the proofs.
`MaxTime`, `MaxClears`, `MaxResets`, `MaxOps`, `MaxCalls`, `MaxLoops` and `MaxFaults` are
the bounds on counters; none appears in a guard of a request's own step, except
that `Lifecycle!Write` keeps to the numbers of `Starts` and `Monitor!StartChecks` to
those of `Loops`. A caller that would start a third loop stays where it is, with
nothing taken or held.

Three calls in `Lifecycle` are a start, a stop and a start between which the first
child's watcher and the stop's tail can still act, a restart beside two others, or
a crash with what was before and after it; two threads are enough for one inside
the lock and one that decided before it. `Starts` and `Ports` follow from `MaxOps`.
`Foreign` is `"none"` in the runs; the proofs are for all its values. `ConfigRace`
needs two calls only.
The sessions of `WsBridge` ask for one model, so that all three of leader, follower
and bypass meet on a key; its streams are one that is kept, cut within the
separator, one longer than `MaxLines` with a two-line event, and one that fails,
cut within the event. Clients conform to RFC 6455 (no continuation without a
start), which the code does not check. The files `Monitor` begins with are none,
one of this version with the monitor on, one with the secret in the clear, and
one with a retired field.

`CacheWindows`, `CacheCapacity`, `SieWindow`, `RefreshFollower` and `GateReset` use
symmetry of threads (the last of clients too), which no definition tells apart; the runs with liveness properties do
not.

### Fairness

`GatewayCache!FairSpec`: some thread that can take a step takes one. Every
request is made once, so this is as much as fairness to each thread. A fetch
ends because its connection has a timeout; nothing is assumed of arrivals, of
clears, or of the 90 s timeout of a wait, which `Answered` therefore does not
depend on. That a client reads its answer is taken for granted there: writes to it
have no timeout. `RateGate!FairSpec`: some handler that can check, end its request or
give its slot back does so. A request that lingers need not end, and any request that
is being served may turn out to; the others end because the connection to the
upstream has a timeout. `WsBridge!FairSpec`: each session that serves a request goes on, for
the same reason; nothing is assumed of what clients send or when, nor of the 90 s.
`Lifecycle!FairSpec`: some thread of the launcher that can take a step takes one; the
operations and the steps of each are few, so this is fairness to each, and nobody
who waits for `_lock` waits for anything else. Calls, exits of children and crashes
are free. `Monitor!FairSpec`: each loop and each call once begun goes on; a wait of
the loop ends after its interval, at most a day; that anybody calls is not assumed.

`CHECK_DEADLOCK FALSE` is in the configurations of the bounded models: when the
requests, calls and crashes they allow are used up, they stop.

## Proofs

The proofs are for every value of the constants that satisfies the named
assumptions. `CacheConfig`, `GatewayConfig` and `GateConfig` are what
`_gateway_set_config_from_settings` guarantees of the configuration;
`LifecycleConfig` only types constants. `MonitorConfig` says in addition that no
`settings.json` with an empty secret is found at the beginning. `WsConfig` says that
an upstream which has a model under a name that stands for another one (as
`gpt-5.X-codex-high` does) has that one too: without it the sanitiser would name a
model the upstream does not know. It also says what a client that conforms to
RFC 6455 sends (`Scripts`, `Carries`): each message in one frame or in several, the
first of which names its opcode and the last of which has FIN, with control frames
anywhere. Of the streams it assumes no more than that they are text in chunks,
empty ones included. Proved are:

* `GatewayCacheProofs`: `TypeCorrect`, `AtMostOneFetch`, `EventsHaveLeaders`,
  `WaitersCanWake`, `LeadersPopTheirOwn`, `AnswersAreOwn`, `AnswersAreFresh`;
* `CacheOrderProofs`: `NoLeaderOverwritesNewer`, from `OrderIsKept`, and
  `CounterAgrees` and `PutsSurvive`;
* `RateGateProofs`: `NoSlotIsLost`, `LimitHoldsWhenClean`, and from `GateInductive`
  `GateTypes`, `QuotaIsKept`, `TableIsBounded`, `RetryIsEnough`;
* `LifecycleProofs`: `TypeCorrect`, `NoneForgotten`, `OwnConfig`, and the two refinements
  `SupervisesChildren` and `SupervisesGateways`, all from `Invariance`;
* `MonitorProofs`: `TypeCorrect`, `SecretIsKept`, `SecretIsSealed`, `FlagHasThread`;
* `WsBridgeProofs`: `AtMostOneLeader`, `ListedModelsWork`, from `Serving` also
  `BridgeTypes`, `AnyChunks`, `OnlyWholeAnswers` and `FaithfulReplay`, and
  `WholeMessages`.

These are all the safety properties the passing runs check.

The inductive invariant `IInv` of the first has three parts. `FlightInv` says
that the owners of the events in the table are exactly the leaders of the present
era (`OwnersLead`, `LeadersOwn`), that a leader about to remove its event has set
it, and that a waiter's leader has yet to. `Singleflight` alone is not inductive:
a second leader is impossible only because a leader of this era still owns the
entry in the table, which survives the steps of leaders left over by a clear
because `_cache_inflight_end` checks `is ev`. `OwnInv` follows an answer from the
leader that fetched it through the cache and a follower's locals to a client:
`Good` is the set of entries that may be stored, and every place an entry can be
in stays within it. `TypeOK` needs `OwnInv`, since only there is it known that
what is put was fetched. `CacheStoreProofs` has the lemmas about the cache's
operators: each keeps the sequence within whatever set its entries came from.

`NoRegress` needs two things beyond that, which `OrderInv` adds. A key must not be
stored twice, or a lookup that deletes an entry would uncover an older one
(`Unique`, kept by each of the cache's operators). And a thread about to put has
read its clock before it takes the lock, so that the answer it overwrites could be
of a later time: it is not, since everything stored is from before now (`Past`)
when the clock is read, and whoever could store under the same key afterwards
would be a second leader of the era (`Earlier`, kept by `Singleflight`).

What the byte counter is, is a running total: `CacheStore` defines the sum of the
sizes by recursion along the store. That the code's updates keep to it is a lemma for
each operator (`LookupBalanced`, `DropBalanced`, `PutBalanced`). Their induction is
in `SequenceFacts`: a set of numbers that has 0 and with n also n + 1 has them all
(`NumbersFromZero`, from the least number not in it), and a function that satisfies
the equations of the recursion exists (`RunningTotal`). `CoherentInv` adds the limits
and that nothing larger than one body's limit is stored. With it a put cannot evict
what it has just put (`PutsSurvive`): the eviction takes the oldest entries while
a limit is exceeded, and the newest alone exceeds none, because a body that would is
refused before.

`SlotInv` states both properties of the slots with the fact that strays are at
work; `NoPhantomSlots` is inductive with it, `ExactWhenClean` by the way `clean`
is defined. The proof has separate lemmas for a handler's own release and a
stray's, which is where the two differ.

The quota is the harder part of the gate. The deque of a client is not sorted, since
handlers read their clocks before they take the lock, and expired hits are only
dropped from its head; nor does it hold every admission the quota has to count. What
is true is `Accounted`: whenever a check with clock t would find room, the deque has
a hit for every admission in the window that ends at t. It is kept for every t at
once (`RateInv`), because the next handler may come with any clock. The bounded
table is why `OldestFirst` is needed: whoever stands behind an identity in the table
was seen after it, so that an identity is only forgotten when as many others as the
table holds were seen since. `RetryIsEnough` is about a deque at the moment of a
rejection and holds by the arithmetic of the truncated division.

The `IInv` of `LifecycleProofs` joins what the launcher's globals say of each other
while the lock is held and while it is not. `RunsItsConfig` alone is not
inductive: that a child finds its own configuration or none (`OwnFile`) needs that
nobody writes a file while a live child is registered, which is so because a
start that got past `StartBegin` still sees none (`FreshStart`), because only the
holder of the lock registers a child (`LockDiscipline`), and because a start
writes the number its child will have (`Numbered`, `Ready`). That a gateway opens
with no other in charge is `LockedPart` and `Serving`. `NoChildForgotten` needs
`FreshStart` too, also for a start that rolls back, and that a watcher gets to the
references only when its child has ended (`Watched`). Everything else that touches
the file or the globals without a lock only removes: this is why the races of
`ConfigRace` cost a child its configuration but never give it another's. Each part
has a lemma with one step per action; `ChildStep` and `GatewayStep` then map each
action to a step of `Supervisor` or a stutter.

The `IInv` of `MonitorProofs` says of the file that it has a secret, and once the
program has started also that nothing in it is in the clear (`FileInv`, `Sealed`):
every load migrates what it finds and every save writes a sealed file, so that
each of the callers and loops keeps it, in whatever order. That nobody
is served before that is `Booting`. `RunningHasThread` is inductive with
`Spawning`: between the check of the flag and the start of the thread nobody else
starts one, for both are under `_lock`.

The `IInv` of `WsBridgeProofs` is the argument of the singleflight once more, for
sessions that make one request after another: an event is named by its session and
the number of its request, a leader's event is its own (`Leaders`) and stays in the
table until it removes it or the cache is cleared (`TableOwned`). `Asking` says that
what a session asks for came out of the sanitiser; `ListedIsAccepted` that every
name of the list, in either spelling, comes out as a model the upstream has.

`Served` is the invariant of the answers. That the client was sent the events of the
text so far is not inductive: the buffer may end within a separator, and whether it
does depends on what comes next. `InStep` therefore quantifies over whatever comes
next: for every continuation z, the events of what was received and z are what was
sent and the events of the buffer and z. To read a chunk keeps this by associativity;
to emit a block keeps it because the first blank line of a text is that of every
longer text (`FirstBreak`) and the events of a text are the message before its first
blank line and the events of the rest (`FirstEvent`, by the shift of all positions in
`Events`). What is captured is what was sent, put together (`FlattenConcat`), unless
it was dropped; `Worth` then gives what an entry has, and a replay its events again.

`Receiving` says of each client where it is in its script: the frames still to come,
the messages among those received, and that the part being assembled is the beginning
of the next message. One frame more changes two cardinalities (`CountStep`), and
`Carries` says what such a frame must be.

Only model-checked is liveness, which the prover does not reach (`Answered`,
`Recovers`, `ComesToRest`, `RequestsEnd`, `StopEndsThreads`).
`ConfigOutlivesReader` does not hold, as its run shows, nor do the properties of the
other runs that expect a violation. The proofs needed three definitions in another
form than TLC alone would have: `CacheStore!Bytes` and `SseBlocks!DataLines` are
written without the higher-order folds and filters of the library, and `recent` is a
set instead of a sequence.

## Not modelled, and why

* Bodies, headers and JSON: a prompt stands for all bodies with the same
  canonical form, and SHA-256 is taken to be injective. In `Requests` a body is the
  fields the sanitiser rewrites; one that cannot be parsed passes as it is.
* The header filters and the chunk loop of the HTTP relay (1834-1986): what can go
  wrong there depends on the lengths of bodies (`PROJECT.json` has the hazard). How a
  relay may end is in `GatewayCache`.
* Statistics, token counts, the usage summary and the status, which only report.
* A change of the configuration at a restart: the constants are those of one run.
* The client's connection, except that it can be gone when it is written to.
* Requests that are not cacheable; they are `Serve`, or `Linger` and `Leave`, in
  `RateGate`.
* WebSocket frames that do not conform, masks and lengths, the handshake's headers.
* The text of the YAML configuration, DPAPI, and deletions that fail
  (`_safe_unlink` overwrites, unlinks and lets pass what it cannot remove).
* The launcher's orderly end: its `atexit` handlers (780) unlink the configurations
  it wrote when its non-daemon threads are over.
* The single-instance mutex, the port file, paths, preflight, the log ring and the
  panel's page: operating-system calls run once, or output. The authentication of
  the panel's API.
* Scripts and installer: they drive the program from outside.

## What could come next

1. `CacheSpec`, an abstract cache (a key has at most one answer, which was fetched
   for it in this era), and the refinement of `GatewayCache` to it.
2. The relay with lengths of bodies; the gate, cache and lifecycle composed, with
   the background refreshes that no slot counts.
3. The gateway's access rules and the settings as operators, with proofs that the
   sanitiser is idempotent and that a migration loses no field.
