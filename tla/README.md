# OmniRoute in TLA+

OmniRoute is an AI gateway: clients send chat requests in one of several API formats, and
the gateway picks a provider, an account (a *connection*) and a model, translates the
request, sends it upstream, and falls back to other accounts or models when that fails.
It is one Node.js process with a SQLite database. What can go wrong in it is mostly in the
*resilience core*: in-memory state shared by all requests in flight (circuit breakers,
semaphores, cooldowns, queues, leases), changed by handlers that interleave at every
`await`, by timers, by operators, and partly restored from the database after a restart.
This directory models that core.

Paths below are relative to the repository.

## 1. Inventory

| component | state | operations | hard behaviour | what makes it correct | here |
|---|---|---|---|---|---|
| Provider circuit breaker, `src/shared/utils/circuitBreaker.ts` | per provider: state, failure count, time of the last failure, probe slots, open cycles, per-kind counts; a row of `domain_circuit_breakers` | `execute`, `canExecute`, `getStatus`, `_onSuccess`, `_onFailure`, `reset`, persist, restore; registry sweep and eviction | late answers of earlier episodes, lazy recovery, restart, several accounting paths | counters agree with the state, probes bounded, only evidence closes, backoff kept, row durable, recovery | `CircuitBreaker`, `ProviderBreaker` |
| Chat path, `src/sse/handlers/chat.ts`, `chatHelpers.ts` | a request's attempt, excluded accounts | gate, dispatch, retry, next account, accounting | gate and dispatch are separated by awaits | each outcome counted once, nothing the provider never saw counted | `ProviderBreaker` (breaker side) |
| Combo accounting, `open-sse/services/combo.ts`, `accountFallback.ts` | connection dedup windows; cooldowns, lockouts | pre-screen, `recordProviderFailure`, `recordProviderSuccess` | recording happens long after dispatch | a running cooldown is not moved | `ProviderBreaker` (breaker side) |
| Rate-limit semaphore, `open-sse/services/rateLimitSemaphore.ts` | per key: running, max, queue, pause; drain timers | `acquire`, release, `markRateLimited` | gate objects deleted and recreated under running timers | permits add up, nobody stranded, cap, pause | `RateLimitSemaphore` |
| Account semaphore, `open-sse/services/accountSemaphore.ts` | per key: running, limit, queue, block, cleanup timer; the queued requests | `acquireMany`, release, `markBlocked`, `unblock`, `reset`, `resetAll` | one request waits in several queues at once | no partial holding, FIFO, no lost wake-up, limits | `AccountSemaphore` |
| Exclusive connection leases, `src/lib/db/exclusiveConnectionLeases.ts`, `src/sse/services/exclusiveConnectionLeasePolicy.ts`, `auth.ts`, `/v1/session-leases` | lease rows: owner, key, connection, generation, expiry; managed requests in flight | acquire, renew, release, transition, invalidate, reconcile, fence | expiry and other requests between selection, claim and attempt; restart | one owner per connection, an ended generation stays ended, no execution of an upstream call on another's connection | `LeaseSpec`, `ExclusiveLease` |
| Adaptive admission, `open-sse/services/admission/` | active cost, fair queue, tenant lanes, adaptive limit, pressure | acquire, release, deadline, abort, tick, pressure, lane eviction; updateConfig, shutdown | weighted fair queue under a limit that moves below what is waiting and running | limit respected, no lost wake-up, a heavy request not passed for ever, everyone answered, limit recovers | `FairCostQueue`, `AdmissionController` |
| Refresh serializer and token refresh, `open-sse/services/refreshSerializer.ts`, `tokenRefresh.ts`, `tokenRefresh/` and their callers | promise tail per rotation group, promise per connection, rotation map, tokens in the database | `serializeRefresh`, `getAccessToken`, persist, compare-and-swap guard, late write, rejection | stale credentials after every wait; executors that refresh past mutex and lane; a refresh that asks for the lane it holds; the endpoint revokes a family at the reuse of a token; lost answers, failed reads and writes | through `getAccessToken`, one refresh per group and connection, no account lost, every call returns; the lane keeps moving | `RefreshLane`, `TokenRefresh`, `QuotaRefresh` |
| Quota-share counter, `open-sse/services/combo/quotaShareInflight.ts` | expiries per connection | increment, decrement, read | a release does not name its lease | the count converges to the truth | planned |
| Request deduplication, `open-sse/services/requestDedup.ts` | shared promise per request hash | `deduplicate` | eviction and timer against completion | one call per hash, everyone answered | planned |
| Account cooldowns and model lockouts, `open-sse/services/accountFallback.ts`, `src/sse/services/auth.ts` | cooldown, backoff level, lockout | mark, expire, clear | expiry against selection | backoff grows and decays as documented | planned |
| Rate-limit manager | Bottleneck limiters | schedule, learn, watchdog | queueing is a library's | | no |
| Combo strategies, session affinity, batch jobs, translators, streaming, dashboard | | | heuristics, data conversion or I/O | | no |

**Interaction.** A request passes the gate of its provider's breaker, selects an account,
is admitted by the account semaphore and (round-robin combos) the rate-limit semaphore,
and is dispatched through `breaker.execute()`. Its outcome is accounted to the breaker by
the chat path (single-model requests) or by the combo loop (combo targets), to the
account's cooldown and to the semaphore's pause. Operators reset breakers and semaphores
from the dashboard API. All of this is shared memory on one thread; the atomic step of
every model is therefore the code between two `await`s.

## 2. The modules

### CircuitBreaker
The `CircuitBreaker` class, as operators from one breaker value to the next, named as its
methods are: `Refresh` (`_refreshOpenState`), `CanExecute`, `TakeSlot` (the decrement in
`execute`), `OnSuccess`, `OnFailure`, `Reset`, and `Row`/`Restore` for persistence. Time is
relative: the code compares `Date.now() - lastFailureTime` with a cooldown and looks at the
clock for nothing else, so a breaker carries the *age* of its last failure. Counters that
are only compared with a threshold saturate at a named cap (`CountCap`, `CycleCap`,
`AgeCap`), and `BreakerAssumption` keeps every cap at or above whatever it is compared
with, so saturation changes no decision.

### ProviderBreaker
One registered breaker, its row, and the requests that share it.

| action | code |
|---|---|
| `ScreenTarget` | the combo loop's circuit pre-screen |
| `GateAdmits`, `GateRejects` | `checkPipelineGates` |
| `BailOut`, `AllAccountsLimited` | no credentials; all accounts rate limited, with its `_onFailure` |
| `Execute`, `ExecuteRejects`, `DispatchPinned` | `breaker.execute()` and the bypass for forced connections |
| `SingleSucceeds`, `ComboSucceeds`, `OutcomeIgnored`, `UpstreamFails`, `ExecuteThrows` | the upstream's answer |
| `TryAgain`, `SingleCounted`, `ComboRecorded`, `ComboDropped` | settling a failure: retry, `_onFailure`, `recordProviderFailure` |
| `Poll`, `ManualReset`, `Restart`, `Tick` | readers, `POST /api/resilience/reset`, crash and restart, the clock |

Which upstream statuses count, and which failures are exempt, is a nondeterministic choice
between the actions. `probes` and `rejected` are history variables: the dispatches that hold
a slot of the current HALF_OPEN episode, and the failed requests whose 503 the breaker made.

### RateLimitSemaphore
One key of `rateLimitSemaphore.ts`. `markRateLimited`'s timer closes over a gate *object*
while `drainQueue` looks the key up again, so gate objects have identities (`GateIds`) and
`registered` names the one in the map. `Store` is the "delete when idle" every path ends
with. `cooldown` is a history variable: what is left of the cooldown marked last.

### AccountSemaphore
All keys of `accountSemaphore.ts`. `waiting` is `queuedRequests` in insertion order; each
gate has its own queue. `Drained` is the loop of `drainQueues`, a recursive function of the
rounds: as many as there are waiters, each of which admits the first one that can acquire.
Requests leave a queue by `Kept` of the module `Subsequences`, the filter of an array.
`stale`, `robbed` and `unnoticed` are history variables: permits of gates reset since,
gates that took back a permit another gate gave, and gates that gained room without a
drain (a block that ran out, a limit raised by a call that was then rejected). A cleanup
timer that `reset(key)` may leave on the gate object it deletes is not modelled: when it
fires, it can only delete a gate of that key that is idle and not blocked. `reset(key)` has
no caller in production; `resetAll` is the admin route's `reset-semaphores`.

### LeaseSpec and ExclusiveLease
`LeaseSpec` says what exclusive leases promise without rows, clocks or requests: `Grant`,
`Move`, `End` of a binding between an owner and a connection. `ExclusiveLease` is the code:

| action | code |
|---|---|
| `Renew`, `Release`, `Reconcile` | renewal and release through the lifecycle endpoint, and the expiry that every read of the table starts with; each is one immediate transaction that first expires what has run out, so a renewal or release that the fence refuses is a `Reconcile` |
| `SelectNone`, `SelectRefused`, `SelectWaits`, `Select` | `getProviderCredentials` for a managed request or an acquire call |
| `CommitActive`, `CommitAcquire`, `CommitLost`, `PreflightBlocks` | after the quota preflight: transition of the active lease, a new lease, the connection lost meanwhile, the connection blocked |
| `Execute`, `FenceRejects` | `assertManagedLeaseFence` before each `executor.execute()`: the first, that of the stream recovery, the one after a token refresh |
| `Fetch`, `Refetch`, `Finish` | the executor's own fetches, retries and further URLs inside one execution, which ask no fence; the answer |
| `Tick`, `Restart` | the clock; a crash, which loses the requests and keeps the rows |

A row carries the time it has left. `Implements` maps the binding of an owner to its newest
row while that is active with time left, reconciled or not, and instances `LeaseSpec`.

### RefreshLane and TokenRefresh
`RefreshLane` is `serializeRefresh`: a promise is named by the caller that resolves it, the
map `groupTail` holds the tail of each lane, and a caller waits for its `prevTail`.

`TokenRefresh` EXTENDS it with `getAccessToken` and its callers. A refresh token is its
generation. The *kinds* of caller differ in what they do with an answer: `request`,
`executor`, `reactive` (after a 401), `sweep`, `manual`, `export`, and `edit`, an operator's
update of the connection, which rewrites the whole row after an await. `Direct` names the
connections whose executor does not call `getAccessToken` (those of kiro, grok-cli, xai,
antigravity, github and others): its `executor` and `reactive` refreshes are `DirectPost` and
`DeliverDirectly`, past mutex, rotation map, staleness check and lane, and their answer is
written by `LateWrite`. Requests, the sweep and the routes refresh the same connections
through `getAccessToken`. `Join` and `Own` are
the per-connection mutex, `RowIsFresh`, `Chain`, `ChainUnread` the staleness check, `Post`
and `Answer` the exchange with the endpoint, `Guard`, `Persist`, `Settle` the guarded write
inside the mutex, `LateWrite`, `Retry`, `Deactivate`, `GiveUp` what the caller does next.
The token endpoint (`Honoured`, `AnswerRotates`, `AnswerReused`, ...) is external: it honours
the newest token and revokes the family at the reuse of an older one, as the comments of
`tokenRefresh.ts` say of the providers. *Faults* (a lost answer, a refused refresh, a failed
write or read of the row) happen where the configuration allows them. `faulted` is a history
variable: the connections whose family is no longer safe, by a fault, by a write that puts
an older row back, or by a `DirectPost`. Promise continuations run before
timers and network events (`ContinuationsDone`).

### QuotaRefresh
`credentialRefresh.ts`, the refresh of the quota page and of the warm-up, as far as the lane
is concerned: `Ask` and `Run` take a turn, `RefreshCredentials` is the executor's
`getAccessToken` inside that turn, a caller of its own (`InnerOf`) that enters the same lane
or is answered without it, and `Finish` waits for its answer. What the path reads and writes
is not modelled.

### FairCostQueue and AdmissionController
`FairCostQueue` is `queue.ts` as operators on a queue value: `Enqueue`, `NextPlace` and
`Take` (together `dequeue`), `RemoveById`. `AdmissionController` is the controller in mode
`enforce`, with the adaptation of its limit. No method awaits, so the controller is one
record and each method an operator from record to record; an action applies the whole
method, its `dispatch()` included. `Dispatch` is the loop of `dispatch()`, a recursive
function of its rounds: each serves one entry, so there are as many as the queue has entries.
The turns of `DispatchLanes` are another, and `ServeLane` is the whole of a lane's turn.
`age` is the time an entry has waited; it stops at `AgeCap`, the later of deadline and lane
eviction, for everyone at once until the entry that reached it is answered, so that the order
of arrival, which decides between reserved heads, is never lost. Pressure, utilization and the latency gradient are what a sample or a window may
say of them; the factors and the step are the defaults (0.5, 0.8, 1).

| action | code |
|---|---|
| `AcquireAdmits`, `AcquireQueues`, `AcquireRejects` | the runtime's `acquire`: pressure first, then `controller.acquire` |
| `Release`, `Deadline`, `Abort` | `lease.release`, the entry's timer, its abort listener |
| `WindowTick`, `LaneEviction`, `ClockTick` | `tick`, the lane timer, time |

### MC modules
`MCProviderBreaker`, `MCRateLimitSemaphore`, `MCAccountSemaphore`, `MCExclusiveLease`,
`MCTokenRefresh`, `MCQuotaRefresh` and `MCAdmissionController` give values to the constants; the configurations
name the specification, the bounds and the properties.

## 3. What is checked

| run | specification and bounds | shows |
|---|---|---|
| `breaker_safety` | `FairSpec`; 2 requests, single, combo and pinned, thresholds 2 and 3, one probe, backoff 1-2x, one retry, dedup window 1, 429 hints | `ThresholdBands`, `ProbeBound`, `DurableStateAgrees`, `ClosesOnEvidence`, `EscalationForgottenOnlyByClose`, `ComboFailureKeepsCooldown`, `OpenCools` |
| `breaker_wedge` | `FairSpec`; 2 single or combo requests, both thresholds 2, no backoff | **violated**: `SpentProbesRecover` |
| `breaker_rejection` | the same under `Spec` | **violated**: `OwnRejectionNotCounted` |
| `rate_limit_safety` | 5 callers, cap 2, queue 3, cooldowns 1 and 2, 3 timers, 4 gate objects | `PermitsAccounted`, `WaitersReachable`, `WakeupPending` |
| `rate_limit_pause` | 3 callers, cap 1 | **violated**: `PauseHolds` |
| `account_safety` | 3 requests, 2 accounts behind a provider gate whose limit is 1 or 2, queue 2, blocks | `QueuesAgree`, `WaitersHoldNothing`, `PermitsAccounted`, `NoIdleCapacity`, `NoOvertaking` |
| `lease_safety` | 2 owners with 2 keys, 2 connections, 2 requests in flight, 2 generations per owner, leases of 1 tick, 2 executions each | `ExclusiveBindings`, `OnlyNewestActive`, `EndedStaysEnded`, `ExecutionsAreExclusive`, `OnlyHolderMoves`, and the refinement `Implements` |
| `lease_fetch` | 2 owners, 1 connection, 2 requests | **violated**: `FetchesAreExclusive` |
| `refresh_safety` | `FairSpec`; 2 callers, 2 sibling accounts of one group: one refreshed after a 401 by both callers, the other by the sweep, by an executor that posts itself, and edited; every fault, one rotation | `SiblingsPostAlone`, `OneRefreshPerConnection`, `AccountsSurvive`, `CallsReturn` |
| `refresh_skip` | 2 reactive callers, one account, no faults, two rotations | **violated**: `SkippedPersistStaysSkipped` |
| `quota_nested` | `FairSpec`; the quota page of one account, a request of a sibling | **violated**: `LaneFlows` |
| `admission_safety` | `FairSpec`; 2 tenants, 4 requests, one of weight 2, limit 1 to 3 starting at 2, queues of 3, deadline after 2 ticks, lanes on and off | `RotationSound`, `NoRoomWasted`, `AdmitsWithinLimit`, `ReservedNotPassed`, `WaitersAnswered`, `IdleRecovers` |

Each run also checks the module's `TypeOK` where it expects no violation, and deadlock, except
`refresh_safety`: with one rotation and every fault all accounts may have lost their token,
after which nothing calls the endpoint any more.

**Why the bounds are enough to be interesting.** With two requests a late answer of one
meets any state the other brought the breaker to, and thresholds 2 and 3 separate CLOSED,
DEGRADED and OPEN; the theorems of section 4 then hold for every number. Five callers
against cap 2 and a queue of 3 fill the rate-limit gate and its queue at once, and three
timers over four gate objects let a timer fire for an object that has been replaced. Three
requests over two accounts and a shared provider gate are the least in which one waiter can
go while an older one of another account cannot.

For leases, two owners compete for two connections while a second generation of either is
granted, and two requests of one owner race each other's claim; a lease of one tick expires
between any two steps, and a second execution meets whatever the first one's fetches took. For refreshes, two callers are the least that chain in a lane, join
each other's refresh, or present the same token twice; one rotation makes a token stale, the
second (`refresh_skip`) makes a skipped token differ from the row's. A real
group has executors of one kind; the instance gives each sibling its own, so that a direct
refresh meets the sweep's of the same account and a reactive one of the other, in the lane
and outside it. Pinned combo targets and more callers of each kind are left to the proofs. In the admission
instance the weight-2 request is passed by two light ones of the other tenant, after which it
reserves, a light one waits behind it in its own bucket, and the limit falls below what runs,
below what waits and below the weight itself. The proofs make the bounds immaterial for
safety; liveness rests on the instances.

**Fairness.** `FairSpec` of `ProviderBreaker` assumes weak fairness of the clock, of
arrivals in each request slot, and of each admitted request's next step: every await of the
handler is bounded by a timeout, and recovery is lazy, so it is traffic (or a dashboard
poll) that drives it. Nothing is assumed of resets, restarts, probes succeeding or polls.
`OpenCools` is about behaviours in which pinned requests come to an end: they bypass the
gate, and a stream of failing ones moves `lastFailureTime` of an OPEN circuit for ever.

`TokenRefresh` assumes weak fairness of each caller's own steps (the event loop runs a
promise until it settles) and strong fairness of answers and settle timers, which other
continuations may delay but not for ever; every upstream fetch is bounded by a timeout, whose
end is one of the answers. Nothing is assumed of give-ups or expiries.

`AdmissionController` assumes that timers fire: time, the window's and each entry's deadline.
Releases are not assumed, since they wait for upstreams and clients: a waiter is answered by
its deadline if nothing else. `TimersFire` writes weak fairness with the condition under
which each action changes something spelt out, which TLC evaluates much faster than
`ENABLED` over `Dispatch`.

### What the violated properties show
1. **A spent probe can wedge a provider in HALF_OPEN** (`SpentProbesRecover`). `execute()`
   takes the slot; the chat path classifies resolved results as `"ignore"`; if the probe ends
   in an outcome nobody accounts for (429, 401, a client abort, an exempt combo failure),
   nothing returns the slot or moves the state, every gate rejects, and
   `recordProviderFailure` returns at its `canExecute()` guard. Only a reset, a restart, a
   late answer of an older dispatch or a success of a pinned request helps.
2. **The breaker counts its own 503** (`OwnRejectionNotCounted`): a request rejected by
   `execute()` is settled as a provider failure on the single-model path.
3. **A pause is forgotten** (`PauseHolds`): the last release deletes the gate with its pause.
4. **Fetches are not fenced** (`FetchesAreExclusive`): the lease fence is asked once per
   `executor.execute()`, which then refreshes, backs off and fetches again without it;
   `docs/reference/API_REFERENCE.md:167-168` promises it "immediately before each supported
   upstream attempt". What holds is `ExecutionsAreExclusive`.
5. **A skipped persist is written after all** (`SkippedPersistStaysSkipped`): the guard keeps
   a superseded token out of the row inside the mutex, but the reactive path of `chatCore.ts`
   takes "no persist ran" for an executor without a persist and writes the token afterwards.
6. **The quota page can block a rotation lane for ever** (`LaneFlows`): it refreshes inside
   `serializeRefresh`, and the executors of codex, openai, claude, gitlab-duo and kimi-coding
   call `getAccessToken`, which enters the lane of the same group again and waits behind its
   own caller; every later refresh of the group waits behind both.

Met while modelling and not made a run of:
- *Rate-limit semaphore*: a pause lifts the cap. `markRateLimited` calls `getGate` without the
  caller's cap, which resets `max` to 3 (`rateLimitSemaphore.ts:189`), so more requests run
  than the combo configured.
- *Account semaphore*: after `resetAll` a permit given before it decrements the new gate when
  it is released, and that gate admits one more than its limit (`accountSemaphore.ts:178`);
  `PermitsAccounted` names such gates `robbed`.
- *Direct refreshes*: for kiro, which has a rotation group, the refresh after a 401 posts
  outside the lane (`kiro.ts:1066-1076`), so that "two siblings never POST to /oauth/token
  concurrently" (`refreshSerializer.ts:13-16`) is false of it, and it may present a token that
  was consumed by the sweep. The properties and theorems below except these refreshes by name.
- *Leases*: a managed request prefers its binding, but the OAuth occupancy comparison that
  follows (`auth.ts:2052-2070`) may replace it by a less occupied peer although the binding
  is eligible; `docs/architecture/RESILIENCE_GUIDE.md:141` says the binding is retained.
- *Admission queue*: a bucket that empties leaves the cursor in place, and a tenant that
  queues again goes to the tail. A tenant before the cursor can therefore be passed by two
  others that keep emptying and refilling their buckets, without its skip count growing (it
  was not served past, it was not reached); only its deadline ends the wait.
- *Admission lanes*: a dispatch admits at most one entry per lane and starts at the first
  lane each time, so room may stay unused until the next dispatch, and with lanes on an
  arrival that fits is admitted past requests queued in lanes.
- *Admission*: a reserved head whose weight exceeds a collapsed limit holds the queue, though
  nothing runs, until its deadline or until the limit has recovered.

## 4. What is proved

Proved theorems hold for every value of the constants that the named assumptions of the
modules allow; TLC evaluates these assumptions in the runs.

### The breaker
`ProviderBreakerProofs` proves, for every set of requests, every thresholds, cooldowns,
kinds and caps allowed by `BreakerAssumption` and `RequestAssumption`, that the
specification `Spec` of `ProviderBreaker` satisfies

- `TypeCorrect` (`TypeOK`), `BandsHold` (`ThresholdBands`), `ProbesBounded` (`ProbeBound`),
  `StateIsDurable` (`DurableStateAgrees`);
- `ClosingNeedsEvidence` (`ClosesOnEvidence`), `EscalationKept`
  (`EscalationForgottenOnlyByClose`), `ComboKeepsCooldown` (`ComboFailureKeepsCooldown`).

**The inductive invariant.** `IInv` is `TypeOK`, `ThresholdBands`, `ProbeBound` and
`DurableStateAgrees`, strengthened by two facts about the *row*: it satisfies the same
bands as the breaker (`Banded(row)`: a restart makes it the breaker), and it has the
breaker's `openCycleCount` (the one path that does not persist, a per-kind trip, does not
change that count). Without them a restart step would not be inductive.

**The argument.** First lemmas about the class alone: each method returns a breaker
(`OnFailureType`, `RestoreType`, ...) and where it can move the state, count and slots
(`RefreshShape`, `OnSuccessShape`, `OnFailureShape`). Then lemmas about the ways an action
installs a breaker (`BecomeRefreshed`, `BecomeFailed`, `ProbeReturns`,
`PersistIfChangedInv`), and from them one lemma per group of actions (`AdmissionKeeps`,
`AnswerKeeps`, `SettleKeeps`, `EnvironmentKeeps`). The action properties follow from the
invariant and `StepMoves`/`OneRequestMoves`, which say what one step changes.

### The rate-limit semaphore
`RateLimitSemaphoreProofs` proves all four checked invariants from `SemaphoreAssumption`:
`TypeCorrect` (`TypeOK`), `PermitsKept` (`PermitsAccounted`), `WaitersReached`
(`WaitersReachable`) and `WakeupKept` (`WakeupPending`), for any requests, gate objects,
caps, queue depth, cooldowns and number of timers.

`Inv` is stated of `Current`, the gate `getGate` would hand out: the registered one or a
fresh one, so that a key without an entry needs no case of its own. It says that this gate
counts the running requests (`Counted`), queues each waiting request exactly once
(`Queued`), and is paused if it has waiters and nobody running (`Covered`); and that every
pause on record, of any object, has a timer that outlasts it (`Timed`). None is inductive
alone: an admission is counted only because the queue repeats nobody, and the last release
leaves waiters only under a pause, which a timer must outlast. Lemmas about the operators
(`AdmissibleBounds`, `FirstOfQueue`, `AdmitFits`, `RemoveFirstShape`) reduce what
`drainQueue` and a timeout do to the queue; `Installed` and `DrainKeeps` say that storing a
gate that fits, or draining one, keeps `Inv`; each action has one lemma on top of these.

### The account semaphore
`AccountSemaphoreProofs` proves every checked property of the account semaphore from
`AccountAssumption`: `TypeCorrect` (`TypeOK`), `QueuesHold` (`QueuesAgree`),
`WaitersEmptyHanded` (`WaitersHoldNothing`), `PermitsKept` (`PermitsAccounted`),
`CapacityUsed` (`NoIdleCapacity`) and the action property `NobodyOvertaken`
(`NoOvertaking`), for any requests, keys, key sets, limits, blocks and queue depth.

`IInv` makes `queuedRequests` the one queue there is: it repeats nobody and shares nobody
with the holders (`PeopleOK`); the queue of a gate is what it keeps of those that need the
gate's key; a gate's count is the number of holders *charged* to it, at most that number
once it is robbed (`GateOK`). `PermitsAccounted` alone is not inductive: an admission adds
one only because the admitted waiter held nothing, and it is found at the head of its queues
only because they agree.

The core is `drainQueues`. `AdmitKeeps`: admitting a waiter that can acquire keeps people
and gates consistent. `HeadIsFirst`: the head of a queue stands in `queuedRequests` before
all others that need the key, so admitting it passes nobody. `RoundKeeps`: a round shortens
`queuedRequests`, or finds nobody able to acquire and changes nothing. Hence `DrainedKeeps`:
after as many rounds as there are waiters nobody is able to acquire, which is what the
`while` loop stops at. Each action lemma (`AcquireWaitsKeeps`, `ReleaseKeeps`, `ResetKeeps`,
`UnblockKeeps`, ...) shows that the operation hands consistent gates to the drain, or gives
no room that is not `unnoticed`; `NextKeeps` collects them for the invariant and for
`FairStep` at once.

**Induction.** `Drained` and `Kept`, and `Dispatch`, `DispatchLanes` and `TotalCost` of the
admission controller, are or hold recursive functions. The library states induction for
a predicate passed as an operator, which the installed provers cannot instantiate;
`SubsequenceProofs` derives it in set form (`NatSetInduction`, `SeqSetInduction`: a set with 0
that is closed under successor holds every natural) from the well-foundedness of `<`. A
recursive function is shown to exist up to every bound (`KeptRunExists`, `RoundsExist`,
`TurnsExist`), then unfolded one step at a time (`KeptOfAppend`, `DrainedUnfolds`).

### Leases
`ExclusiveLeaseProofs` proves, from `LeaseAssumption`, `TypeCorrect` (`TypeOK`),
`BindingsExclusive` (`ExclusiveBindings`), `NewestIsActive` (`OnlyNewestActive`),
`EndedLeasesStay` (`EndedStaysEnded`), `HolderMoves` (`OnlyHolderMoves`), `ExecutionsExclusive`
(`ExecutionsAreExclusive`: of `executor.execute()`, not of the fetches inside it) and `ImplementsLease` (`Implements`).

Every operation works on the table that `expire()` leaves, so the invariant is stated of a
*table* (`TableOK`: only the newest generation is active, no connection twice) and each
operator on tables has a lemma saying that it keeps it (`ExpireKeeps`, `GrantKeeps`,
`EndKeeps`, `RenewKeeps`, `TickKeeps`). `NextShape` reduces every step to one of six
`StoreStep`s: rows left alone, expired, ended, renewed, moved, granted. The invariant, the
action properties and the refinement then each need one case per store step. A restart and
whatever a request does between two transactions leave the rows alone.

### Token refresh
`RefreshLaneProofs` proves `LaneExclusive` (`OneRefreshPerGroup`) of the lane alone. `LaneInv`
says that the promises of a lane form a chain: one head, every other caller waits for
another of its lane, no two for the same one, nobody for the tail. `TokenRefreshProofs`
proves `ImplementsLane` (every step of token refresh is a step of the lane or none),
`TypeCorrect`, `GroupsExclusive` (`SiblingsPostAlone`), `ConnectionsExclusive`
(`OneRefreshPerConnection`) and `AccountsKept` (`AccountsSurvive`), from `LaneAssumption` and
`RefreshAssumption`, for any callers, connections, direct executors, groups, kinds and faults.
They are about `getAccessToken` in the presence of executors that go past it: an excluded
overlap always has a direct refresh in it, and an account is lost without a fault only after
one.

`AccountsSurvive` is not inductive. The invariant adds `RowCurrent` (the row of a connection
that is not `faulted` holds the newest token, or the owner of its mutex does and has yet to
write it), `RowSafe` (neither the row nor the rotation map is ahead of the endpoint) and
`CallsSafe` (no call holds anything newer than the endpoint, and what an owner takes into the
lane is the newest token), and for the two exclusions `MutexHeld` (a call past the mutex is
the one in the map) and `Placed` (whoever is in a lane is refreshing, in the lane of its own
group, and only direct executors post outside one). One lemma per action shows that it is kept.

### The admission controller
`AdmissionControllerProofs` proves, from `QueueAssumption` and `AdmissionAssumption`,
`TypeCorrect` (`TypeOK`, with the limit between its bounds), `RotationHolds`
(`RotationSound`), `RoomUsed` (`NoRoomWasted`) and the action properties `LimitRespected`
(`AdmitsWithinLimit`) and `HeavyNotStarved` (`ReservedNotPassed`), for any tenants, finitely
many requests, costs, caps, limits and times, with and without lanes.

`IInv` is `Sound` and `Stuck`. `Sound` is about queue and lanes: the order and the lane map
name whoever has work, once; a bucket holds requests of its tenant, once; nobody is in two
places; and whoever was served past is the head of its bucket. The last is what
`RotationSound` lacks to be inductive: only a head can have skips, so whoever leaves, or
comes to the tail, has none. `Stuck` says that the next place is nowhere, without the
`CHOOSE` of `Oldest` (`NextPlaceIs`).

`TakeKeeps`, `RemoveByIdKeeps` and `EnqueueKeeps` carry `Sound` through the queue, the cursor
and a bucket that empties included. `ServeNextKeeps`: a round serves one entry that fits or
finds the queue stuck. Hence `DispatchKeeps`: after as many rounds as there were entries it
is stuck, and the lanes' turns, which take room away and leave the queue empty, do not change
that. The action properties need to look through a whole operation, which may serve many
entries: `Follows(c, d)` says that `d` comes of `c` by serving, with the cost within the limit
if anyone was admitted, and with nobody served past a reserved head that still waits. It
holds of a round and of a turn, and composes (`FollowsOn`). What an operation does before it
serves (somebody leaves, joins a tail, the limit moves) is related to it by `LeavesThenServes`
and `QueuedKeeps`. The clock ages all who wait together, which keeps the oldest (`StuckShift`).

### Only model-checked
The lane under the quota page (`QuotaRefresh`), and liveness (`OpenCools`, `CallsReturn`,
`WaitersAnswered`, `IdleRecovers`), which depends on fairness and is out of the proof
system's reach. The runs that expect a violation are
counterexamples, for which there is nothing to prove.

## 5. What is not modelled, and why
- the breaker registry (sweep, eviction, `resetAllCircuitBreakers`): several instances of
  one name; planned. `ManualReset` is the in-place reset;
- thresholds changed at run time by `getCircuitBreaker(name, options)`;
- per-connection detail of the combo loop: one connection's dedup window stands for all;
- which statuses and error codes are provider failures: both outcomes are always possible;
- leases: unmanaged requests, which are not fenced, bodies of answers, and the paths for a
  violated UNIQUE index, which no interleaving of immediate transactions reaches;
- token refresh: what the quota page and the warm-up (`credentialRefresh.ts`) do but wait in
  the lane: they write the row without mutex or guard, and for kiro their request is in the
  lane but past the mutex; direct refreshes that retry on their own (grok-cli); calls without a connection id (deduplicated by token hash), the refresh
  breaker and backoff of `refreshWithRetry`, Copilot sub-tokens, re-authentication by the
  user, `isActive` and retry budgets;
- admission: modes `off` and `shadow`, `updateConfig` (called by tests only), `shutdown` and
  reload, eviction at 1000 lanes, cost estimation, the averaging of latencies (any gradient
  is possible once a request has completed), and the response lifecycle but for its
  one-time release. A fan-out probe passes `maxWaitMs` 0, which makes `enqueue` throw before
  it queues: it is one of `AcquireRejects`;
- data conversion (translators, streaming), heuristics (routing strategies) and the
  libraries the gateway builds on.

## 6. Plan
1. `QuotaShareInflight`: count against the true number in flight with orphans and expiries.
2. `RequestDedup`: the shared promise under eviction and its timer.
3. `BreakerRegistry`: two instances of one name over `CircuitBreaker`, sweep, eviction,
   `resetAllCircuitBreakers`, requests with a reference to an orphan.
4. Account cooldowns and model lockouts; then a composition `ComboRoute` of the breaker, a
   cooldown and the rate-limit semaphore for two targets.
5. Proofs of the modules above as they are written. Of the present ones every safety and
   action property that a run expects to hold is proved.
