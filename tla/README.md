# Verification of the claude-code-hub-go data plane

TLA+ models, TLC runs and TLAPS proofs for the Go backend in `src/go`, a self-hosted gateway
for large-language-model APIs. A request comes in, is checked and priced, is sent to one of
several providers (or to several in a race), its response is streamed back, and exactly one
row of the request log must say how it ended and what it cost.

1. [The system](#1-the-system)
2. [The modules](#2-the-modules)
3. [The runs](#3-the-runs)
4. [Fairness](#4-fairness)
5. [Proofs](#5-proofs)
6. [Where the code and its comments disagree](#6-where-the-code-and-its-comments-disagree)
7. [What is not modelled](#7-what-is-not-modelled)
8. [Plan](#8-plan)

`PROJECT.json` lists the components, the runs, the source lines of every definition, the
hazards and the theorems.

## 1. The system

One process, `src/go/cmd/cchd`, with PostgreSQL behind it and Redis beside it; several
processes may share both. Packages are below `src/go/internal`.

| part | state it keeps | operations | what is hard | correct means |
|---|---|---|---|---|
| `egress` front door | requests in flight, draining flag | enter, leave, drain, wait for empty | the last handler leaves between a check and a wait | after a drain nobody is inside, and the drain always ends |
| `ingress` budgets | active requests and bytes, a lease per request | acquire, grow, release | growth against the limit, release on each path | bytes in use are the sum of the leases, never above the limit |
| `guard`, `pctx` | none of its own; one context per request | 14 steps: authenticate, probe, session, limits | order, early answers | a refused request changes nothing it should not |
| `route`, `slowrate` | affinity, quarantine, trial leases | select, filter, bind | stale health, one trial at a time | a refused provider gets no request, a recovering one gets one |
| `forward` serial path | the attempts of one request | try, classify, switch, retry | error classes decide who is blamed | every provider is tried within its budget, the right side is blamed |
| `forward` race (`hedge.go`) | attempts, verdict, launch window, result channel, chain | launch, report, fail, finish, bill | goroutines, one mutex, a channel of capacity one | one verdict, the caller always gets it, no stream without an owner |
| `forward` pump and stream | pump state, pending chunk, settlement | read, drain, cancel, settle | the end comes from six places at once | one terminal state, blamed on the right side, even if nothing answers |
| `gate` | prebuffer budget, frames seen | admit, hold, commit, reject | a shared budget, commit against timeout | the budget is returned, nothing is sent before the commit |
| `convert`, `rectify`, `responsefix`, `specialsettings` | none | translate bodies and streams | data, not control | the same meaning in another protocol |
| `terminal` queue (`batch.go`) | channel, registers by row, tombstones, idle channel | enqueue, write, await, flush, stop | shutdown against late deliveries, waiters against the worker | every accepted settlement is written or reported |
| settlement of a row (`terminal`, `store`, `patrol`, race billing) | status, cost, list of losers, leases | settle, add a loser, repair | two writers of one cost, lost replies, crashes | one terminal state, the exact cost, side effects once |
| `session` | bindings, leases, terminations in Redis | bind, renew, terminate | compare-and-set with expiry | one owner; a termination is final |
| `limit`, `ratelimit`, `src/lua` | cost windows, slices of budgets, session counts | check, reserve, deduct | the check and the use are apart | no budget is overspent by more than its slices |
| `health` and its readers | circuit of providers and endpoints in Redis | failure, success, reset, read | concurrent read-modify-write, a clock, a ladder | no failure is lost, an opening is reported once, a recovery closes |
| `replay` | owner record, spool, followers | claim, append, attach, finish | the owner dies, followers lag | a follower sees a prefix of one response |
| `cfgsync` | cached values, versions, subscriptions | get, invalidate, publish, resync | a load that races an invalidation | nobody reads an old value for ever |
| `jobs` | leader lease, outbox, schedules | tick, claim, run, retry | crash between two steps | one leader, at-least-once delivery |
| `usersreset` | a resumable job | claim, step, resume | crash between two steps | all steps done, none undone |
| `usagefeed` | subscribers with bounded buffers | publish, subscribe, drop | a slow subscriber | nobody blocks the publisher |
| `patrol`, `notify`, `pubstatus` | cursors, rollups | scan, repair, publish | stale lists | see settlement; the rest is data |
| `ws`, `upws` | one turn per connection | upgrade, relay | framing | one turn at a time |
| `store`, `adminapi`, `config`, `migrate`, `src/src` | SQL rows, pages | CRUD | database semantics | data |

How they interact: the front door wraps the ingress budgets, which wrap the data plane. A handler
of `dataplane` runs the guard chain, asks `route` for a provider and calls `forward`: a serial
attempt, or a race whose first content wins. Either gives it a committed `Stream`, whose pump it
drives; the terminal callback of the stream settles the row through `terminal` (in the queue, or
synchronously when the queue refuses), which calls `store` and, after the commit, `limit` and
`usagefeed`. Losers of a race are billed by goroutines of their own that reach the same row.
Outcomes of attempts go to `health`, which `route` reads. `cmd/cchd` ends all of this in order:
front door, streams that outlive their handler, write queue, jobs, connection pools.

The hazards, each at its line, are in `PROJECT.json`.

## 2. The modules

### The response

| module | of the code | state and actions |
|---|---|---|
| `HedgeRace` | `forward/hedge.go` | One call of `ForwardStreamHedge`. A provider is launched at most once, so it also names its attempt. `pc[p]` is the place of `runAttempt`, `lpc[l]` the place of a `launchAlternative` (one per attempt and one per timer), `mpc` the place of the caller. One action is one critical section of `race.mu` or a step between two. `mu` is not free while a sender waits on the full `resultCh` with the lock held. `outcomes` is the provider chain by attempt. |
| `Verdict` | the promise of `ForwardStreamHedge` | Abstract: a race is open, won by one candidate or lost, for good; the caller is told once, of the winner's stream, of a failure, or, after the client left, of an abort. Implemented by `HedgeRace`. |
| `PrefixBudget` | `gate/budget.go` | The budget all gates share for the bytes they hold back. `holder` is the gate inside `b.mu`; `line` the waiters in order. The drain of the line is the one loop in that critical section, and each of its rounds is a step. |
| `StreamGate` | `gate/gate.go`, `progress.go`, `forward/stream.go` | One gate over the shared budget: the read that survives a wake-up, checkpoints, the probe and the idle timeout, and what becomes of the bytes that were held. Extends `PrefixBudget`: the reader is one of its users. |
| `ProviderSlots` | `limit/sessions.go`, `dataplane/provider_concurrency.go`, two scripts | The places of the providers: who is counted and since when, and who may still give a place back. A script is one step; what is older than the TTL is swept by the next attempt. |
| `SerialAttempts` | `forward/attempt.go`, `stream.go`, `rectify.go`, `errors.go` | Extends `ProviderSlots`. One request over providers, tries and mended bodies: `call[c]` is the local variables of `forwardLoop`, `hold[c]` the place its body gives back. A failure is a class: one for each way the loop treats it. |
| `ResponsePump` | `forward/pump.go`, `forward/stream.go`, `dataplane/stream.go` | One committed stream: the handler's loop, the drain goroutine, the idle timer, the deadline, the caller's cancellation, `settle` by whoever is first, the inline or background close of the source, and the kind settled for the row. |
| `ReplayStore`, `Replay` | `replay/store.go`, `spool.go`, `attacher.go`, `dataplane/replay.go` | The store: an owner key with a lease, a meta document and a list of chunks in Redis, written by scripts fenced with the owner's token, and one durable row. A call may lose its reply, and the client then sends it again, up to `MaxRetries` times (`cmd/cchd/dataplane.go:274`). Over it, requests that attach or claim, and the owner's spool with its writer goroutine, queue, batches and heartbeat. |

### What an attempt leaves behind

| module | of the code | state and actions |
|---|---|---|
| `CircuitBreaker` | `health/writer.go`, `ladder.go`, `route/health.go`, the resets of `adminapi` | One hash in Redis, of a provider or of an endpoint. `job[w]` is one recorder of an outcome: configuration and clock are read, then WATCH and read, then EXEC, which fails if the key was `dirty`. |
| `SlowRate` | `slowrate/recorder.go`, `route/slowrate.go` | The samples of one provider and model: the sliding window, the mark routing looks for, the clean samples in a row, and recorders that add samples or lift the penalty with WATCH and EXEC. Keys expire. |
| `ProbeLease` | `route/probe_lease.go` | The key that lets one request at a time through to a slow provider: taken, renewed by a ticker, released with the request, lost to time or a crash. |
| `RowSettlement` | `terminal/settle.go`, `store/message.go`, `dataplane/hedge.go`, `limit/lease_settle.go`, `patrol/patrol.go` | The writers of one row. A statement is one action; one that its caller gave up on is put in `limbo` and may take effect at any later time, any number of times; a crash stops every goroutine. `Total[S]` is the sum of the costs of the losers in `S`. |
| `SettlementLine` | the promise of `terminal.WriteQueue` | Abstract: settlements join a line and are decided in its order, once; terminal state, effects and word to the waiters follow each other; who was turned away is decided aside. Implemented by `WriteQueue`. |
| `WriteQueue` | `terminal/batch.go` and the synchronous path of `settle.go` | Deliveries, the worker with its ticker, nudges and stop branch, `AwaitSettlement` with tombstones, `Flush` and `Stop`. `process` and `finishEntry` are five steps, as they lock and unlock. `idle` numbers the idle channels: `addPendingLocked` makes a new one at each 0 -> 1. |

### The process

| module | of the code | state and actions |
|---|---|---|
| `FrontDoor` | `egress/admission.go`, `frontdoor.go` | The counter and flag under one mutex, the waiter on the condition variable and the goroutine that turns the deadline into a broadcast. |
| `Shutdown` | `cmd/cchd/boot.go`, `dataplane/stream.go` | Extends `WriteQueue` and `FrontDoor`: the composition. It adds the tracker of streams that may outlive their handler, its wait, and the closing of the pools. |

### What is kept beside the database

| module | of the code | state and actions |
|---|---|---|
| `FreshRegister` | the promise of `cfgsync.KeyedCache` | Abstract: the database holds versions; an invalidation that returned raises a floor; a read answers with a version between the floor at its call and the database at its return, or fails. |
| `KeyedCache` | `cfgsync/cache.go` | The table, the flight shared by the callers of one key, the version that keeps an old load out of the table. Implements `FreshRegister`. |
| `AuthStore` | `guard/adapters_store.go` | Extends `KeyedCache` with the plain table of users that the same invalidation clears. |
| `ValueCache` | `cfgsync/cache.go` | One value, one load at a time, the old value when a load fails. |
| `InvalidationBus` | `cfgsync/bus.go` | The goroutine that keeps one subscription for all callbacks and calls each of them after each connect; connections break, and what is published meanwhile is lost. |
| `ConfigSync` | `cfgsync/cfgsync.go`, `guard/adapters_store.go` | `InvalidationBus` and `ValueCache` composed: a writer commits and then publishes, the callback invalidates. |
| `CostLease` | `limit/lease_service.go`, `lease_lua.go`, `lease_check.go`, `lease_settle.go` | The slice of one budget: judged by requests, refreshed by flights of several processes, charged after the ledger, dropped when its terms change. |
| `UserReset` | `usersreset`, its handler in `adminapi` | A POST writes the record, the claim, the cut and the queue, each with a call of its own; the leader deletes in batches, renews, retries and finishes. Calls fail, leaders die, rows are inserted all the while. |
| `SessionBinding` | `session/binding.go`, `binding_writeback.go`, `terminate.go`, the scripts of `ratelimit/lua` | The hash of a session and key with its generation, and the two mirrors of the session; requests read before routing and write back when their row is final; administrators end sessions; everything expires. |

`MCHedgeRace`, `MCWriteQueue`, `MCShutdown` and `MCRowSettlement` give constants for TLC.
`MCResponse`, `MCStreaming`, `MCAttemptEnd` and `MCConfig` check several modules that share no state
in one run: a behaviour is about one of them, chosen at the start, and the variables of the others
stay at rest, where their properties hold and their fairness asks for nothing.

`*_proofs` modules are section 5.

Operators that stand right before a definition, with a trailing comment on what is wrong with
them (`ReleaseAny  \* whoever holds the key`), are broken variants of that definition. They occur
in no behaviour. Each property has one, named in `PROJECT.json`, that violates it: evidence that
the property can fail and that the bounds are large enough for it to fail.

Abstractions that matter:

- Bodies, prices and headers are left out. A failure is its category; a chunk is content or one
  of the marks the observer looks for; a cost is a number or absent.
- A timer may fire at any time while it is armed; a deadline may pass at any time. Modules that
  compare times with each other have a clock of ticks of their own.
- A Lua script, a MULTI or a single SQL statement is one step. So is a pipeline, although Redis
  does not promise it: a connection that breaks could leave a slow sample whose pipeline did not
  reach the deletion of the count in a row.
- `HedgeRace`: the gate is one step: content, or a failure of some category. `Faults` says which
  categories the environment produces, so that a run can separate them.
- `StreamGate`: a chunk has the size one and completes one frame or none; the frame is chosen when
  the read returns; `"error"` is an error frame or a malformed one. Echoed requests, which stretch
  the limit, and the limit for a single chunk are left out. Timers may fire late.
- `WriteQueue`: the write of a row is an outcome: the row won, the row found final, an error
  before it, an error of the cost after it. `"lost"` lets an error leave the row final.
- `CircuitBreaker`: WATCH and HGETALL are one step. A write between them would only add a
  retry. The vendor-type circuit and the expiry of keys are left out.
- `SlowRate`: the baseline, the cooldown of the session, the hash that admits requests to a
  provider in quarantine, the snapshot of the penalty and the logs are left out.
- `ProbeLease`: a tick is ten seconds and the TTL three of them; a renewal that is due is attempted
  before time goes on.
- `CostLease`: the window does not slide, the portion of a limit is fixed, one subject and one
  window. A slice that is used up refuses until it expires: that is the design taken from Node. A
  request begun before a reset still pays from the slice made after it, and a refresh between the
  write of a cost and its settlement charges this cost twice; `RefusalIsEarned` allows for both.
- `UserReset`: rows have microseconds and a cut is a floored millisecond, so all times are distinct;
  PostgreSQL and Redis share one clock; an insert is atomic; counts, seven-day TTLs and the cost keys
  are left out. `OneTwist` limits a behaviour to one departure from the straight line.
- `SessionBinding`: a generation is any number nobody remembers (`Fresh`); in the run the least. The conflicts
  `legacy_upgraded` and `mirror_*` cannot occur without eviction: `MirrorsAgree` is what shows it.

## 3. The runs

Every run that passes explores its whole state space.

| run | instance | what it asks |
|---|---|---|
| `response` | a race of three candidates for two slots with failures that fail over, end the race or cannot carry a stateful field; a replay of two chunks for two requests, one call to Redis that fails, loses its reply or is executed twice, a queue of one; a request over three providers, one of which has a single place and two tries, with another request in its way; two requests for one place, a Redis that fails once and a TTL that passes | `OneAnswer`, `WinnerNotCancelled`, `LaunchWindowWorks`, `ChainTellsAll`; `ReplaysAreWhole`, `CompletedIsDurable`; `CallsTellTheTruth`, `CallsComeToAnEnd`, `PlacesAreHeld` |
| `streams_end` | a race of two with failures that fail over, dials that time out and selections that fail, billed losers, a client that may leave; three users of a budget of three, each of which may keep its lease for good; a gate over three chunks with three checkpoints, with ladder and probe, the ladder alone, and neither | `OrphansOnlyOfClients`, `AttemptsEnd`; `LineIsKept`, `WaitersAreServed`; `BytesKept`, `ContentIsDecided` |
| `queue` | two deliveries of one row, each awaited; capacity 1, batches of 2, lost replies | `QueueKeepsItsWord`, `QueueGoesOn`, `QueueIsALine` |
| `exit` | a plain request and a stream against the front door, the queue and the exit sequence | `DrainedMeansEmpty`, `CleanExitLosesNothing`, `NobodyWaitsInVain` |
| `attempt_end` | a stream of three chunks; two writers of one circuit; a settlement with a cost, one without, two billed losers, patrol, crash; two recorders of five samples; three requests that probe | `BlameFitsTheCause`, `CancelSettles`; `HashTellsHistory`, `WindowKept`; `LedgerExact`, `LeasesBehindLedger`, `EffectsOwned`, `EveryRowCloses`; `PunishedIsMarked`, `NothingSlowIsForgotten`; `ProbeHoldsLease` |
| `config` | two readers, one write, one invalidation of a cache; two askers of a value; three connections, one of which breaks; three requests of two processes on one lease whose terms change; two POSTs, two instances, two rows, one fault; three requests of one session with two keys and an administrator | `GetsAreFresh`; `OnlyAJoinIsStale`, `LossIsRepaired`; `SpentIsRefused`, `RefusalIsEarned`; `ResetIsFinal`, `NothingNewer`; `BindingHolds` |
| `hedge_hang`, `hedge_abort`, `hedge_dial`, `ledger_gap`, `endpoint_shut`, `auth_stale` | small instances | one statement of a comment each, which TLC refutes: section 6 |

Some invariants are conjunctions of named parts: `LaunchWindowWorks` of `ConcurrencyBound` and
`NotStranded`; `ChainTellsAll` of `OneConclusion` and `ExhaustedChainComplete`; `QueueKeepsItsWord` of
`NothingStranded`, `FlushTellsTheTruth`, `AwaitTellsTheTruth` and `EffectsFromTheWinner`;
`QueueGoesOn` of `AcceptedIsWritten` and `ShutdownReturns`;
`NobodyWaitsInVain` of `NoLostWakeup` and `ExitNeverStuck`; `HashTellsHistory` of `FailuresCounted`,
`AlertOncePerOpening`, `LadderCountsTrials` and `TrialsCloseTheCircuit`; `ResetIsFinal` of
`CompletedIsEmpty`, `OldStaysOut` and `NotForgotten`; `BindingHolds` of `MirrorsAgree` at every state and
`StaleFactsStayOut` at every step; `CallsTellTheTruth` of `BlameFollowsTheChain`, `ExhaustedMeansTried` and
`RowFollowsTheCall`.

What the less obvious of them say:

- `LineIsKept`: bytes granted and bytes free are all there is, nobody waits twice, and whoever is first
  waits only because it does not fit. `BytesKept`: what the client got, what is held and what the read
  in flight carries is the source, in order, once.
- `WaitersAreServed`: whoever waits for the budget is served or gives up, unless what others never return shuts out the
  first of the line. `Keep` costs the bytes of that lease and no more.
- `ReplaysAreWhole`: an attacher that was served got all chunks of one response, in order, of the owner that
  finished it, and nothing else is in PostgreSQL. The script that appends a batch is not idempotent, so a batch whose reply was lost
  stands in the list twice; this is allowed only where such a call was executed more than once (`again`), and even then nothing
  is missing, nothing of another response is mixed in and the text goes on from each chunk with the next or back to an earlier one.
  `CompletedIsDurable`: when the state completed appears, PostgreSQL holds a row, the list tells the response the state names and is as long
  as it says, and a row that has not expired holds that very list.
- `OneAnswer`: `HedgeRace` implements `Verdict`, which `winner` and `settled` together decide and the channel
  delivers.
- `PlacesAreHeld`: each place belongs to an attempt that gives it back, but for what a failed call to Redis
  left behind, and no more attempts younger than the TTL run than the limit allows. `CallsTellTheTruth`: who
  is blamed, when "all failed" is said, and what the row says. `CallsComeToAnEnd` is a variant: whatever a
  call does next, a retry, a mended body, a switch, leaves it with less to do.
- `HashTellsHistory`: the hash equals what a bookkeeper who saw every recorded outcome would have.
- `QueueIsALine`: `WriteQueue` implements `SettlementLine`. The line is the worker's hand followed by the channel; each
  stage of `process` for the head of the hand is a step of the line, and what the worker takes over, the flush and the exit are
  stutters of it. So no entry overtakes another, is written twice, or is in the line when its caller writes it.
- `GetsAreFresh`: `KeyedCache` implements `FreshRegister`. `OnlyAJoinIsStale`, of `ValueCache`: after an
  invalidation an older value is answered only to those who joined a load under way when it
  came; the cell never has it, and no error brings it back.
- `LossIsRepaired`: a cell that is behind the database because the bus lost its connection does not stay so.
- `NothingNewer`: what a user spends after a POST was answered survives the job. `ResetIsFinal`: what
  is older is gone when the record says completed, and does not come back.
- `RefusalIsEarned`: a refusal on a slice follows from spending of at least the portion it was cut to.
- `StaleFactsStayOut`: no write back, move or end of a session acts on a binding that changed since
  it was read.

Why the bounds are enough:

- *Race.* Two slots and three candidates give: a full race with a candidate waiting, a launch
  window that is taken, a slot that frees while another launcher selects, exhaustion with one
  still in flight. The liveness run has two candidates. `InOrder` fixes in which order candidates that are alike are
  selected.
- *Replay.* Two requests: one owns while the other attaches, or one follows an owner that died. With a
  queue of one the handler overruns the writer. One fault at each call is every single failure, a call executed twice included:
  `MaxRetries = 1`, for the third execution appends once more what the second did (the theorems cover the program's two retries).
  `OneMishap` keeps apart what need not meet: a call goes wrong, or a deadline passes; and hot keys expire only when no spool
  is left. By hand also without the last (1,936,529 states).
- *Serial attempts.* Three providers: one full or failing, one passed over, one left, and two switches, so
  that the limit on switches and the end of the list both come first somewhere. The first has two tries, so
  that a mended body is the third. Two requests and one place: taken in turn, refused, swept and given back late.
- *Budget and gate.* Three users: one holds, two wait, the first too large for what is free. Three
  chunks against a cap of two reach each limit; three checkpoints are the ladder's first, a middle
  and the last.
- *Queue.* Capacity 1 makes the second delivery overflow unless the worker was quick; both
  deliveries are of one row, so registration, tombstone and waiter can belong to different
  entries. `TombstoneLimit` is 2 with one row: no tombstone gives way in the run. In the model one can
  (`forgotten`), and the theorem covers it. By hand, without liveness, also three deliveries of two rows with capacity 2,
  one tombstone and every fault (8.3 million states).
- *Exit.* A stream may register, settle late, be given up by its handler, and overlap each stage;
  a plain request does the same inside its handler. A third request adds no new pair of stages.
  Only the stream's write can fail after its commit (`GapOfTheStream`): its goroutine awaits the outcome. By hand also
  the request's (4.3 million states).
- *Ledger.* Costs are distinct powers of two, so that every sum names its summands. One settlement
  has no cost, for it may win the row. Two attempts per write: one that fails and one that ends.
- *Circuit.* Threshold 2, windows of one tick and one more per level, a clock of 5 ticks and 4
  outcomes: open, fail a trial, open longer, and recover, with one writer left behind in a read
  at each point.
- *Stream.* Three chunks: one taken, one pending, one read. The prefix of the gate may be in the
  handler's hand at the start, and may already have shown the end of the stream.
- *Slow samples.* Two recorders: one between its count and its EXEC, one that writes. Five samples:
  two that punish, two that lift, one in between. By hand also four recorders of one sample each
  (693,000 states), three recorders of five (2.2 million) and two of six (814,000).
- *Probe.* The clock runs to 5: a lease of 3 is lost and another request holds one. By hand also three
  requests and 9 ticks (1.2 million states).
- *Caches and bus.* One write and one invalidation already order a load in every way against both;
  two of each were run by hand. Three connections: the first, one that breaks, one that stays.
- *Reset.* Two POSTs and two instances: a second job over the first, a leader that lost its lease beside
  its successor. By hand also all twists with one fault (2.9 million states) and fewer twists with two
  (2.1 million).
- *Binding.* Two requests of one key overlap and a third comes with another key; the clock lets
  the binding and a termination expire. By hand with one tick more.

## 4. Fairness

Weak fairness is given to goroutines that the Go scheduler runs and to nothing else, with the
additions below, for which the code gives reasons.

- `HedgeRace`: attempts, launchers and the caller run. The dial, first-byte, idle and drain
  timeouts of `runAttempt` end each wait for an upstream, so an attempt in flight ends. Timers
  need not fire and clients need not leave. `AttemptsEnd` is checked, and proved, for two attempts in flight,
  the default of `legacyHedgeMaxInFlight`; with three it fails (section 6).
- `PrefixBudget`: each user runs on. Nothing obliges one to return its lease, for `Stream.Close` alone does not return
  it (section 6): a user may `Keep` it for good at any time, and whoever does not keep it returns it at some time.
  `WaitersAreServed` therefore speaks of a line whose first still fits beside what is kept. Steps that need `b.mu`
  have strong fairness: the mutex of Go hands itself over to a waiter that has waited for a millisecond.
- `StreamGate`: the gate runs on, time passes (its timers fire), and a prefix that is not kept for good
  (`CloseStream`) is read. The source owes nothing.
- `Replay`: the owner's writer, its handler and the heartbeat run, nothing else.
- `ConfigSync`: the goroutine of the bus and the publication run. Strong fairness of a dial that
  succeeds and of a receive says that the network does not fail for ever.
- `WriteQueue`: the worker runs, and a `Flush` or `Stop` that was called goes on. Nobody need
  call them, and the timeout of a flush need not pass.
- `RowSettlement`: the patrol lists again and again, and strong fairness of its repair says that
  the database does not fail every round. No settlement and no billing need run: the row closes
  without them. A crash can happen at any time; the process started next has a patrol again.
- `ResponsePump`: the handler's own steps, the drain goroutine, the background close and
  `awaitTerminal` run and the armed idle timer fires. No read of the upstream and no
  write to the client has to return. The inline close of the source is fair only after an end of
  file, when a body of `net/http` has nothing to wait for; the comment on the pump's invariants
  says that teardown never waits for a close, and on that one path it does.
- `FrontDoor`, `Shutdown`, `CircuitBreaker`, `SlowRate`, `ProbeLease`, `CostLease`, `UserReset`,
  `SessionBinding` and the caches alone have safety properties only. `ExitNeverStuck` uses
  ENABLED in place of liveness: at each moment after the signal the exit sequence or the worker it
  waits for has what its next step needs, and then has the step, whatever handlers do.

## 5. Proofs

All theorems hold for every value of the constants that satisfies the named assumptions in the
modules. `PROJECT.json` lists them with the properties they state.

*Race* (`Response_proofs`; `HedgeAssumption`: the first candidate is a candidate, at least one
slot): `TypeCorrect`, `VerdictUnique` (`OneVerdict`), `WinnerSurvives` (`WinnerNotCancelled`),
`LaunchWindowHolds` (`LaunchWindowWorks`), `ChainTellsEverything` (`ChainTellsAll`), `OrphansAreOfClients`
(`OrphansOnlyOfClients`) and the refinement `RaceImplementsVerdict` (`OneAnswer`). There may be infinitely many
candidates. The invariants, each used by the next:

- `VerdictInv`: whoever is on the way from the commit to the delivery is the winner (`Committed`; without it
  `OneVerdict` is not inductive), streams in the channel carry the winner's name (`WinnersStream`), and nothing is
  cancelled while the race is open: whoever commits then is not cancelled yet, and a committed winner is spared by
  `LosersToCancel`.
- `SlotInv`: finitely many are launched, whoever flies is counted by `active`, and nobody is judged while the
  race is open.
- `WindowInv`: the launch window has one owner, who launches nobody twice, and while the race is open and nobody flies
  some launcher is about to select, or leaves the window and finds the request that came meanwhile (`AnotherOneComes`).
- `ChainInv`: the entries of one attempt by its place (`ChainOf`, `RecordOf`), and what the correction of a placeholder
  leaves in the chain of the first attempt (`LateFirst`).
- `ResultInv`: a sender waits only behind a full channel, what is in the channel or at the caller has a reason and
  fits the chain, and the chain does not change any more when the race is settled and empty.
- `AnswerInv`: an abort in the channel names the attempt that saw it, so that the only nameless one is the caller's own.

`DecidedRacesEnd` (`AttemptsEnd`) is a liveness property, proved for `MaxInFlight <= 2` with an invariant of its own, `EndsInv`: what
was sent and what is about to be sent fits into the channel and the caller's hand (`RoomOK`), and while the client stays the
decision is on its way to the caller (`ToldOK`). At most two attempts are then busy (`TwoAreBusy`). A rank below 16 over these two and the caller falls with each step of theirs
(`ComesNearer`), one of the three can always go on (`SomebodyGoesOn`), and sixteen applications of the rule for
fairness (`OneStepFewer`) bring the rank to its end.

*Replay* (`Response_proofs`; `StoreAssumption`, `ReplayAssumption`): `ReplayHolds`, `ReplayedIsWhole`
(`ReplaysAreWhole`) and `CompletedHasItsRow` (`CompletedIsDurable`), for any requests, lengths, queues, faults and up to two
retries of the client. `ReplayInv` separates what the owner was told from how far the list goes: while the token
is its own, the length of the list is the length it was told (`Known`), and the last chunk of the list is the last one before what is
still pending or in the tail (`WrittenTo`), with `WrittenTo <= Known`. A repeated script makes the list longer and leaves it going as far
(`PushedList`), so the two differ from then on, and each further batch still goes on where the list ends (`StammerOn`). A list that
goes as far as the response is long therefore tells all of it, and is exactly it unless a batch of this owner was appended twice (`ToldWhole`).
What `readAllOwned` and an attacher have read is a beginning of that list (`HasRead`, `AttachOK`), and all of it when it has its length.

*Gates* (`StreamGate_proofs`; `GateAssumption`, `BudgetAssumption`; any gates, limit and demands): `LineKept` (`LineIsKept`),
`GateImplementsUser` and `BytesAreKept` (`BytesKept`), leases that are never returned included. `LineInv` is the types, that nobody stands in the line twice, and the property.
The second is a refinement: each step of a gate is a step of a user of the budget or a stutter, so
that what is proved of the budget holds whatever gates read and wait for. For the third, `ByteInv` says that what the
client got, what is kept for it and what a read has brought are the source in order, at each place of the gate.

*Front door, queue and exit* (`Shutdown_proofs`; `QueueConstants`, and settlements named by requests):

- Door: `TypeCorrect`, `DrainSafe` (`DrainedMeansEmpty`), `CounterExact`, `SleepersAreWoken` (`NoLostWakeup`). The
  waiter reads only the counter, so the counter has to be exact, and nobody may come in behind its back, so the gate
  has to be shut before it waits: `DoorInv` is these with the types.
- Queue: `QueueHolds` (`QueueKeepsItsWord`), for any deliveries, rows, capacity, batches and faults. The invariant follows
  an accepted entry from the channel through the batch to its write, and says that `pending` counts exactly
  these, that a register or a tombstone of a row that is not final points to somebody who knows, and that the idle
  channel a `Flush` waits on closes only at a moment when nothing is pending. An attempt with `AwaitTellsTheTruth` as the
  comment of `AwaitSettlement` has it fails where a tombstone gives way to newer ones (`batch.go:261`): hence its
  last words.
- Line: `QueueImplementsLine` (`QueueIsALine`) is a refinement, for any deliveries, capacity, batch size and faults: the worker
  moving an entry from the channel to its hand leaves `Line` alone, and each other step that touches it is one of the line. It needs
  `QueueInv`, since what stands in the line was accepted and, but for the first of it, is untouched, and `ReleasedOK`: before the worker
  wakes whoever waits for a committed entry, its effects are out. `ExitIsALine` says it of the whole exit.
- Exit: `ExitKeepsTheDoor` and `ExitKeepsTheQueue` are refinements: each step of the composed exit
  sequence is a step of the gate or a stutter of it, and likewise of the queue. So `ExitCountsExactly`,
  `ExitDrainSafe` and what the queue promises hold for the whole process. `CleanExits` (`CleanExitLosesNothing`) adds the
  tracker of streams; `ExitGoesOn` says that from the signal until the pools close the worker or the exit sequence has
  what its next step needs (a message, a closed channel, an exited worker, an armed deadline). It is the first part of
  `ExitNeverStuck`; that these guards are those of the steps is ENABLED, and TLC's.
- End of the queue: `QueueHasLessToDo`, `SettlementsComeCloser`, `ShutdownComesCloser`, for any deliveries. `Todo` is the work that is left for
  the worker and for `Flush` and `Stop`. The theorems say that nothing raises it, since a delivery was counted from the
  beginning for all it can cause (its own write, and one more round of a flush that looks again); that each step of the
  worker or of the shutdown lowers it; and that under the fairness of section 4 an accepted settlement that is not
  written, and a flush that has not returned, always get to a smaller `Todo` or to their end. `ClosedOK` is what
  makes this true: the idle channel of the moment is not closed while something is pending, so a flush that finds work waits
  until it is done and not in a circle. `AcceptedIsWritten` and `ShutdownReturns`, together
  `QueueGoesOn`, follow by induction over `Todo`.

*Ledger* (`RowSettlement_proofs`; `LedgerConstants`, finitely many losers): `TypeCorrect`, `LedgerIsExact`,
`EffectsAreOwned`, `LeasesStayBehind`, for any settlements, losers and costs. `LedgerExact`
is not inductive, because an overwrite given up may arrive late. `LedgerInv` adds that whoever paid,
may pay, or may still have a statement on its way owns the terminal state (`OwnsRow`), that such a one
carries a cost (`CarriesCost`), that what a lease was charged for is in the row (`LeasedIsPaid`) and
that the charge is exactly the sum of the settled leases (`ChargeExact`). The proof first shows that
the terminal state is written once (`FinalStays`), then that ownership begins only by winning it
(`OwnershipBegins`), then what each kind of statement does to the ledger (`QuietStep`, `WinnerWrites`,
`LoserAdds`, `LeaseSettled`). `TotalGrows`, that a sum over more losers is not smaller, is an
induction over sets. The prover cannot instantiate an induction theorem, so the lemma goes by least counterexample:
`LeastNumber`, from the well-foundedness of the naturals, gives a set of the least size that is at fault, and taking one loser
away gives a smaller one.
`RowsClose` (`EveryRowCloses`): a row that is open keeps the patrol between listing it and repairing it, a round that fails
or dies with its process comes back to listing (`RoundsOfThePatrol`), and a repair closes the row.

*Lease of a budget* (`RedisKeys_proofs`): `LeaseTyped`, `SpentIsAlwaysRefused` (`SpentIsRefused`),
`RefusalIsAlwaysEarned` (`RefusalIsEarned`), `SliceIsNeverWider`. `LeaseInv` follows a cut of
the ledger through a flight, the slice in Redis and the verdicts made on it (`CutOK`): every number on
the way was the ledger at a moment the invariant can name.

*User reset* (`RedisKeys_proofs`; `ResetAssumption`): `ResetsAreFinal` (`ResetIsFinal`) and `NewerStays` (`NothingNewer`), for
any POSTs, instances, rows and faults. `ResetInv` says what each POST and each leader knows at its place (which table is already
free of older rows, whether the job is queued again, ended or its own), and what a record stands for.

*Session binding* (`RedisKeys_proofs`; `BindingAssumption`: finitely many requests and keys, so that a fresh
generation exists): `BindingAlwaysHolds` (`BindingHolds`). `BindingInv` says that the mirrors belong to a binding and end
with it, and that a request that was overtaken holds a generation that is not the current one.

*Caches and bus* (`ConfigCaches_proofs`): `KeyedTyped`, `TableStaysFresh`, and `KeyedImplementsRegister`, the
refinement `GetsAreFresh`, for any readers and invalidators. `KeyedInv` says that a load of the current
version has read no earlier than every invalidation that returned and every one that has already
raised the version. TLC checked it with three readers and two invalidators first (6 million states).
`CellStaysFresh` and `DomainStaysFresh` (`OnlyAJoinIsStale`): the cell alone, for any askers and values
(`ValueAssumption`), and under the bus, whose callbacks are its invalidations. `ResolvedKeysAreFresh`: the keys of
`AuthStore` are such a keyed cache whatever happens to its users, so resolving a key has `GetsAreFresh`; the table of users has not (`auth_stale`).

*What an attempt leaves* (`AttemptEnd_proofs`). Probe: `ProbesHoldTheLease` (`ProbeHoldsLease`), where `RenewalsInStep`
ties the end of the lease to the next renewal: it ends as many intervals before a whole TTL from
then as renewals were missed, so that after at most one miss a renewal comes before the end.
Slow samples: `PunishedAreMarked` (`PunishedIsMarked`), where `MarkFollows` says that the write that reached the trigger
is followed by a mark that outlives every sample then in the window. `NoSlowSampleIsForgotten`
(`NothingSlowIsForgotten`), where `RecoveryEarned` carries the clean samples in a row from the counter through
the recorder's memory to the EXEC that is still clean. Pump (`PumpAssumption`): `BlameIsRight` (`BlameFitsTheCause`) and
`DeparturesSettle` (`CancelSettles`), along the way of a departure: noticed, the source cancelled, decided, closed, settled. `EndInv` says
that nobody else leaves this way behind, and that the one close that is awaited in line comes after an end of file.
Circuit (`CircuitAssumption`): `HashAlwaysTells` (`HashTellsHistory`) and `WindowsAreKept` (`WindowKept`), by
following what each writer read until its EXEC, which succeeds only on a hash that is still that.

*Serial attempts* (`SerialAttempts_proofs`; `SerialAssumption`: finitely many providers and rectifiers):
`SerialTellsTheTruth` (`CallsTellTheTruth`), `SerialHoldsItsPlaces` (`PlacesAreHeld`), for any providers, limits, tries,
switches and callers, and `SerialEnds` (`CallsComeToAnEnd`): the variant falls with each step, so that a call ends if it goes on.
`CallsInv` says round by round what was tried, who was banned and what the row and the caller will hear.
The proof had to say which providers count as attempted: one that is full does (`attempt.go:566`), although
nothing was sent to it.

Liveness. `RowsClose`, `DeparturesSettle`, `DecidedRacesEnd`, `SettlementsComeCloser` and `ShutdownComesCloser` have two kinds of hypotheses
beside the fair specification.

- The prover has no rule for ENABLED. So each of them assumes where the fair steps are possible: `PatrolCanAct`, `PumpCanAct`, `RaceCanAct`,
  `QueueCanAct`, in the modules of the specifications. They are implications from a plain guard, hold in
  every reachable state, and TLC confirms this when one is added to a configuration as an INVARIANT:
  `PatrolCanAct` and `PumpCanAct` on `AttemptEnd_end` (1.0 million states), `RaceCanAct` on a race of two in flight with all faults and a client that
  may leave (150,000), `QueueCanAct` on three deliveries (292,000).
- `DecidedRacesEnd` has a fairness with quantifiers, `\A p \in Providers`, about which the prover of temporal logic knows nothing; it is
  a hypothesis of every moment (`[]Fairness`), which for fairness is no more than of the first one.

Only model-checked:

- Four properties of liveness whose proof is an induction over a number that no constant of the code bounds, and one over
  connections: `AcceptedIsWritten` and `ShutdownReturns` (`QueueGoesOn`; up to the last induction they are proved), `WaitersAreServed`
  (users of the budget), `ContentIsDecided` (checkpoints and chunks) and `LossIsRepaired`. Such an induction is over a temporal formula, for
  which the prover of temporal logic has no numbers and the others no temporal formulas. `AttemptsEnd` with its sixteen steps is
  the exception.
- ENABLED: the second part of `ExitNeverStuck` (in `NobodyWaitsInVain`), that the guards `ExitGoesOn` speaks of are those of
  the steps, and the hypotheses above.
- What the refutations of section 6 show.

Every invariant and every action property of the passing runs is a theorem, but for that part of `ExitNeverStuck`.

## 6. Where the code and its comments disagree

Each of these has a run that shows it.

- `hedge_hang`: `launchAlternativeOnce` returns at once when the candidates ran out
  (`hedge.go:836`), without asking whether the race is exhausted. A threshold finds no candidate
  while one attempt is in flight; that attempt fails; nobody ends the race until the client leaves.
- `hedge_abort`: `finishAttemptFailed` sends on a channel of capacity one with `race.mu` held
  and does not look at `settled` (`hedge.go:1244`). After the client left, two attempts send; the
  second keeps the lock, and the caller waits for it in `finish`. With `MaxInFlight = 3` (the settings allow up to four,
  `adminapi/system_settings.go:194`) no client has to leave: of three failures that end the race one is taken by the caller, one fills the channel and
  the third keeps the lock. The proof of `DecidedRacesEnd` found it.
- `hedge_dial`: the timeout of a dial cancels the attempt's context (`hedge.go:510`), and a
  cancellation is classified as the client's abort (`errors.go:23`).
- `ledger_gap`: the scan for cost gaps (`store/patrol.go:70`) looks for an empty cost. When the
  winner's cost failed and a loser was billed (`message.go:752`), the cost is the losers' and not empty.
- `endpoint_shut`: the success of the trial after an endpoint's window (`health/writer.go:389`)
  clears the window's end and leaves the state open: the endpoint is refused until a probe, an
  administrator or the expiry of the key deletes it.
- `auth_stale`: the comment at `adapters_store.go:302` clears the users with the keys so that no stale row
  of a user is let through; but the plain table of users (`adapters_store.go:249`) is also written by a
  lookup that began before the invalidation, for it has no version to tell.

Configurations that no run uses are kept for what they show; `tlc -config <cfg> <module>` finds the trace.

| configuration | statement | what happens |
|---|---|---|
| `ResponsePump_idle` | `IdleMeansSilent` | The idle timer is armed before a read (`stream.go:887`) and not stopped when it returned, so a client slow to take the chunk is blamed on the provider. |
| `ResponsePump_close` | `CloseEndsTheStream` | `Close` sets `closed` and then calls `ClientCancel`, which returns because `closed` is set (`stream.go:867`): a handler that leaves by a panic ends neither pump nor row, and the lease of an unread prefix is never returned (`CloseStream` of `StreamGate`). |
| `InvalidationBus_late` | `LateIsSubscribed` | The pump compares the channels only after it dispatched a message (`bus.go:386`): a callback registered late is not subscribed until somebody publishes. |
| `Replay_leak` | `SpoolsEnd` | `CompleteAndPersist` (`spool.go:326`) returns at `ctx.Done` while the queue is full: terminal is set, the finalization was not queued, and nobody releases the spool, against `spool.go:502`. |

Four more statements fail under other constants. `ByteForByte` of `Replay` says what `integration_test.go:312` does, that the text in PostgreSQL is
byte for byte what was written. With one call that goes wrong (`Replay_leak.cfg` with `MaxFaults = 1` and `INVARIANT ByteForByte`) TLC finds
it violated: the reply of `WriteOwned` is lost, the client sends the script again (`dataplane.go:274`), RPUSH appends the batch a second time, and
since `chunkCount` is the length of the list and is never compared with what was sent, `finalize` persists the response with the batch in it twice. The
passing run contains these steps; its properties say what is still true then. `WrittenIsLive` of `Replay`: the `ON CONFLICT` branch of `store.go:656`
does not set `expires_at`, so a row can be completed and already expired. With three requests an expired row can
moreover be overwritten by a second owner, whose lease has lapsed, between `Persist` and `Complete` of the first: then the state
names a response the row does not hold, but nobody is served from an expired row. The proof found it; `CompletedIsDurable` speaks
of rows that have not expired. `TwoMissesAreBorne` of `ProbeLease`:
after two missed renewals the third comes when the lease has ended, against `probe_lease.go:55`.

Observations while modelling, by module.

- *Race.* After `MainAbort` a winner can still put its stream in `resultCh`, and nobody takes it. An attempt is
  launched in one critical section and registered in another; a winner in between does not cancel
  it (`Register`). The correction of a placeholder looks at the first chain entry of the
  attempt, which is the placeholder only for the first attempt.
- *Serial attempts.* A provider that was full counts as attempted (`attempt.go:566`). When the wait before a retry is cancelled, the caller is told of a
  client abort while the deferred `Settle` settles the provider's failure; the same when `Select` or a later plan
  fails. The answer 429 looks at the last attempt only (`dataplane/response.go:185`), so that it is given when others failed by
  their own fault (`SaturatedMeansAllFull` of `SerialAttempts` fails). go-redis repeats a call whose reply was
  lost: with one place left the second is refused by the first (`RefusedByItself`), and the place stays taken until the
  TTL, against the comment of `acquire`. `completeResponse` takes a client that leaves for a system error.
- *Gate.* `Snapshot` and `Reserve` are two critical sections although `budget.go:35` says there is no boundary, so
  a gate can wait without `OnBudgetWaitStart`. A checkpoint that wakes the gate restarts the idle timeout, so a silence
  may exceed `IdleTimeout`. A chunk already in the channel is not counted by the last checkpoint.
- *Slow providers.* "Entered quarantine" is reported too rarely: a penalty above zero is taken for still being in it
  (`recorder.go:338`). The window is closed at its old end where it is read and open where it is trimmed, although
  `route/slowrate.go:258` calls them the same. A lost probe lease is not taken again, and a lease ends with the
  client's context although the pump may still drain.
- *Row.* `AwaitSettlement` reports an error also for a row that is committed and lacks its cost.
- *Circuit.* `RecordEndpointFailure` opens only a state that is not open: an endpoint whose window has passed is not
  opened again by further failures.
- *Pump.* The deadline for a pending chunk can hardly fire: `Read` takes the chunk in the call that read it.
- *Caches and bus.* A load shared by several callers runs with the context of the one who began it, so his leaving fails the
  others; so do the flights of a lease. The old subscription stays when the pump ends on "changed". A callback added to a
  channel already subscribed gets no resync. `Registry.Close` releases only when there is no bus.
- *Replay.* A claim whose request never gets a response blocks its key until the lease lapses after 45 s.
- *Sessions and slots.* The member of a provider slot is never renewed and pruned after 300 s although its stream may
  last longer; a lost reply leaves a member until then. WebSocket attempts take no slot.
  `terminate.go` removes a bare session id where members carry a token. The cooldown
  in `binding_writeback` is an HGET followed by a SET.
- *User reset.* A slow POST whose last `Set` arrives late turns a completed record back to queued. When the `Set` of the
  failure fails, the record says running for ever. Two resets of one user may be in flight (`status.go:107`). A leader that lost
  its PostgreSQL session goes on, since `Run` does not ask again, against `worker.go:17`. A lease refresh
  that read the ledger before the deletion may write its slice after the caches were cleared.
- *Ingress.* The limiter of bodies has no multiplier, so its static cap never bites.

## 7. What is not modelled

The components of `PROJECT.json` with status `not_modelled` say why: some are in the plan below;
the others are pure transformations (protocol conversion, request shaping), SQL and its
rendering (administration API, statistics, public status), I/O and logging, and the web front
end. Within modelled parts:

- `store`: retention, listing queries, prices; `health`: the circuit of a vendor and type, and expiry of keys.
- `route`: affinity and the choice among candidates, the cooldown of a session.
- `limit`: the cost windows counted in Redis, the sessions of keys and users, limits on requests per minute.
- `forward`, serial: how a plan is built, the endpoints of a provider, attempts over a WebSocket.
- `session`: the indexes of sessions for display, client tokens, detail of a session.
- `gate`: what makes a frame content (`gate/frame.go` decides on data), the limit for a single chunk.
- `cmd/cchd`: start-up, and the stopping of the jobs one by one.

## 8. Plan

Done: race, front door, write queue, exit, row settlement, circuit, pump, caches and bus, replay, cost lease,
user reset, budget and gate, slow rate and probe lease, session binding, serial attempts over provider slots.

Refinements done: a keyed cache implements a register that is never older than the last complete
invalidation; a gate implements a user of the budget; the exit sequence implements the door and the queue; a race implements
one verdict and one answer; the write queue implements one line.

Left, the most important first:

1. Ingress budgets: bytes in use are the sum of the leases, for any number of requests.
2. Outbox and leader of the jobs; the feed of usage; affinity.
3. A refinement: the replay implements a prefix register.
4. For the budget and the gate, what `Todo` is for the queue: a number that each fair step lowers.
