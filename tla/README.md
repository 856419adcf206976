# gw2-otel-collector in TLA+

A verification project for the collector: TLA+ modules of its stateful parts, TLC
runs on small instances, and TLAPS proofs for every value of the constants. Paths
without a directory name files of the repository (`events.go` is
`internal/events/events.go`).

The collector polls the snapshot-only Guild Wars 2 API. One goroutine per family of
endpoints (17 of them) fetches, puts a snapshot in an in-memory store, and for some
families hands the answer to an emitter that turns differences into log records. A
metrics callback reads the store at each export. A bbolt file remembers what was
emitted across restarts.

## 1. Inventory

| Component | State | Operations | Talks to |
|---|---|---|---|
| event emitter, `events.go` | none of its own | `OnAccount`, `OnCharacters`, `OnUnlocks`, `OnResets` (all through `diffUp`), `OnGuildLog`, `OnPvPGames`, `OnTransactions` | called by family goroutines; reads and writes the event state; hands records to the log pipeline |
| event state, `state.go` | buckets `ints` and `seen`, durable | `Open`, `Close`, `PrevInt`, `SetInt`, `HasSeen`, `MarkSeen` | called by the emitter, opened and closed by main |
| telemetry pipeline, `telemetry.go` | the batch processor's queue, in memory | `Setup`, the shutdown it returns | takes records, exports them over OTLP |
| lifecycle, `main.go` | root context, the stack of deferred releases | `run`: set-up, first reference refresh, start, drain, deferred shutdown | everything |
| poller, `poller.go` | process-lifetime caches, one ticker per family | `Start`, `run`, `Wait` | client, store, emitter |
| snapshot store, `store.go` | one snapshot per key, `lastSuccess` | a setter and a getter per key, `LastSuccess` | written by the poller, read by the poller and by metrics |
| API client, `client.go` | the token bucket | `get` with retries, `do`, `sleepWithBackoff`, one wrapper per endpoint | called by poller and reference cache |
| reference cache, `reference.go` | tables (an atomic pointer), build (an atomic integer) | `Refresh`, `Start`, look-ups | called by main and by its own goroutine, read by metrics |
| metrics, `metrics.go` | none of its own; what is exported | an export callback, registered and unregistered by main | reads the store and the cache, getter by getter |
| account value, `value.go` | none | `Compute`, a sum over priced items | called by the value poll |
| configuration, `config.go` | none | `FromEnv` | called once by main |

What is hard in it, and what makes each part correct:

- *Emitter and event state.* An event and the durable note that it was emitted are two
  steps; crashes, failed writes and shutdown come in between, while the game moves on.
  Correct means: the note never runs ahead of the event; a repeat always has a fault to
  blame; what the API keeps showing is emitted in the end.
- *Pipeline and lifecycle.* A record in the batch processor is only in memory. Correct
  means: a graceful stop ends every handler before the file is closed, and flushes
  everything after that.
- *Poller and store.* Polls of 17 goroutines interleave at every call, and any of their
  calls may fail. Correct means: snapshots are whole, success times are honest,
  handlers never see an older answer after a newer one, and `Wait` is a barrier.
- *Client.* Goroutines, retries and cancellations share one bucket. Correct means: no
  window of time sees more requests than the limit, only what may be repeated is, and
  every call returns.
- *Reference cache.* The build may change between any two of the calls of a refresh.
  Correct means: the gate on the build never keeps stale tables, tables never go back.
- *Configuration and process.* Environment, set-up steps that fail, signals at any time.
  Correct means: nothing is released under its users, whichever way out `run` takes, and
  a stop ends with everything released.
- *Metrics and account value.* One export takes some twenty locks one after another, and
  the value poll asks for one place after another while the player goes on playing.
  Correct means: an export is consistent where its readings belong together, its error
  is bounded by what moved, and it heals.

Every point where this bites is under `hazards` in `PROJECT.json`, at its line.

## 2. Modules

| Module | Models | Notes |
|---|---|---|
| `Delivery` | what the emitter promises of an item: an abstract ledger of reports, notes and faults | implemented by `SeenEvents`, `DiffEvents` and `GuildLogEvents` (`ImplementsDelivery`) |
| `EventPipeline` | lifecycle of the process, write side of the state file, log pipeline | extended by the three modules below, one per dedupe pattern of the emitter |
| `SeenEvents` | `OnTransactions`, `OnPvPGames` | seen-set: emit, then mark |
| `DiffEvents` | `diffUp` and its four callers | baseline: emit the rise, then store |
| `GuildLogEvents` | `OnGuildLog` | watermark: emit a batch, then one write |
| `PollPlans` | the 17 fetch functions of `Poller.Start` | pure: a poll as a sequence of steps |
| `PlanRules` | what a plan must keep to, said without running it | pure: the hypotheses of the poller's theorems |
| `Poller` | `Poller.run`, `Wait`, the setters of the store | extends `PlanRules`: the machine that runs the plans |
| `Backoff` | the arithmetic of `sleepWithBackoff` | pure, in 64-bit words |
| `ApiClient` | `Client.get`, `sleepWithBackoff`, `rateLimitedTransport` | extends `Backoff`; the bucket of `x/time/rate` is external |
| `ReferenceCache` | `Cache.Refresh`, `Cache.Start`, the startup refresh of main | |
| `Lifecycle` | `config.FromEnv`, `run`, `main` | extends `ReferenceCache`: the process around the cache it waits for |
| `AccountValue` | `value.Compute` and the value poll | over items that move |
| `Collection` | the metrics callback, the setters and getters of the store, the look-ups of the cache | extends `AccountValue`: store, cache and callback together |
| `*Proofs` | theorems about the module they are named for | those of `Delivery` are in `SeenEventsProofs`, those of `ReferenceCache` in `LifecycleProofs`, those of `AccountValue` in `CollectionProofs` |
| `MC*` | instances for TLC | |

### How state and actions correspond to the code

**Delivery.** No polls, handlers or state file: items are offered and withdrawn, reported,
and noted as done with; a report is free the first time and costs a fault afterwards; a
report or a note may cover many items, a note if those on show have been reported. For
`SeenEvents` the items are its ids and `noted` is the bucket `seen`; for `GuildLogEvents`
they are entries of a guild's log, and `noted` is all the watermark hides; for `DiffEvents`
they are the values a rising number can reach, on show once reached after the snapshot of
the first baseline, and `noted` is all up to the baseline. Numbers that may drop are not
items: their values come back. Each `Promise == INSTANCE Delivery WITH ...` is the mapping.

**EventPipeline.** `phase` follows `run` in `main.go`: *running* until the context is
cancelled, *draining* while `p.Wait` waits (handlers already called go on, no new poll
succeeds), *closed* after the deferred `stateStore.Close`, *down* after the deferred
telemetry shutdown, which runs last because it was deferred first. `queue` is the
memory of the `BatchProcessor`, which drops its oldest record when full; `delivered` is
what the backend has; `lossy` records that the pipeline dropped something. `Crash` may
happen at any point; the next process starts with `Restart`. A write succeeds
(`WriteOK`), is rolled back with an error that the handlers log (`WriteFails`), or meets
a closed database (`WriteRefused`).

**SeenEvents.** A caller is a family goroutine. `Poll` is the successful fetch:
`todo[c]` is the answer being worked through, while `window`, what the API would answer
now, moves on (`Complete`, `Rotate`). A turn of the handler's loop is `Skip`, or
`EmitNew` and then `MarkSeen` or `MarkSeenFails`. The order of the answer is left open.
The two sides of the transactions poll are taken as one answer, as their keys differ.

**DiffEvents.** `Poll` takes a snapshot of the caller's numbers; each key then goes through
`diffUp`: `Same`, or `Rebase` or `EmitRise` followed by `SetInt` or `SetIntFails`. The
resets poll fetches and diffs its kinds in turn, which for independent keys is the same as a
caller per kind. `Reset` stands for the daily reset and for a character made again. `grown`
and `reported` are a ledger for the properties; `grown` restarts with the snapshot that
becomes the first baseline, because a first observation is not reported. `told` counts, for
each value of a rising number, the events that rose past it.

**GuildLogEvents.** `OnGuildLog` reads the watermark once and fixes the entries above it
and the largest of their ids; `EmitEntry` for each; one `SetInt` at the end. The game
appends meanwhile, and older entries leave the answer's window.

**PollPlans and Poller.** A plan is the list of what a fetch function does in order: fatal
calls (`Get`, `GetOf`), ignored errors (`Soft`), calls made until they succeeded once in the
process (`Once`; a search and the recipe it finds are one), calls made when an unknown id
turned up (`Missing`), use of another family's snapshot (`Stored`), early returns
(`Unless`), setters (`Set`, `SetUnmarked`) and emitter calls (`Emit`). `Poller` runs one
plan per goroutine: `pc[f]` is its step, 0 in the select. The numbers in an answer are
abstracted to the time the answer was given, which is what tells apart whole, mixed, old and
new snapshots. The first poll runs before the ticker exists; a ticker holds one tick. A
setter and its mark are one action, as they share one lock. The shape of the account
(guilds, which of them are led, characters, tracked items) is a set of constants.
`PlanRules` says what the order of the steps in a plan has to be for the machine to be
right: one call feeds a handler (`OneFeeder`); setters come after the answers their snapshot
needs (`WholeWhenSet`, `StoredIsNeeded`); a family marks its key after its last fatal call
(`MarkedLast`).

**ApiClient.** Time passes in ticks of 1/`RateLimitPerSec`. `Reserve` takes the next
token, possibly a future one, `WaitRefused` is the immediate refusal of a wait beyond
the deadline, `CancelReservation` gives a token back unless a later one was promised.
`Receive` covers every outcome of `do`; `Retry`, `Exhausted`, `Answered` are the loop.

**Backoff.** 500 ms are 5^9 units of 2^8 ns, and shifting keeps whole units, so the model
computes with units and 56 bits where the code has nanoseconds and 64: the same bits are
cut off.

**ReferenceCache.** A table is identified by the build it was fetched at. `Refresh` is
taken call by call; `Publish` and `Record` are the two stores at its end. main starts
the loop after the startup refresh, whose timeout is a failed call.

**Lifecycle.** `stage` is the place in the text of `run`; `deferred` is the stack of its
deferred calls, `open` what they have still to release. A setting is abstracted to what
tells the outcomes apart: unset, blank, garbage (the default is taken), positive, zero,
negative. `SetupFails` is the error return of the step at hand. `Signal` cancels the
root context while its handler is in place and kills the process otherwise. A poller
goroutine is only its ticker here (`TickerPanics`, `PollerReturns`); `Poller` has the
rest. The steps of the cache are those of `ReferenceCache` itself, guarded by the stage.

**AccountValue.** `held` and `coin` are the world, `answer` and `purse` what the poll was
told so far. Player moves only move worth about, so a wrong total is the poll's doing:
`slack` adds up what moved under the poll, `leeway` keeps it with the published value.

**Collection.** The callback is a list of `Readings` in the order of its text: getters,
name look-ups, season look-ups quest by quest, season totals, timestamps last. `pc` walks
through it while polls set snapshots, the value poll goes call by call, and `Publish`
replaces the tables. A snapshot is the time it was taken and, where a property looks into
it, its data: guilds, completed quests, open orders, the value breakdown. Game time and
builds share one clock. A poll other than the value poll is one step, because only its
setter touches what the callback reads.

## 3. Runs

| Run | Question |
|---|---|
| `seen` | Emit-then-mark under a crash, a failed write, a stop and an export that fails, between any two steps: it implements `Delivery`, in which repeats need faults; a stop flushes, and everything shown is emitted. (`RepeatsOnlyAfterFaults`, a little sharper than the ledger, is proved.) |
| `diff` | No invented and no hidden progress, across resets and faults; the baseline keeps up, and implements `Delivery` value by value |
| `guildlog` | One write per batch hides nothing; everything shown is emitted; it implements `Delivery`, in which repeats need faults (here `RepeatsOnlyAfterFaults` follows from it, and is proved too) |
| `poller` | All 17 plans with a failure at any call and a stop at any step; the plans keep to `PlanRules` |
| `poller_live` | A stop is carried out; the families `account` and `wvw`, linked by a snapshot, converge |
| `client` | The limit, the bound on attempts, what may be repeated, that every call returns; the backoff doubles to its cap, and from which attempt on it panics |
| `lifecycle` | Gate, publication and catching up of the cache inside the process; order of the releases on every way out; a stop asked for at any time ends clean |
| `collection` | Exports between polls, refreshes and player moves: data with its timestamps, quests within totals, names that stay, the value's error and sums, and healing after soft failures |
| `seen_loss` | violated: "at-least-once ... rather than drops" (`events.go:10-11`), taken for the backend |
| `diff_reset` | violated: "the next completion re-emits" after a reset (`events.go:104-106`) |
| `poller_marks` | violated: "the time of the last successful poll" (`store.go:460`) |
| `poller_timestamp` | violated: a timestamp "per endpoint family" (`README.md:57-58`) |

What the violated runs show:

- `seen_loss`: the id is marked in the file while its record is only in the batch processor.
  A crash, a full queue or an export given up then loses the event. The guarantee is
  at-least-once *into the pipeline*, and `Delivery` is its exact form. A crash between the
  two steps repeats the event, so `state.go:3` ("neither lost nor re-emitted") promises more
  than either half; `RepeatsOnlyAfterFaults` is what holds.
- `diff_reset`: count 1, reset, count 1 again between two polls: nothing is emitted.
- `poller_marks`: `SetPvP` marks `pvp` and the poll then fails in `PvPStandings`; `commerce`
  does the same. `MarkedOnlyBySuccess` holds for the other families, with the exceptions
  named in `Late`.
- `poller_timestamp`: `transactions` calls no setter, so it never has a timestamp.

### Bounds, and why they are enough

- `MaxCrashes = MaxWriteFailures = MaxStops = 1`: each fault happens, in every order with
  the others and followed by a restart; the bounds of the properties count faults, so one of
  each kind already makes the sums of two. The proofs lift the bounds.
- `QueueCap` 1 or 2: the queue overflows, and holds two records.
- `seen`: one id per caller, which is one for each handler; `seen_loss` has two ids in one
  answer. `diff`: a key that only rises and one that resets, numbers up to 1 (up to 2 in
  `diff_reset`), growth up to 2; that one event reports several values needs larger numbers
  and is left to the proof. `guildlog`: a log of three entries, so that a batch of two is
  under way while a third is appended.
- `poller`: `MaxTime = 2`, an answer before and one after a change; one failed call that no
  cancellation explains, loops of two turns, two guilds of which one is led. Families that
  read each other's snapshot run together (`Slices`), others alone or in pairs: they share
  nothing but the lock of the store, and no key of the store has two writers. A plan is a
  list of blocks, one per guild, character, item or turn, and a rule of `PlanRules` relates
  two steps: two blocks of each kind are all the pairs there are (`PollsKeepToRules` proves
  it).
- `client`: two goroutines, burst 2, one retry, a deadline of one tick, a history of three
  ticks: reservations of future tokens, refusals, returns and retries all happen. The
  backoff is looked at for attempts 1 to 100, past the last bit of the word.
- `lifecycle`: three tables, three builds, two failures: two changes of build fall into one
  refresh, and a refresh fails before and after one. Two tickers, of which one takes every
  kind of setting.
- `collection`: `MaxTime = 2`, a snapshot or table before and one after a change; one failed
  soft call and one player move, which can fall between any two readings or calls. Keys run
  together (`Slices`) where a property relates them or one poll reads the other's snapshot;
  the getter of a key that no poll of the run sets reads nothing and is left out. In the
  slices outside `Timed` nothing depends on a change of build, and the clock stands at its
  end.

### Fairness

Safety properties do not depend on fairness, whichever specification a run names. For
liveness: a goroutine that can take a step takes it (`WF` on the steps of a handler, a poll,
a call), because every call has a timeout and the scheduler is fair; tickers tick; a stop
that was begun is completed (`main.go` runs on by itself); polls succeed in the end. One
assumption is about the user and not about the code: a process that ended is started again
(the repository sets no restart policy; a process left down emits nothing). A `select` picks
at random among ready cases, so a ready cancellation is not passed over for ever although
ticks keep coming: `SF` on `SeeDone`, and on nothing else. In `Lifecycle` the main goroutine
goes on (`WF` on the steps of `run`; the deferred calls return, the flush within 10
seconds), and its `ServiceIsCurrent` is claimed only of a process that comes to serve and is
not stopped. In `Collection` tickers and the reader's timer fire and callbacks return; the
convergence is claimed once the clock and the player rest. No fairness is assumed of the
game, the exporter, the API's windows or faults. Where progress needs faults to end, they
are bounded, and the property says so or the bound is in the constants (`MaxFailures`).

Deadlock is checked in every run; a process that has ended for good stutters
explicitly (`Ended`).

## 4. Proofs

Assumed: the `ASSUME`s of the modules, which say that bounds are numbers, that ids or keys
belong to one caller, that `None` is not a value, that prices and counts are numbers, and
that items, quests and guilds are finitely many, and that the account's answer names each of
its guilds once (`PlanAssumption`). TLC evaluates them in the runs. Some theorems about the
poller also name rules of `PlanRules` as hypotheses, and others discharge them: see below.

- **SeenEvents** (`ImplementsDelivery`, `MarkedOnlyAfterEmit`, `RepeatsOnlyAfterFaults`,
  `StopFlushesMarked`, types). None of these is inductive alone. The invariant adds
  `CallsOK`: an id being marked is its caller's own, in its answer, emitted and not yet
  seen, so that a mark can only follow an emit and no two calls mark one id;
  `StoreOpenWhileHandling`: a handler at work implies an open file, so a write can be
  refused only with a fault to blame and `HasSeen` never answers "no" wrongly;
  `EmittedIsKept`: without loss an emitted record is queued or delivered, which at the end
  gives the flush.
- **DiffEvents** (`ImplementsDelivery`, `NeverOverReports`, `NothingUnreported`, types). The
  invariant is a ledger: what was reported plus what is still `Owed` at this point of the
  call stays within growth plus one range of values per fault; for rising numbers it also
  stays at or above the growth the baseline covers. `Owed` has a form for each place of a
  key in a call (idle, pending, being saved); each action moves an amount from one to
  another. Sums do not tell one value from another, so `ToldInv` looks at each value `v` of
  a rising number: it is *passed* if it is at or below the baseline, or at or below the
  snapshot of a call that is about to store it. A value that is passed and was reached since
  the first baseline has been in an event, and no value was in more events than there were
  faults, plus one if passed.
- **GuildLogEvents** (`ImplementsDelivery`, `WatermarkHidesOnlyEmitted`,
  `RepeatsOnlyAfterFaults`, types). `Behind(g, i)` says that the watermark hides an entry or
  will when the call under way stores it; shown entries behind it are emitted, and emissions
  are bounded by faults, plus one if behind it. New entries lie above both marks.
- **Refinement.** `SeenSetDelivers`, `WatermarkDelivers` and `BaselineDelivers` prove that
  all three patterns of the emitter implement `Delivery`: under the invariants above each
  action maps to an action of the ledger or to a stutter (an emit to `Report`, of all the
  values of the rise in `DiffEvents`; a state write to `Note`; a crash or a failed write to
  `Fault`). That the ledger keeps its promises is proved once, of the values of its four
  variables (`MovesKeepPromise` in `EventPipelineProofs`). Carried down, that is
  `SeenSetKeepsPromise`, `WatermarkKeepsPromise` and `BaselineKeepsPromise`: nothing on show
  is noted without a report, and no item is reported more often than once and once per
  fault.
- **Poller** (`NothingAfterWait`, `HandlersSeeTimeForward`, `SnapshotIsWhole`,
  `MarkedOnlyBySuccess`, types), for any families and plans. What is right inside one poll
  function is a rule on its plan; what the proofs add is that interleaving, failures, early
  returns and the stop cannot spoil it. `StopOK`: main stops only after every scheduled
  goroutine has returned. `ClockOK`: nothing is of a time to come, and what a call brings is
  of now. `FeedsOK` (from `OneFeeder`): a poll under way has at most one answer for a
  handler, from a call it has behind it, and the handler has seen nothing later, so an emit
  goes forward. `GatheredOK` (from `WholeWhenSet` and `StoredIsNeeded`): a poll has the
  answer of each necessary call behind it, from this poll or from a snapshot that was whole.
  `MarksOK` (from `MarkedLast`): a mark later than the last success belongs to the poll
  under way, past its setter, where nothing fatal is left to fail.
- **The plans** (`PlansKeepToRules`, `PollsKeepToRules`). The polls of `poller.go` keep to
  those rules for every shape of the account, not only for the one the run has. A loop in
  the code is a flattened list of blocks in its plan, of unknown length: every step of it is
  a step of some block, and each call of one turn is there for each turn (a smallest
  counterexample takes the place of induction). From that, each of the 17 plans is shown to
  satisfy four rules on its own; what relates two plans is that no two families feed one
  handler or set one key. `CollectorIsInOrder`, `CollectorStoresWhole` and
  `CollectorMarksSuccesses` then have the poller's properties without hypotheses on plans:
  `RunsPlans` only says that the machine runs these plans, any of them together.
- **AccountValue** (`DistortionIsBounded`). The published total comes from calls at seven
  different moments. `EstimateOK` follows the total the poll would come to if the rest of
  its calls were answered at once: what it was told of the places asked, what is there now
  in the others. It is off the true worth by at most `slack`: a call changes neither, a move
  changes both by the price of one item at most. At the end the estimate is the total.
  Prices, counts, items and moves are arbitrary; `CollectionRunsValuePoll` shows that the
  composition takes only the steps of `AccountValue`, so it holds there.
- **Sums.** The library defines a sum over a set by recursion, and an induction rule cannot
  be applied here. Every fact (a sum splits, changes by what one summand changes, is the sum
  of the sums of its classes) is proved from a smallest counterexample instead:
  `SmallestSubset` gets one from the well-foundedness of inclusion among the subsets of a
  finite set.
- **Collection** (`StampsBracketData`, `StoryWithinTotals`, `NamesStay`, `BreakdownAddsUp`,
  types). The callback is a list of readings as long as there are quests, so each invariant
  says what a collection has at *any* place of the text. `StampOrder`: what was read is no
  newer than the timestamp stored now, and no older than the timestamp last exported.
  `NameOrder`: what was exported with a name was stored and looked up, and will be again.
  `StoryOrder`: the completed quests counted so far are quests that the present tables know,
  and each is counted once, so that totals read later, from tables that only go forward, are
  never less. `BreakdownsSound`: store, collection and export only hold breakdowns that were
  computed, and computed ones add up.
- **ReferenceCache** (`RecordedBuildIsCovered`, `TablesNeverGoBack`, types). At most one
  refresh runs at a time (the startup refresh and the loop hand over); the tables it holds
  are no older than the build it read first and than those they replace.
- **Lifecycle** (`UsersComeFirst`, `RecordedBuildIsCovered`, `TablesNeverGoBack`, types).
  Every step of the process is one of the cache or leaves it alone, so the cache's theorems
  carry over. For the releases the invariant says that the stack is a first part of the list
  signals, telemetry, state, callback, that what is open is what is on the stack, and how
  high it is at each stage.
- **ApiClient** (`NeverBurstsPastLimit`, `AttemptsAreBounded`, `OnlyRetryableIsRepeated`,
  types; the set of callers is assumed finite, since promises are counted). What was sent is
  bounded only together with what is promised. `SendsOK` counts requests of the last `n`
  ticks plus promises twice: all promises against the bucket, and those due within `k` ticks
  against `Burst + n + k`. `SlotsOK` says that promised ticks of the future differ and that
  the last is the bucket's debt, which is why a new window starts with no more promises than
  ticks, and why a promise given back may lower the debt by one.
- **Backoff** (`BackoffIsSane`). Up to the sixth shift the bound is computed; from there to
  the 34th the product keeps its bits and is above the cap; the 35th leaves a negative
  number, and `rand.Int64N` panics.
- **EventPipelineProofs** has what the emitter's three proofs share: what `Emit` and the
  steps of the pipeline do to types and to records kept, and why the ledger keeps its
  promises.

Only model-checked:

- all liveness (`EveryTransactionEmitted`, `EveryEntryEmitted`, `BaselineCatchesUp`,
  `StopTerminates`, `StoreConverges`, `EveryCallReturns`, `ServiceIsCurrent`,
  `StopEndsClean`, `ExportsConverge`): fairness and `ENABLED` are out of the prover's
  reach;
- what the four violated runs show, of course.

## 5. Not modelled, and why

- The creation of the instruments, and labels and units that do not come from the tables:
  wiring without state.
- The arithmetic of achievement points and craft profits (pure, and what the API means by
  its fields is not in the repository); splitting long id lists into requests (a batch
  that fails fails the whole call).
- The metric and trace exporters behind the reader, which lose nothing the collector
  depends on, and the client's own metrics.
- Variables of the environment other than the key and the intervals: constants of the
  modules that use them. A burst of zero, a negative number of retries and an interval of
  the reference loop that is not positive are accepted by the code and outside the
  assumptions of the models; they are listed as hazards.
- JSON types, which have no behaviour; the generator of the dashboards and the deployment
  files, which are separate programs and data.

## 6. Plan, and what is left

The order was: the emitter on its pipeline (the promises a user relies on), the poller
with the store, the client, the reference cache; then the ledger that all three patterns of the
emitter implement, the process around the cache, and the callback over store and cache;
then proofs. Every safety property and every refinement that a passing run checks is also a
theorem; what a run adds is liveness, and that the definitions mean what they should.

Left for later: the batches of ids of the client, and the rules of achievement points and
craft profits, once there is a reference definition to check them against.
