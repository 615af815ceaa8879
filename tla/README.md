# A TLA+ verification of radstorm

radstorm loads a RADIUS server with a subscriber storm.  A run is one CLI process
that drives thousands of virtual subscribers through Access-Request and
Accounting-Request, answers CoA and Disconnect requests, and records everything in
Parquet files and a summary.  An API server starts runs as subprocesses, and a web UI
shows them.

This directory models the concurrent core of both processes in TLA+ and the way of a
run's data from an event to the browser.  TLC checks the models on small instances.
TLAPS proves every safety property that TLC finds to hold, for every value of the
parameters.

## 1. Inventory

### Components

| Component | State | Operations | Talks to |
|---|---|---|---|
| I/O engine, `pkg/io` | Identifier bitmap per (socket, destination), reply matcher (`pending`, `recentDone`), socket pool, started / stopped flags | `Start`, `Send`, `Stop`; a `readLoop` per socket | subscribers call `Send`; events go to the collector |
| Subscriber, `pkg/subscriber` | FSM state, three times, CoA count, stored `Deps` | `Run`, `OnDisconnect`, `OnCoA` | engine (`Send`), collector (`Submit`, `SubmitOutcome`), listener (calls the handlers) |
| Subscriber pool, `pkg/subscriber/pool.go` | indexes by name, session and address, fixed once built | `New`, lookups | listener |
| CoA listener, `pkg/server` | UDP socket, reader goroutines, a cancel watcher, packet counters | `Start`, `Stop`, `handlePacket` | reads the pool, starts the subscribers' handlers, events go to the collector |
| Collector, `pkg/collector` | a channel, a batch and an aggregation per shard, an outcome lane, drop counters, Parquet writers | `Submit`, `SubmitOutcome`, `Stop`, `Aggregate` | written to by everyone, read by the runner |
| Scenario runner, `pkg/scenario` | phase, live counters, WaitGroup, progress sampler | `Run` | builds and stops all of the above |
| Schedule, `pkg/scenario/schedule.go` | none | `BuildSchedule`, a function of configuration and random draws | runner |
| Aggregation, `pkg/collector/aggregate.go` | a `shardAggregation` per shard | `observe`, `Aggregate` | runner; the API's histogram reads the result |
| RADIUS codec, `pkg/radius`; configuration, `pkg/config`; event types, `pkg/events` | none | pure | everyone |
| CLI, `apps/cli` | none of its own | flags, signals, exit code | runner |
| API run manager, `apps/api/internal/runs` and the run handlers | `runs` table, `active` map, subprocess handles | create, start, watch, cancel, shutdown, orphan reaping | CLI subprocess, SQLite |
| Progress tail and SSE, `apps/api` | file offset, line buffer and channel per connection | `TailLines`, `Stream` | the CLI's `progress.jsonl` and `summary.json`, the run's row |
| Web UI, `apps/web` | one event source, whether it has reconnected | `useRunEvents` | the SSE stream |
| Results handlers, `apps/api` | none | read-only | `summary.json` |

### What is hard, and what would make each part correct

- **I/O engine.**  Identifiers are recycled while replies to their earlier owners are
  still on the way; a reply races the timer, the context and `Stop`; the allocator
  scopes an Identifier by (socket, destination) but the matcher looks a reply up by
  (local address, Identifier).  It is correct if no Identifier is shared or leaked, no
  call takes a reply that is not its own, no waiter is forgotten, and every `Send`
  returns after a bounded number of transmissions.
- **Subscriber.**  The mutex covers the assignments but not the events and rows that
  report them, and `OnDisconnect` may come at any moment of `Run`.  It is correct if
  rows, summary and state agree in every interleaving.
- **Collector.**  `Submit` never blocks and races `Stop`; `Stop` may give up on a lane
  that runs on; writers are closed by a goroutine other than the one that writes.  It is
  correct if what was accepted is written and summarised, or the loss is visible.
- **Scenario runner.**  Cancellation may come in any phase; sampler and subscribers
  are not synchronised; construction may fail half-way.  It is correct if it always
  ends, everything it opened is closed, and its last progress line and its summary
  are complete.
- **API run manager.**  A cancel, the start of the subprocess and its watcher update
  one row in separate transactions; the server may crash and restart while the subprocess
  lives on.  It is correct if one run is active at a time, final statuses are justified
  and final, and no row stays active for ever.
- **Listener.**  Several readers share a socket that is closed under them; a handler
  is started after the ACK, on a goroutine nobody waits for; every malformed,
  unauthenticated, unknown or ambiguous request has an early return of its own.  It is
  correct if every packet is counted once and answered as it should be, a request that
  was acknowledged reaches its subscriber, and a cancellation or `Stop` frees everything.
- **Progress stream.**  The tailer polls a file that another process writes in pieces
  and may leave torn; handler and tailer block on each other; the run's end is learnt
  by polling a row, beside the lines.  It is correct if every connection carries
  whole lines in order, ends with the summary, and leaves nothing behind.
- **Schedule and aggregation.**  Clamping, rounding and bucket edges; the events of a
  subscriber are folded by one shard and reduced over all of them; events without a
  subscriber share id 0 with the first one.  It is correct if the summary is what
  happened, however it was sharded, and percentiles are what they are called.

The single lines where these hazards bite are under `hazards` in `PROJECT.json`, each
with the properties that cover it.

## 2. Modules

| Module | Models | About |
|---|---|---|
| `SendContract` | what `Engine.Send` promises | abstract specification: bounded transmissions, one return value |
| `IOEngine` | `pkg/io` | detailed specification, its properties and its inductive invariant |
| `IOEngine_proofs` | | proofs about `IOEngine` |
| `Subscriber` | `subscriber.go`, `state.go` | one subscriber with its handlers |
| `Radius` | `pkg/radius` as the listener uses it | authenticators, attributes, `Encode` and `Decode` as functions on symbolic values |
| `Pool` | `pool.go` and the subscriber's identities | names, indexes and lookup |
| `Listener` | `pkg/server` | extends `Subscriber`, `Pool` (and `Radius`): the composition |
| `Collector` | `collector.go`, `parquet.go`, the trust label of `aggregate.go` | |
| `Schedule` | `schedule.go` | functions |
| `Aggregate` | `aggregate.go`, the histogram of `results.go` | extends `Schedule`; the run's history against its summary |
| `ScenarioRunner` | `runner.go`, `lifecycle.go`, `progress.go` | |
| `RunLifecycle` | `apps/api/internal/runs`, the run handlers, `main`'s shutdown | |
| `ProgressTail` | `tail.go`, `events.go`, `useRunEvents` | from the CLI's file to the browser |
| `<module>_proofs` | | proofs about `Subscriber`, `Listener` (with `Radius` and `Pool`), `Collector`, `Aggregate` (with `Schedule`), `ScenarioRunner`, `RunLifecycle`, `ProgressTail` |
| `MC<module>` | | small constants for TLC |

Operators named "Fault: ..." are faulty variants of the definition that follows them.
`mutants` in `PROJECT.json` pairs each of them with the property that must fail when
it replaces the definition; no specification uses them.

A step of every model is one critical section, one atomic operation, one channel
operation or one call out.  Between two of them any other goroutine may run.

### IOEngine

`bits`, `count` and `next` are the bitmaps of `IDAllocator`, `rrIdx` is the pool's
round-robin index, `pending` and `recentDone` are the matcher's maps, `chan` the
capacity-1 reply channels.  A call walks through `Send`, `Allocate` (or `TryNextSocket`,
`Backoff`, `GiveUpAlloc`), `Register` (or `BuildFails`), `Write` (or `WriteFails`),
`WaitReply` / `WaitTimer` / `WaitCtx`, `Cancel`, and `ReleaseRetry` with `BeginAttempt` or
`ReleaseReturn`, in the order of `runSend`, including the clean-up of every early return.
`SendRefused` is a call before `Start` or to an address that does not resolve.
A socket's `readLoop` walks through `Lookup`, `Claim` (or `ClaimLost`, `Reread`) and
`PushReply`: `Deliver` reads the table under one lock, validates without it,
claims under a second one and pushes afterwards.  `Start`, `CancelCtx`, `WatcherStop`,
`StopReceiver` and `CloseAll` are the life of the engine.

The network is not a variable.  A reader may receive, at any time and any number of
times, an answer to any request already written from its socket, so loss, delay,
duplication and reordering are all there.  An answer that does not validate is a
`DispatchOther` or a failed validation in `Lookup`.  Of the events a reader emits
for a reply only duplicate_reply is told from the others, as `DuplicateIsSecond` is about it.

A request's authenticator is abstracted to what the code relies on.  It is random per
attempt for Access-Request, and determined by call and Identifier for
Accounting-Request.  MD5 collisions are excluded.

### Subscriber

One subscriber is enough: subscribers share only the collector, which the `obs` record
stands for.  `Run` is the sequence of its critical sections and submits; `OnDisconnect`
and `OnCoA` are instantiated once per inbound request.  `Sender.Send` is a choice between
its results.  `outcomes` is the sequence of rows submitted, each with who submitted it:
`QuietAccounting` says which rows there are in the end, `OneRowPerSubscriber` what the
documents say of their number.

### Collector

The shards and the outcome stream are lanes of one kind, as `runShard` and `runOutcome`
have the same structure.  `racing` is a history variable: the calls under way
when `Stop` set its flag.  `WriteRaces` and `WriteReopens` are the outcomes of the data
race between `Stop` closing a writer and a lane inside `writeBatch`.

### ScenarioRunner

`Main` is `Run` with construction, phases, drain, finalize and the deferred shutdown.
Beside it run the subscribers (`RunReturns`, `CountResult`, `WaitGroupDone`), the
sampler (`BeginLine`, `EndLine`, `BeginLastLine`) and `Cancel`.  Offsets and timeouts
are choices.

### Listener, with Radius and Pool

`Listener` extends `Subscriber`: each `Disconnect` and `CoA` of it is one datagram, and
`LoadDeps` or `CountCoA` may only start once a reader has started the handler for it.
`readLoop` is a reader goroutine, `Watch` the goroutine that waits for the context,
`StopFlag` to `StopDone` (or `StopGivesUp`) is `Stop`.  `packets` are the listener's
atomic counters and `submitted` the events it has handed to the collector, of each kind of
request.  That the collector may drop an event or be stopped before the listener is the
matter of `Collector` and `ScenarioRunner`; `PacketAccounting` therefore speaks of what was
submitted and not of the summary.  The handlers' own `coa_received` and
`disconnect_received` are in the subscriber's `obs`; `SummaryReceived` adds them.
`ReportAck` takes the submit, the counter and the `go` statement of one goroutine in one
step; no other goroutine reads the counter or the event.

What a datagram holds is a choice among `Inputs`: requests for this subscriber by
session, by name or by address, for another one, for two at a time, for none; with a
good, a bad or no Message-Authenticator, with vendor attributes that can or cannot be
parsed, with padding, damaged, or of another code.  `handlePacket` is a function from
such a datagram to the reply and the target, built from `Decode`, the validations,
`Lookup` and `Encode`.

Cryptography is symbolic.  An MD5 or HMAC is the record of what went into it, so two are
equal exactly if their inputs are.  In particular `Encode` computes the authenticator
before it fills in the Message-Authenticator, as the code does.  `HandlerContract` asks
that the authenticator was made with the request's authenticator and the secret;
`ReplyValidates` asks that the repository's own `ValidateResponseAuthenticator` accepts the
reply as it was sent, and fails.

A user name is a base with the "+number" suffixes after it, so that a recycled name may be
the name of another credential; an address is the subscriber's number modulo
`AddressSpace`, 2^24 in the code.  Of two subscribers with one name or address the map keeps
the last, where the comment at `pool.go:216` says of an address that "we return the first
registered".  `config.Load` refuses a file with fewer credentials than subscribers;
`NewPool` handles it, and the runs exercise it.

### Schedule and Aggregate

`BuildSchedule` maps a scenario block and the Gaussian draws to offsets, in whole ticks.
`Aggregate` then lets time pass, activates subscribers along the plan, ends them in
every way, retransmits, and lets inbound events carry id 0.  Each event goes to the
shard of its subscriber or is dropped.  `Summary(aggs)` is `Aggregate`, evaluated in every
state, as `Stop` may come at any time.  The variables `activatedAt`, `endedAt` and
`retransmits` are the history that the summary is compared with; `single` is one aggregation that
observed all events.  Percentile ranks are exact here; the code computes them in
floating point, which agrees with the exact ceiling up to at least 300,000 samples.

`Sorted` says of `sort.Slice` that it rearranges its slice in ascending order, and sums are
recursive functions: library sorts and folds would be opaque to the prover.

### ProgressTail

The file is its length in pieces: each line is written as its text and its newline, so
that the tailer may see half of one.  `TailLines` opens the file when it exists, reads
slices up to a newline, keeps a partial line, and blocks on its channel.  `Stream`
forwards lines and polls the row; `watch` ends the row when the CLI exits; `Cancel` is the
cancel handler, which reads the row and later writes cancelling to it, over a final status too; `Restart` is a
crash of the API server with its reaping of the row, so that `stored` tells whether the
summary was in the database or has to be read from the file.  The browser's hook
connects, may be refused, reconnects once after an error and closes on complete.

### RunLifecycle

`Create` and `Post` are a POST handler with `Runner.Start`, `Watch` is the watcher
goroutine, `CancelGet`, `CancelUpdate`, `CancelKill` a cancel handler; `Exits` and `Dies`
are the subprocess; `Signal` to `ShutdownReturns` is `main`'s shutdown; `Crash` and
`StartServer` a crash and a restart with orphan reaping.  Rows and subprocesses survive
the crash, everything else is lost.

## 3. Runs

### Runs that pass

| Run | Instance | Shows |
|---|---|---|
| `io_one_dest` | 2 calls, 1 socket, 1 Identifier, 1 retry, 1 back-off | `IDOwnership`, `ReplyIntegrity`, `PushNeverDropped`, `DuplicateIsSecond`, `NoOrphanWaiter`, `EverySendReturns`, and that `Send` refines `SendContract` |
| `sub_session` | 2 disconnects, 1 CoA, with and without accounting | `RowsCoherent`, `SummaryMatchesRow`, `QuietAccounting`, `EveryoneReports` |
| `lst_session` | 1 Disconnect-Request and 1 CoA-Request of any shape, 1 reader, 3 subscribers with 2 credentials and 2 addresses | `PacketAccounting`, `OnlyAckedHandled`, `HandlerContract`, `EverythingReleased`, `AckedIsHandled` |
| `col_two_shards` | 2 events, 1 row, 2 shards, lanes of one slot | `DrainedComplete`, `HighMeansNoFullDrop`, `NothingPersistedAfterStop`, `EventuallyPersisted` |
| `results_timeline` | 3 subscribers, 2 shards, 8 scenario blocks, 3 ticks | `ScheduleSound`, `ShardingInvisible`, `TotalsMatch`, `CurveMatches`, `LatencyIsNearestRank`, `HistogramSound` |
| `scn_run` | 2 subscribers, warm-up delay | `FinalLineExact`, `DrainedSummaryComplete`, `StartedIsStopped`, `RunEnds` |
| `api_runs` | 2 POSTs, 2 cancels, 1 restart | `SingleTenant`, `FinalStatusJustified`, `CleanShutdown`, `NoGhostRow`, `CancelTakesEffect` |
| `tail_stream` | 2 connections, 2 lines, a channel of one | `StreamFaithful`, `CompleteHasSummary`, `StreamReleased`, `StreamCatchesUp`, `EndIsSeen` |

Deadlock is not checked: every one of these systems legitimately stops, when
all calls have returned, the run is over or the server is down.  That nobody is stuck
before then is what the liveness properties say.

`HighMeansNoFullDrop` excepts calls that were under way when `Stop` began, and
`NoGhostRow` rows that were the target of a cancel.  In both cases the code really does
let the excepted case happen; `api_terminal_final` shows the second.  `EndIsSeen` excepts a
final status that a cancel overwrites, which `tail_completion` shows.  `AckedIsHandled`
counts as handled a request whose handler returns at once because `Run` has not begun, and
knows nothing of the end of the process, for which no goroutine of the listener is waited.  `Aggregate`'s properties
except runs in which events were dropped where a dropped event really changes the
figure; `TotalsMatch` says what still holds then.

### Runs that end in a violation

Each of these states what a comment or a document says of the program, and TLC finds a
behaviour of the code that contradicts it.

| Run | What is said | What happens |
|---|---|---|
| `io_key_collision` | `matcher.go:114`: `Sender` always cancels before it registers again, so no waiter is overwritten | auth and accounting port share a socket; the allocator gives both scopes the same Identifier, and `Register` drops the first call's entry, which then times out with its answer on the wire |
| `col_send_on_closed` | `collector.go:105`: late submits are counted instead of panicking | `stopped` is read before the send, and the channel is closed in between |
| `sub_one_row` | `subscriber.go:705`: a disconnect that races with the end of `Run` does not emit the outcome twice; `docs/RUNBOOK.md:465` and others: one row per subscriber | `Run` and the disconnect that took effect submit a row each, in every order |
| `api_terminal_final` | `rest-api.md`: no transition leaves a final status | a cancel that read the row earlier writes cancelling over it, and the row then blocks every POST until a restart |

Four more such statements are properties of the modules.  Each has a configuration
beside those of `runs`, with which TLC finds it violated in a few seconds:

| Configuration | Property | What is said | What happens |
|---|---|---|---|
| `lst_received_twice` | `ReceivedIsAnswered` | `docs/RESULTS-INTERPRETATION.md:211`: received = acked + naked; `2c-server-listener.md:134`: two events per CoA | the listener and then `OnCoA` submit coa_received for one request |
| `lst_reply_validates` | `ReplyValidates` | `docs/PROTOCOL.md:60`, `auth.go:18` and `auth.go:152`: the Response Authenticator is the MD5 over the reply's attributes | `Encode` computes it before it fills in the Message-Authenticator, so the repository's own validator rejects the reply; `listener_test.go:237` has a validator of its own |
| `scn_last_snapshot` | `LastSnapshotIsDone` | `lifecycle.go:37`: done is the very last progress snapshot | finalize stops the sampler before the transition to done |
| `tail_completion` | `CompletionCloses` | `rest-api.md:118`: the stream closes when the run completes | a cancel overwrites the final status before the poll reads it, and no final status follows |

One more configuration, `lst_readers`, is `lst_session` with two readers on the socket and
the two invariants about the packets, `PacketAccounting` and `OnlyAckedHandled`, which hold.

The models show further disagreements that no property states:

- `finalize` passes OutcomeSucceeded whatever happened, where `docs/RUNBOOK.md:438` promises
  outcome=cancelled for a cancelled run (`WriteSummary` in `ScenarioRunner`);
- the Request Authenticator of a CoA or Disconnect is never validated;
- a Disconnect for a subscriber that `Run` has not reached is acknowledged and has no
  effect (`LoadDeps` in `Subscriber`), and a retransmitted request is handled twice;
- the listener is stopped after the collector, so that its last events are late drops;
- the header of `events.go` says that complete is sent once the run is over and
  `summary.json` exists; it is sent without the second, with a null summary, and may
  overtake the last progress lines (`Poll` in `ProgressTail`);
- `GET /results` answers 500 while `summary.json` is being written;
- with nobody established the histogram puts all subscribers at 0 ms
  (`extractHistogram`);
- the comments at `aggregate.go:49` and `aggregate.go:307` count subscribers created and never
  activated, of which no event tells the aggregator;
- a subscriber that failed stays in the curve's in_flight for ever, which
  `docs/GLOSSARY.md:61` defines as waiting for a reply; after a dropped activation
  in_flight can be negative (`CurveMatches` therefore excepts drops);
- a retransmit policy with max_retries 0 sends three retries (`PolicyFromConfig`);
- a late reply to a timed-out attempt is reported as unmatched, where `ARCHITECTURE.md:82`
  says duplicate (`Late` in `IOEngine`: the cancelled attempt left no completed entry);
- `Run` overwrites terminated with its next state, where `state.go:61` says that a
  terminal state is left only from established (`transition`, `terminate` in `Subscriber`);
- `Stop` closes a writer under a running `writeBatch`, which then creates the file
  anew over the rows in it (`WriteReopens` in `Collector`);
- a `Stop` whose context is done leaves accepted events out of a summary that may
  still be labelled high (`StopCtxDone`, `Trust` in `Collector`);
- with a warm-up delay, which the CLI does not set, a cancellation during it makes `Run`
  panic on the transition from warmup to drain (`WarmupEnds`, `transition` in
  `ScenarioRunner`); the deferred shutdown still runs;
- when the progress file cannot be opened, `Run` returns without stopping the engine
  it has bound, as shutdown is deferred only after construction;
- a cancel between the insert of the row and the start of the subprocess is overwritten
  by running (`SetRunning` in `RunLifecycle`);
- after a crash of the server the subprocess lives on, its row is reaped, and the next
  POST starts a second one, which is why `SingleTenant` speaks of the time before the first
  restart.

### Bounds, and why they are enough

- *Two calls and one Identifier* force every Identifier to be recycled under a live
  reader: exhaustion, back-off, stale replies and re-registration all happen.  More
  calls only repeat this pairwise interference, and the proofs of section 5 remove
  the bound for all safety properties of the engine.  `NumIDs`, `MaxRetries`,
  `MaxBackoffs` and `GCThreshold` scale down 256, the policy's retries, the allocation
  wait and 1024.
- *Two disconnects* are needed for one that takes effect and one that finds the
  subscriber terminated; a CoA commutes with another CoA.
- *One datagram of each kind* already meets a `Stop`, a cancellation and `Run` at every
  step.  The run has one reader; that what readers do adds up, for any number of them and of
  datagrams, is proved, and `lst_readers` shows it of two.  *Three subscribers of two credentials*, alice and alice+2, in two addresses: the third
  has the second's name and the first's address, and requests may name two of them.
- *Buffer 1, two events on one shard* give a full channel; *batch size 2* a batch that is
  neither full nor empty when the ticker or `Stop` comes; the second shard and the
  outcome lane make `Stop` and `Aggregate` go from lane to lane.
- *Three subscribers on two shards* put two on one shard, of which one has id 0;
  *buckets of two ticks* have offsets on and off their edges; *draws of -2 and 1 sigmas*
  lie on either side of the window, which one block cuts off at T0; durations 5 and 7
  do not divide by 3.  `MaxExtras` allows one retransmission, inbound event or drop.
- *Two connections* are all the hook makes; *two lines* let one be torn or blocked
  behind another; a *channel of one* fills.
- *Two subscribers* suffice for a launch loop that a cancellation cuts in the middle, and
  for one that has left while another has not.
- *Two POSTs* are a run and the one that must be refused or comes after it, two cancels
  the race of a cancel with another one, one restart a row left by a predecessor.
  `MaxRestarts` bounds the only unbounded counter.
- *One socket and one destination*: TLC looks at a second destination only in
  `io_key_collision`, and at a second socket not at all.  The safety of the engine for
  any number of sockets and destinations (`NoOrphanWaiter` for any number of
  sockets) is what section 5 proves.
- Whether subscribers do accounting is read once per `Run`, so `Subscriber` makes it
  a choice at that point and one run covers both configurations.

No run uses symmetry: those that could check temporal properties.  `lst_readers` does, of its
readers.

### Fairness

Safety properties need none.  The liveness properties assume weak fairness of a goroutine
that is inside a call: the Go scheduler runs every runnable goroutine, and timers fire.
In particular:

- `io_one_dest`: a sender's own steps and a `Deliver` that has begun.  The network and
  the caller owe nothing.
- `sub_session`: `Run` and `OnDisconnect`, once entered.  `Send` is taken to return,
  which is `EverySendReturns`.
- `col_two_shards`: lanes (their ticker), submitters under way and `Stop` under way.
  Nobody need call `Submit` or `Stop`.
- `scn_run`: `Main` and the sampler, and strong fairness of the sampler's last
  line.  Ticker and `stopCh` may be ready together over and over, and Go's `select` chooses
  among ready cases at random, so it does not pass over the closed channel for ever.
  The subscribers owe nothing: the drain timeout covers them.
- `lst_session`: readers, the cancel watcher, `Stop` once begun, `Run` and the handlers.  A
  read from a closed socket returns, a read from an open one need not (`Running`).
- `tail_stream` and `tail_completion`: tailers, stream handlers, the watcher of an exited CLI and the browser's
  events and timers; strong fairness of a tailer that sees its context done beside its ticker,
  for the reason given above.  The CLI, the network, the user and a cancel handler owe nothing.
- `api_runs`: the handlers and watchers, and delivery of SIGKILL.  The CLI
  need not exit by itself.

## 4. Refinement

`SendContract` has two variables: the datagrams each call has transmitted and what it
returned.  `IOEngine!Contract` instantiates it with `returned` mapped to `outcome`
once a call is done.  `ImplementsContract` is checked in `io_one_dest` and proved as
`SendImplementsContract`.

## 5. Proofs

### The I/O engine

`IOEngine_proofs` holds, for all constants satisfying

- `SizeAssumption`: at least one socket and one Identifier, and numbers where numbers
  are expected; `MaxRetries` may be negative, as in the code, which then sends once;
- `CallAssumption`: every call has a destination;
- `NoneAssumption`: `None` is neither an inflight nor an authenticator:

| Theorem | States |
|---|---|
| `TypeCorrect` | `TypeOK` |
| `Inductive` | the inductive invariant `IInv` |
| `IdentifiersOwned` | `IDOwnership` |
| `RepliesAuthentic` | `ReplyIntegrity`, for any topology |
| `PushAlwaysFits` | `PushNeverDropped` |
| `DuplicatesGenuine` | `DuplicateIsSecond` |
| `NoOrphans` | `NoOrphanWaiter`, when all calls have one destination (`OneScope`) |
| `SendImplementsContract` | `Send` refines `SendContract` |

The argument.  `ReplyIntegrity` is not inductive: a reply accepted now was looked up,
validated and claimed by another goroutine, possibly for an attempt that is over.
`IInv` follows the reply on its way.  `PendingInv` says the table holds
only unclaimed entries of attempts under way; `RxInv`, that a `Deliver` under way carries
a reply validated against the inflight it looked up, which was registered under its key
or belongs to an earlier attempt; `ClaimedInv`, that a claimed inflight is never
registered again; `SendInv`, that no two readers push to one channel; `ChanInv`, that a
filled channel of the current attempt holds the answer to the current request.
`DoneInv` does the same for `recentDone`, and `TxInv` ties transmissions to the stage of a call.
`IDOwnership` is inductive with the type invariant; its cardinality part rests on
`FiniteSetTheorems`.

`NoOrphanWaiter` is false in general (`io_key_collision`).  With one destination the
matcher's key is as fine as the allocator's tuple, `IDOwnership` makes the key exclusive
(`KeyExclusive`), and `NoOrphanInv` strengthens the property to hold from `Register` on.

### The other modules

Each has a `_proofs` module of the same shape: named parts of an inductive invariant
`IInv`, one lemma per part with one step per action, `Invariance` (`Spec => []IInv`), and the
theorems, which follow from it.  Every `IInv` was checked by TLC on the instance of its
run, or a larger one, before it was proved.

| Module | Theorem | States |
|---|---|---|
| `Subscriber_proofs` | `TypeCorrect` | `TypeOK` |
| | `Coherence` | `RowsCoherent` |
| | `SummaryAgrees` | `SummaryMatchesRow` |
| | `QuietRowsAccount` | `QuietAccounting` |
| `Listener_proofs` | `DrivesSubscriber` | the composition implements `Subscriber` (`LSpec => Spec`) |
| | `SubscriberBehindListener` | the subscriber's row properties, behind the listener |
| | `LTypeCorrect` | `LTypeOK` |
| | `PacketsAccount` | `PacketAccounting` |
| | `AckPrecedesHandler` | `OnlyAckedHandled` |
| | `RequestsAnsweredRight` | `HandlerContract` |
| `Collector_proofs` | `TypeCorrect` | `TypeOK`, with the bounds of channels and batches |
| | `Completeness` | `DrainedComplete` |
| | `HighIsHigh` | `HighMeansNoFullDrop` |
| | `NothingAfterStop` | `NothingPersistedAfterStop` |
| `Aggregate_proofs` | `SchedulesAreSound` | `ScheduleSound` |
| | `ShardsAreInvisible` | `ShardingInvisible` |
| | `TotalsAddUp` | `TotalsMatch` |
| | `CurveCounts` | `CurveMatches` |
| | `PercentilesAreNearestRanks` | `LatencyIsNearestRank` |
| | `HistogramIsSound` | `HistogramSound` |
| `ScenarioRunner_proofs` | `TypeCorrect` | `TypeOK` |
| | `LastLine` | `FinalLineExact` |
| | `SummaryComplete` | `DrainedSummaryComplete` |
| | `NothingRunsOn` | `StartedIsStopped` |
| `RunLifecycle_proofs` | `TypeCorrect` | `TypeOK` |
| | `SingleTenancy` | `SingleTenant` |
| | `FinalStatus` | `FinalStatusJustified` |
| | `NoGhost` | `NoGhostRow` |
| | `ShutdownIsClean` | `CleanShutdown` |
| `ProgressTail_proofs` | `TypeCorrect` | `TypeOK` |
| | `LinesArriveWhole` | `StreamFaithful` |
| | `SummaryIsCarried` | `CompleteHasSummary` |

- *Subscriber* (any number of disconnects and CoAs; assumed: no handler is called
  "run").  Rows are built and submitted outside the mutex, so coherence of the rows says
  nothing about the one in a goroutine's hands.  `RunInv` ties what `Run` has
  stamped and emitted to where it is; `HandlerInv` says that a handler past its critical section
  has stamped the disconnect, and what row it holds; `RowInv`, that `Run`'s row is its last step.
  For `QuietAccounting`, `WhoInv` says whose each row is and that nobody has two,
  `CountInv` that a disconnect the collector saw has its row or a handler about to submit it,
  `StateInv` who is responsible for a terminated subscriber.
- *Listener* (any number of readers and datagrams, any pool of names and any secrets; assumed:
  `Creds` is a sequence of names, the number of subscribers and of addresses is a number, the latter
  not 0, the subscriber is one of the pool, nobody else has the secret,
  and `None` is not a reply).  The composition implements `Subscriber`, so what is proved of a subscriber alone
  carries over.  `ReaderInv` and `ReplyInv` say what a reader holds at each of its steps;
  `PacketsAdd`, `RepliesAdd`, `KindsAdd` and `EventsAdd`, the parts of `PacketAccounting`, are inductive
  with these and with the finiteness of what they count.  `HandlerContract` is about one datagram at a time: the
  codec lemmas say that `Encode` seals (`EncodeSeals`), that exactly a sealed and unpadded packet validates
  (`SealChecks`, `PaddingBreaksSeal`), that the lookup finds who is named (`LookupRight`) and that a reply
  is bound to its request (`ReplyBound`); `VariantsHandled` goes through the shapes of `Inputs`.
- *Collector* (any number of shards, calls, slots and rows per batch, each at least one;
  each event has a shard).  `PlaceInv` follows an accepted item from its channel to its batch to the
  file, up to the moment `Stop` gives up; `LaneInv` says that a lane which exited is empty and
  stays so, since its channel is closed; `StopInv` gives the order of `Stop`'s stages;
  `MergeInv`, what `Aggregate` has read; `RaceInv`, that a drop still to be counted after
  `Stop` began is one that was racing with it.
- *Aggregate* (any number of subscribers, shards and ticks, any bucket width, any blocks and
  draws of whole numbers: `AggregateAssumption`, `ScheduleAssumption`).  `HistoryAt` orders a subscriber's
  history; `SingleAt` and `Exact` relate the history to the one aggregation `single` that observed
  everything, with drops and without.  `Splits` relates `single` to the shards: what `single` knows of a subscriber
  is known to the subscriber's shard and to no other, counters add up, and so do, for every v, the
  numbers of latencies up to v, which says that the samples are the same up to their order without naming
  a permutation.  The summary is then a function of what `Splits` preserves (`SplitsSame`), which is
  `ShardingInvisible`, and the other properties need only be shown of `single`'s summary (`SummaryIs`):
  `SortedRank` says that the element of rank r in a sorted slice is the least that r
  samples do not exceed, `CumulativeIs` that a running sum over buckets counts what lies before
  its edge, `BucketsHold` that no offset falls off the curve.
- *ScenarioRunner* (any number of subscribers).  `CountInv` equates the counters with the
  cardinality of the subscribers that were counted; `SubInv` says that after a drain all those are done;
  `LineInv`, that without a cancellation the last line is begun after `Stop`, when
  nothing moves any more; `RowInv`, that whoever returned before the collector stopped left a row
  or a drop.
- *RunLifecycle* (any number of POSTs, cancels and restarts; assumed: `None` is neither a run
  nor a status).  `PcInv` relates handler, subprocess and watcher; `LiveInv`
  extends single tenancy to a run whose subprocess is yet to be spawned, which is what makes
  it inductive; `FinalInv` justifies a watcher's decision from `Get` to `UpdateStatus`;
  `GhostInv` and `ShutdownInv` say who attends to a row and to a subprocess.
- *ProgressTail* (any number of connections and lines, any channel size).  `HoldInv` says that a tailer's
  place in the file and its buffer agree, in the middle of a line too; `LineInv`, that the lines sent, those in the
  channel and what the tailer holds follow each other without a gap; `PosInv`, that no tailer
  reads past the end; `ConnInv`, that a connection not yet made has carried nothing.

### Induction over data

The library's induction theorems take an operator as a parameter, which the provers cannot
instantiate.  Where a proof needs induction, it is over the set of the numbers that have the
property: `LeastNatural` gives a nonempty set of naturals its least element, from the
well-founded order of finite sets, and `Induction` follows.  With it `Aggregate_proofs` shows that a
sort exists, that recursive sums satisfy their recursion (`SumsExist`, `SumsAt`), and what
flattening a sequence of sequences counts (`FlattenCounts`).

### Only model-checked

The liveness properties: fairness and ENABLED are outside the prover's reach.  These are
`EverySendReturns`, `EveryoneReports`, `EverythingReleased`, `AckedIsHandled`,
`EventuallyPersisted`, `RunEnds`, `CancelTakesEffect`, `StreamReleased`, `EndIsSeen` and
`StreamCatchesUp`.

## 6. Not modelled

- Byte formats: RADIUS encoding, MD5, Parquet, JSON, TOML.  `Radius` keeps what is covered
  by which hash and secret, and no layout; hiding of passwords is left out.
- Durations: a timeout may fire at any moment at which it is armed.  Only `Aggregate` has
  a clock, since the summary is about times.
- Contents and order of log lines and events, except the events that reach the
  aggregator and those that classify a reply.
- Errors of SQLite, and of closing files; file rotation.
- `TailLines`' reopening of a file that shrank, and lines longer than its buffer: the CLI
  opens the file once, in a directory made for the run, and its lines are short.
- The thresholds of a summary, which no configuration sets; artifact listing and
  download; mock data.
- Configuration: parsing and per-field checks, sequential and without state.  CLI flags and
  exit codes.  The web UI but for the hook on the event stream.

## 7. Plan

Done: the engine with its contract, the subscriber, the listener composed with it,
the collector, schedule and aggregation, the runner, the API run manager, the progress
stream; proofs of all their safety properties.  Left, in this order:

1. A lemma, for every state, that a listener which has stopped holds no packet and no socket,
   as the safety half of `EverythingReleased`; the same for `StreamReleased`.
2. A composition of `ScenarioRunner`, `Subscriber` and `Collector` abstractions: the
   summary against the rows, under cancellation.
3. The back-off computation of the retransmit policy with its integer width.

## 8. Running it

    tlc -config io_one_dest.cfg MCIOEngine
    tlapm IOEngine_proofs.tla
    tlapm RunLifecycle_proofs.tla

The other runs likewise; `runs` in `PROJECT.json` names the module of each
configuration.
