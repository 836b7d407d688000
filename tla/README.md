# autotel-go in TLA+

Specifications, model-checking configurations and proofs for autotel-go: the
event queue, the load-shedding guards, the pipeline lifecycle and its
configuration, sampling, the messaging and webhook trackers, workflows, and
what serves one request. Paths are relative to the repository; `PROJECT.json`
maps each definition to the lines it translates.

## The system

autotel-go wraps the OpenTelemetry Go SDK. An application calls `Init` once (or
again), gets spans, metrics and logs exported, sends business events with
`Track`, and calls `Shutdown` or the cleanup function `Init` returned.
Around that core the repository has packages an application uses one by one.

| Component | State | Operations | What makes it correct |
|---|---|---|---|
| Event queue (`subscribers/queue.go`) | a bounded channel, a closed flag, back-off maps keyed by subscriber type | `Track`, the worker's `deliver` and `resetIfNeeded`, `Shutdown` | accepted events reach each subscriber once and in order; shutdown drains; nothing is sent to a closed subscriber |
| Load shedding (`ratelimit`, `circuitbreaker`, `guardSampler` and `monitoredExporter` in `autotel.go`) | the bucket; the breaker's state, counts and stamp | `Allow` on both, `RecordSuccess`, `RecordFailure`, `ExportSpans` | transitions are earned by exports; the breaker recovers; the bucket neither over- nor underfills |
| Pipeline lifecycle (`autotel.go`, `lifecycle.go`, `logs.go`) | the providers, the log file and the queue of each `Init`; the globals `current`, `globalTracker`, `logFileSink`, `logsStayLocal` | `Init`, `Flush`, `Shutdown`, cleanup functions | nothing leaks; no global points at what is stopped; a stale cleanup does not disturb a newer pipeline |
| Configuration (`options.go`, `config_merge.go`, `env.go`, `yaml_loader.go`, `devtools.go`, `backends`) | a `Config` under construction, and which fields were chosen | options, merging, presets, endpoints, resource | the highest source that says something wins; TLS is kept |
| Sampling (`sampling`, `processors`, `selectSampler` and `buildSpanProcessors` in `autotel.go`) | the traces a failed or slow span was kept of | `ShouldSample`, `KeepSpan`, the processors' `OnEnd` | failures are kept and bring the spans that end after them; routine traces stay whole |
| Target-rate sampler (`sampling/targetrate.go`) | counts and rates per key and window | `ShouldSample` | the budget is met; rates stay bounded |
| Log sinks and rolling files (`logs.go`, `internal/rotatefile`) | the flag, the current file, a directory of files that writers share | `Handle`, `Write`, rolling and pruning, `Close` | the file being written stays; a record reaches a sink |
| Workflow saga (`workflow/workflow.go`) | state, completed steps | `Step`, `Run`, `CompensateAll` | rollbacks are complete, in reverse, and only of what succeeded |
| Messages (`messaging/producer.go`, `consumer.go`, `batch.go`, `dlq.go`) | bounded retry counts; headers that carry the trace | `Publish`, `Process`, `ProcessBatch`, `ProcessEach`, the error handler | a message that keeps failing is given up, and its dead letter leads back to its publisher |
| Message ordering (`messaging/ordering.go`) | the map and order of seen IDs, a sequence number per partition, counts | `CheckAndTrack`, `Stats`, `Reset` | the window is exact; gaps are counted once |
| Consumer group (`messaging/consumer_group.go`) | assignment, generation, state | `RecordRebalance`, `RecordHeartbeat` | a span names the state its own call left |
| Parking lot (`webhook/parking_lot.go`) | parked contexts with a TTL | `Park`, `Retrieve`, the cleanup goroutine | a context that was removed is never found again |
| SLO tracker (`slo/slo.go`) | observations in a rolling window | `Record`, `Snapshot`, `Forecast`, `Reset` | counts equal the window's content |
| HTTP middleware and client, correlation IDs (`middleware`, `correlationid`) | what a request carries | `HTTPMiddleware`, `RoundTrip`, `SetCorrelationID` | each attempt is a parent of its own, also when handlers outlive their callers; spans end with their calls |
| Baggage (`baggage`, `processors/baggage.go`) | baggage of a context; values seen | `Set`, `SetMultiple`, `OnStart` | limits on size and values hold; nothing sensitive goes raw |
| Request logger (`request_logger.go`) | fields, sealed flag | `Set`, `Error`, the levels, `EmitNow` | one record, complete, and what the span shows |
| Traced calls (`tracer.go`, `functional.go`, `database`, `genai`) | the spans and transactions on the stack | `Trace`, `TraceFunc`, `WithTransaction` | spans and transactions end however the function leaves, and say how |
| Redaction, gRPC and router adapters, subscribers' output, mcp, logging, analysis | none of their own | | see "Not modelled" |

They meet in few places. `Init` settles the configuration, builds the providers
with `guardSampler` in front and `monitoredExporter` behind, and a queue per
`Init` that the global `Track` reaches through `globalTracker`. `Shutdown`
stops the providers and the queue in parallel and waits for them. A consumer's
`OnError` is the dead-letter handler. What is hard is concurrency: callers of
`Track`, `Shutdown`, `CompensateAll`, the samplers and the trackers run in any
goroutine, and several checks are made under a lock and acted on outside it.
Time matters in the breaker, the back-off, the windows and the expiries.
Nothing is persisted: there are no crashes to recover from.

## Modules

| Module | Models | Extends / instantiates |
|---|---|---|
| `EventDelivery` | what the queue promises, abstractly | |
| `EventQueue` | the queue as it is | `EventDelivery`, through a refinement mapping |
| `ExportGuard` | bucket, breaker, sampler and exporter composed | |
| `Lifecycle` | `Init`, shutdown and cleanup over the globals | |
| `ConfigOptions` | the values, the options and the vendor presets | |
| `Configuration` | the layers and their merge, up to endpoints and resource | `ConfigOptions` |
| `ConfigScenarios` | what the sources say in the runs | `ConfigOptions` |
| `TailSampling` | head sampler, filter, hand-set marks, tail policy and its Keeper | |
| `TargetRate` | the target-rate sampler | |
| `LogSinks` | handlers, installed sinks and rolling writers composed | |
| `Workflow` | `Run`, retries, rollback, `CompensateAll` | |
| `DeadLetters` | the bounded counting error handler | |
| `MessageFlow` | producer, broker, consumers, batches, dead letter queue | `DeadLetters` |
| `MessageOrdering`, `ConsumerGroup`, `ParkingLot`, `SLOTracker` | the trackers they are named after | |
| `HTTPRequests` | services calling one another | |
| `BaggageLimits`, `RequestLogger`, `TracedCalls` | what they are named after | |
| `TrackerProofs`, `RequestProofs` | theorems about the components of `MCTrackers` and `MCRequests` | those components' modules |
| the other `...Proofs` | theorems | the module they are named after |
| `MCEventQueue`, `MCExportGuard`, `MCWorkflow`, `MCLifecycle`, `MCTailSampling`, `MCMessageFlow`, `MCMessageOrdering` | the instances TLC checks | the module they are named after |
| `MCTrackers` | six components that share nothing, side by side | `MessageOrdering`, `ConsumerGroup`, `TargetRate`, `LogSinks`, `ParkingLot`, `SLOTracker` |
| `MCRequests` | five more | `HTTPRequests`, `RequestLogger`, `TracedCalls`, `BaggageLimits`, `Configuration`, `ConfigScenarios` |

Definitions named `Faulty...` are plausible bugs (a dropped guard, an
off-by-one, a missing reset). No action uses one. Each stands beside the
definition it would replace, and `PROJECT.json` pairs it with the property that
fails when it does.

`MCTrackers` and `MCRequests` choose a component in the initial state and leave
the variables of the others as they begin, so their states are the sum of the
components' and not the product: an independent run for each, in one.

### EventQueue

`buf` is the channel, `closed` the flag and `chanClosed` the channel's own
state, which differ between `Shutdown`'s unlock and its `close`. The worker goes
from `select` to `check` and `send` for each subscriber in `turn`; a send may
take time, during which anyone may track, tick or shut down. `Track` takes no
lock and looks at no flag: it accepts, drops, or panics on a closed channel, as
Go does. `accepted` and `handled` are histories. Time is a clock, since
`nextAllowed` is an instant; every other behaviour keeps its order only.
`errs` reaching the threshold changes only a log line, so the threshold is not
a constant of the model. The back-off maps are keyed by the subscriber's Go type, as in
the code, so `TypeOf` is a constant.

### ExportGuard

One action is one lock region. `Allow` is four: the locked read, the comparison
with the time at which it is made, and the two unlocked writes of `setState`.
`RecordSuccess` and `RecordFailure` are one action each, together with the end
of the export that leads to them. The bucket counts in units of which `Token`
make a token, so a rate need not be whole; the code's rounding of floating
point numbers is not modelled. Elapsed times saturate just past the
timeout and counts at the thresholds: no comparison tells further values
apart. `fuel`, `goodStreak`, `badSinceClosed` and `openAge` are histories that
no guard reads.

A data race may in principle show any value to the racing reader. The model
takes the two writes one at a time, which is what an aligned word gives; the
stamp's two or three words are taken as one.

### Lifecycle

`parts[p]` is what the p-th `Init` builds, `running` what has been built and not
stopped. `initAt` walks through `initWithConfig`: the four steps that can fail,
with the unwinding of each, then the steps that install. `stage[p]` is where
the one execution of p's `close` is, and the providers and the queue stop in any
order while it waits. `installLogSinks` and the end of `close` are several steps, as
they are several atomic operations. A log file that is replaced is closed in
the step that replaces it; `close` of a file is idempotent.

### ConfigOptions, Configuration, ConfigScenarios

A configuration is a record with the fields that decide where telemetry goes
and who sends it; `Default` and `Unset` are values beside what a source says,
since the code tells "the default" from "nothing" in some places and not in
others. A behaviour applies the options one by one to a default or a
hand-built `Config`, merges environment and file under them, lets the preset
and devtools fill what is left, and resolves endpoints, headers and identity.
Each of these is one action, in the order of
`resolveAndMergeConfig` and `initWithConfig`, and what it makes of the configuration
below it is an operator named for the function (`EnvLayer`, `YAMLLayer`,
`ExplicitLayer`, `BackendPreset`, `Devtools`, `BuildInfo`), so that what `Init` ends with
can be reasoned about as a function of the sources. An endpoint is its scheme, host and path, so that what
`sanitizeEndpoint` and `withScheme` strip and add is what the properties see.
`HighestSourceWins` compares the outcome with a reference written from the
sources alone: which of them says something, and which is highest. Of headers it
looks at those sent with each signal (`SignalHeaders`). Three exceptions are
in the reference because they are the code's: a preset replaces a bare
`localhost:4318` that somebody named, devtools brings http along with its
endpoint, and a signal's own header variable is laid over the general headers,
the program's too. What the documents say of the last two are properties
of their own, which fail (`MCRequestsClaims.cfg`). `HighestSourceWins` holds of
sources that leave no doubt (`Unmistakable`), as all those of `ConfigScenarios` do.
`ConfigScenarios` enumerates one group of settings at a time (identity,
versions, endpoints, headers, sampler, protocol, debug), with every
combination of sources within the group.

### TailSampling

A span's life is `Start` (the head's decision), `End` (how it turned out, and
its end time) and one decision per exporter, since each exporter has a chain of
its own and all chains share the one Keeper. A decision is one action: each
path through `KeepSpan` takes the Keeper's lock once. `outcome` folds the
attributes set by hand and the filter's verdict together with the status and the
duration, because an explicit mark settles a span whatever its status.
Spans are marked by hand only in the configurations with `handMarks`. `Scale`
is 256 in the code: a rate acts as `uint8(rate*256)`, and rates that are not
multiples of it are left out. `MarkKept` may evict any half of the live
traces, as ranging over a Go map does. The rate limiter and the breaker, which
come before the head sampler, are in `ExportGuard`.

Children may start after their parent has ended and end after it. Only the
spans in `Linkable` may carry a link, which is a bound of the instance.

### TargetRate and SLOTracker

Both compute with fractions the code has in floating point; the models compare
them by cross-multiplication, so they say nothing of rounding. `TargetRate`
counts the root spans of each key in `counts` and keeps a rate as kept of how
many; `closed` is a history of the window the rates were made from.
`SLOTracker` has the code's slice with `firstLive` and the live counts beside
`recent`, a history: the observations of the last `Window` ticks in order, with
their ages. An answer is recorded in `answer`, so `WindowIsExact` compares what a
caller was told with the history: the snapshot's counts, and a forecast's of
its baseline and of what the window will still hold.
`CompactAbove` is 1024 in the code.

### LogSinks

A record's way through `Handle` is one read of an atomic at a time; an `Init`
opens its file, then installs its flag and its sink; a `close` takes them away in
the order `lifecycle.go` does. The writers of successive `Init` calls share a
directory and a prefix, and each rolls and prunes under a mutex of its own. So a
roll is the steps its goroutine makes: reading the clock, opening the file, listing the
directory, and removing one file after another, each of which may fail; and
anything another writer or the clock does may come between two of them. A file
is the period it was opened in. `directory` may begin with files of periods
to come, left before the clock was set back; `setBack` is the history of that.
`Init` calls do not overlap, here as in `Lifecycle`, and each has a file.

What a prune spares is its own writer's file. `LiveFileStays` says what that
comes to: a writer's file stays while no other `Init` has opened one; when several
have, the file of a writer of the newest period stays, unless the clock was set
back. It does not come to more: `MCTrackersVanish.cfg` shows the installed file removed
by another `Init`'s prune, in the period it was opened in.

### Workflow

A call that finds the workflow already started returns; one that does not runs
the steps. Results are recorded in order, also the failed one, and a rollback
works on a copy, from its end. `Overlap` says whether two `CompensateAll` calls
may be under way together: `CompensateAll` tests the state and sets it in two
lock regions. `CompensateAll` is called once `Run` is over. The context given to
`Run` may be cancelled at any moment; `compensate` runs detached from it.

### DeadLetters and MessageFlow

`CountFailure` is the part of the error handler under its mutex: the eviction of
the message that entered first, the count, and the removal from map and order
when the message is given up. `since` is a history, the failures since each
message was last given up or forgotten. The broker delivers a message to any
worker until it is acknowledged, so the same message may fail in two
goroutines at once; what is given up may be replayed. A span is the trace it
continues, its links and whether it has an error. Batches report no failure
to `OnError`, as in the code.

### MessageOrdering, ConsumerGroup, ParkingLot

An ordering call holds the mutex from end to end, so it is one action; ages
replace times. `accepted` is a history,
the window as the configuration describes it, to compare with what the map and
the order list implement. `renewed` is the set of IDs accepted anew after they
expired, which stand in the order list twice.

A consumer group's recorder updates the state under the mutex, puts it on its
span, and calls back, in three steps between which others may record.
`own` is a history.

A parked context is the number of the `Park` that stored it. A retrieval loads
and deletes in two steps, the store's calls may fail, and the cleanup goroutine
may run between them. `taken` and `fate` are histories of what became of each
context.

### HTTPRequests, BaggageLimits, RequestLogger, TracedCalls

`HTTPRequests` is a chain of services, each behind the middleware, calling the
next through the traced transport. A call (`trips`) and the requests served for it
(`handlers`) are independent: `RoundTrip` sends headers and waits (`RoundTrip`); the request
may arrive at any time, twice (the transport or a proxy sent it again), or never
(`Arrives`); the handler sends its response headers at some point (`SendsHeaders`) and returns
or panics at some later one (`Finish`); and `RoundTrip` returns with the headers of a response
(`Answered`) or with an error, by the client's timeout, a cancelled context or a lost
connection (`GivesUp`), wherever the request then is. So a retry overlaps the handler of the
attempt before it, a handler is served after its caller gave up or returned, and one that
has answered 200 may still panic. A handler may call again at any time, also from
several goroutines, on the same request object; the clone with its injected headers is what
`OutboundContext` models. A service may read no headers, and a handler may keep the
correlation ID out of its baggage, as the options allow. A call's `callerID`
is a history: the ID its caller resolved when it called.

With handlers that outlive their callers, a failure need not be seen by both sides:
`SpansEndWithTheirCalls` says that every span is open just while its own side is
under way, and that a call looks well only if a handler it reached answered
below 400.

`BaggageLimits` has a context for each request and one `SafeBaggage` for all.
A value is what was written, the form it is sent in (raw, hashed, redacted) and
its size; which values a constraint admits is fixed in the model.

`RequestLogger` and `TracedCalls` are about order: goroutines against `EmitNow`
and the end of the span, and functions that return, panic or call `Goexit` at
any depth while their context ends. `Error` is several steps: the merge under the
lock, then, without it, the exception event and the attributes of a `StructuredError`,
one by one, whatever has been sealed meanwhile. `erred` is the history of such
attributes that no field has replaced since: the span shows the record's values but
for those, also where an attribute and a field have the same name.

A transaction's function is handed the `*sql.Tx` and may settle it itself
(`SettlesItself`, `byFn`); `WithTransaction`'s own `Commit` then reports `sql.ErrTxDone`, which
it takes for a rollback. A transaction whose commit the driver fails is `in doubt`, since
the server may have either outcome. `OutcomesTold` therefore says "commit" just of what
`WithTransaction` committed, and `MCRequestsClaims.cfg` shows "rollback" said of a
transaction that its function committed.

## Runs

Distinct states in parentheses.

| Run | Instance | Shows |
|---|---|---|
| `event_queue` (216 168) | 2 subscribers of different types, 2 goroutines shutting down, 3 events, a channel of 2, back-off 1 to 3, 3 instants | `ExactlyOnceInOrder`, `OrderlyShutdown` (drains, closes once, sends to nobody closed), `BackoffFollowsFailures`, `ShutdownReturns`, and that the queue implements `EventDelivery` with its progress |
| `event_queue_shared` | two subscribers of one type | violated: `SkippedOnlyAfterOwnFailure` |
| `export_guard` (658 574) | 2 tracing goroutines, 2 exporters, thresholds 2 and 2, a burst of one token that takes two ticks to refill | `CountersMatchState`, `LazyRefillExact`, `EarnsItsTransitions`, `BreakerRecovers` |
| `export_guard_race` | the same | violated: `OpenWaitsTimeout` |
| `workflow` (77 780) | 3 steps, 2 attempts, 2 callers of `Run`, 2 of `CompensateAll`, every mode and every set of compensations | `ReverseOrder`, `RollbackExact`, `Lifecycle`, `FailureIsRolledBack` |
| `workflow_race` | `Overlap` allowed | violated: `NeverForward` |
| `lifecycle` (335 813) | 2 `Init` calls with every choice of parts and every failure, 2 goroutines shutting down | `NothingLeaks`, `GlobalsAreLive`, `LatestKeepsItsSinks`, `ShutdownReturns` |
| `tail_sampling` (3 245 228) | a trace of root and child and 2 of one span, a Keeper of 2 traces, a TTL of one tick, two instants, 7 configurations | `FailuresAreKept`, `FailureBringsTheRest`, `WholeTraces`, `KeptForAReason` |
| `message_flow` (1 336 380) | 2 messages, 2 workers, 2 retries, a map of 1 or 2 entries, batches of up to 2, links or parents | `CountsAreExact`, `DeadLettersAreTraceable`, `BatchAttemptsAll`, `PoisonReachesDeadQueue` |
| `trackers` (3 541 482) | ordering: 3 IDs, a window of 2, 2 partitions, sequence numbers to 2; group: 2 partitions, 2 recorders; SLO: a window of 3 ticks, 4 observations, compaction above 1; rate: 3 keys, a limit of 2, windows of 2 ticks; logs: 2 writers and 2 files kept, 2 loggers, 4 periods, a directory that begins empty, with an old file or with two of periods to come; parking: 2 keys, 2 parks, 2 callers, a TTL of 0 (none) or 1 | `WindowExact`, `GapsAccounted`, `SpanNamesOwnState`, `WindowIsExact`, `RatesHold`, `LiveFileStays`, `RetrievedOnce` |
| `requests` (2 923 229) | HTTP: 3 services, 2 calls, 3 requests served, 5 spans, and either answers of 200, 404 and 500 or correlation IDs; 2 requests and 3 fields; 2 goroutines, a field and an error's attribute of one name and another attribute, 3 events; 3 nested calls; every scenario of `ConfigScenarios` | `AttemptsAreDistinct`, `SpansEndWithTheirCalls`, `CorrelationJoins`, `GuardrailsHold`, `OneRecord`, `CallsAreTold`, `HighestSourceWins`, `TLSIsKept` |
| `configuration_version` | the same | violated: `ChosenVersionStands` |

Beside these, eight configurations can be run by hand and show what is described
below or a detail of a component: `MCMessageOrdering.cfg` (43 909 states; the ordering
tracker alone, with sequence numbers to 3 and `SequenceMovesOn`),
`MCMessageOrderingStale.cfg`, `MCLifecycleLogs.cfg`, `MCTailSamplingLinks.cfg`,
`MCTrackersLost.cfg`, `MCTrackersVanish.cfg`, `MCTrackersKeys.cfg` and
`MCRequestsClaims.cfg`.

### Why the bounds are enough

- Event queue: three events fill a channel of two and drop one; three back-off
  steps reach the maximum; two shutdown callers are enough to race, since the
  third does what the second does.
- Export guard: two goroutines give a late probe beside a live one, two
  exporters give an old export beside a new one, and thresholds of two tell
  "the first" from "enough". Ages and counts saturate, so there is no bound on
  time or on exports.
- Workflow: with three steps, order, skipping and a failure after two
  successes all occur; two attempts give one retry. The proofs remove the bound.
- Lifecycle: stale cleanups and replaced sinks need two pipelines; a third
  relates to the second as the second does to the first. The proofs remove
  the bound.
- Sampling: the two spans of one trace end in either order; two other traces
  fill the Keeper and make it evict; rates of none, half and all tell every
  comparison apart. Errors are tried with two exporters, the other
  configurations with one. With a Keeper of two, `FailureBringsTheRest` speaks of
  the trace marked last.
- Messages: a map of one entry evicts on every new message, a map of two
  holds both; two workers have the same message in hand at once.
- Trackers: three IDs overfill a window of two; a gap needs sequence numbers to
  two; four observations with compaction above one both prune and compact with
  some left; three keys against a limit of two drop one; two callers and two
  parks give a park between another's load and delete.
- Log sinks: two writers over four periods overfill a directory of two, and one
  rolls while the other lists and removes. Writers, and loggers, are symmetric.
  The proofs remove the bounds.
- HTTP: two calls are a retry beside the attempt before it, or a chain of three
  services with a middle one that is called and calls; three requests served are
  a delivery too many; five spans give each of these its own. Where IDs
  are set nothing ends: an ID travels with a request and never back, and a
  handler or a call that has not ended may do all that one that ends does. The
  proofs remove the bounds.
- Requests: two goroutines give an error under way beside the seal; three events
  are a log line, its exception and a record; three nested calls put one in the
  middle. The configuration enumerates every value it tells apart.

### Fairness

Weak fairness stands for Go's scheduler (a goroutine that can run does) and for
calls that return: a subscriber's `Send`, a step's handler, a compensation, an
export. `Lifecycle` assumes it of the queue's shutdown only within
`ShutdownReturns`: it waits for the subscribers with no deadline. `ExportGuard` assumes a service under
traffic: goroutines keep starting traces, time passes, and the configured
sampler keeps a trace now and then, the one strong fairness, without which a breaker
would have no exports to learn from. `MessageFlow` assumes that an `OnError` callback
under way goes on; `PoisonReachesDeadQueue` itself supposes that the broker redelivers
the message and that it fails again and again. Nobody is ever obliged to call `Track`, `Init`,
`Run`, `Shutdown` or `CompensateAll`, or to cancel a context. `MCTrackers` and
`MCRequests` state no fairness: their properties are safety.

`CHECK_DEADLOCK FALSE` is set where every call has been made and returned, or a
bound of the instance is reached, at the end of a behaviour: all runs but `event_queue`
and `export_guard`. `EventQueue` says the
same with an action `Finished`, so that a deadlock before the end is found.

## What disagrees with the documentation

Shown by a run:

1. `circuitbreaker/breaker.go:46`: `Allow` half-opens the breaker outside the
   lock. A goroutine that read an expired open state may do so after the breaker
   closed and opened again (`export_guard_race`). It is misplaced, not
   broken: `EarnsItsTransitions` and `BreakerRecovers` still hold.
2. `subscribers/queue.go:170`: two subscribers of one type share the back-off
   that `options.go:382` calls per-subscriber (`event_queue_shared`).
3. `workflow/workflow.go:655`: two `CompensateAll` calls may both roll back
   (`workflow_race`).
4. `env.go:182`: a version chosen with an option that names the default is
   replaced by build info, though `CHANGELOG.md:55` says it wins
   (`configuration_version`).

Shown by a configuration kept beside the runs:

5. `lifecycle.go:155`: a replaced pipeline may still set `logsStayLocal`, though
   line 154 says it "no longer decides where logs go" (`MCLifecycleLogs.cfg`,
   `LatestDecidesLogs`).
6. `sampling/endpolicy.go:113`: with a tail policy, the children of a span kept
   for its link are decided by the baseline, so the trace has the "holes" that lines
   79-80 rule out (`MCTailSamplingLinks.cfg`, `LinkedTracesWhole`).
7. `messaging/ordering.go:236`: an ID that expired and came back is forgotten
   before the window of line 44 is over (`MCMessageOrderingStale.cfg`, `RemembersTheWindow`).
8. `webhook/parking_lot.go:393`: a context parked between a retrieval's load
   and its delete is removed unseen (`MCTrackersLost.cfg`, `NothingLost`).
9. `logs.go:163`: a record may reach no sink when the flag and the file change
   between `Handle`'s reads, though it says that records print "instead of
   vanishing" (`MCTrackersVanish.cfg`, `NothingVanishes`).
10. `sampling/targetrate.go`: `WithMaxSamplingKeys` bounds the keys that are
    tracked only where a window ends; within one they grow with the traffic
    (`MCTrackersKeys.cfg`, `TrackedKeysBounded`).
11. `internal/rotatefile/rotatefile.go:149`: "The live file always stays" (line 128),
    but a prune spares its own writer's file and no other's: another `Init` on the
    same directory may remove the file the process logs to, in the period it was
    opened in, where a later file is left by a clock since set back
    (`MCTrackersVanish.cfg`, `InstalledFileStays`).
12. `database/database.go:183`: "recording the result in db.transaction.outcome"
    (lines 132-134), but a function that commits its `*sql.Tx` and returns nil is
    recorded as a rollback (`MCRequestsClaims.cfg`, `OutcomeIsTheResult`).
13. `autotel.go:830`: a signal's header variable beats `WithHeaders`, though
    `docs/configuration.md:3` says that code beats the environment
    (`MCRequestsClaims.cfg`, `CodeBeatsTheEnvironment`).
14. `devtools.go:16`: a devtools endpoint turns an explicit `WithProtocol(grpc)` into
    HTTP, though `options.go:66-67` says that devtools changes only defaults
    (`MCRequestsClaims.cfg`, `DevtoolsChangesDefaults`).

Read in the code and not run:

- `Init` and shutdown: an `Init` without subscribers keeps the earlier queue
  (`autotel.go:506`, against `autotel.go:533`); the event queue's shutdown is not
  bound by `ShutdownTimeout` (`lifecycle.go:148`, against `lifecycle.go:37`); a
  failed `Init` has already changed debug mode (`autotel.go:121`, against
  `autotel.go:153`); `WithEventRetry`'s settings are never used.
- Configuration: a signal's headers are copied with their case, and `WithHeaders` given
  twice in different case keeps both, while `mergeHeaders` ignores case; a version
  or environment from the file beats explicit resource attributes; a bad
  `OTEL_EXPORTER_OTLP_PROTOCOL` fails `Init` although a preset would outrank it;
  Honeycomb with a sample rate of 1 does not count as a choice, so
  `OTEL_TRACES_SAMPLER` wins; `WithEndpoint("localhost:4318")` names the default
  and is replaced by a preset, and so is `grpc://localhost:4318` from the file or the
  environment, but not from an option; a bare endpoint for one signal gets a path though the comment says
  it is taken verbatim. `Unmistakable` names what else the merge does not tell apart: an
  option that chooses the empty value (`WithSampler(nil)`, `WithProtocol("")`,
  `WithEnvironment("")`) says nothing and yet outranks the environment's sampler and
  protocol and the resource attribute; a default name or environment spelled out in the
  file or in `OTEL_SERVICE_NAME` gives way to a resource attribute or to the build info;
  an empty `service.name` or `deployment.environment`
  attribute is taken; with the Datadog preset, `x-datadog-origin` written in another case
  is sent twice.
- Sampling: the Keeper evicts any half, not the oldest
  (`sampling/endpolicy.go:151`, against line 140); with a links rate below the
  baseline the tail drops linked spans the head would keep
  (`sampling/endpolicy.go:114`).
- Workflow: `CompensateAll` compensates in the mode `CompensateNever`, which
  "disables compensation entirely" (`workflow.go:60`).
- Messaging: the dead-letter handler leaves the original partition and offset 0
  where the struct says -1 stands for none (`dlq.go:52-53`) and drops the sender's
  error; failures of a batch's items never reach `OnError`.
- Traced calls: `TraceFunc` panics when its last result is a value that cannot
  be nil; `Trace` ends its span on a panic without marking it, `database` and
  `genai` mark it; a commit that fails because the context ended is recorded as
  a rollback though the driver may leave it in doubt.
- Baggage and the rest: `SafeBaggage` counts a value before the size check may
  refuse it, and a replacement on top of what it replaces; the event helpers of
  `span.go` are not redacted; `slo.go` forecasts exhaustion in no time when
  nothing is retained and nothing is wrong.

## Proofs

TLAPS checks every proof, for all values of the constants under the
assumptions the modules name.

**EventQueueProofs** (from `QueueAssumption`). The inductive invariant adds to
`TypeOK` and `ExactlyOnceInOrder`: the channel holds the unreceived end of
`accepted` (`ChannelInv`), which makes the event the worker takes the one the
next offer must be; the worker delivers the last event it received
(`DeliverInv`); and one goroutine at most has passed the test of `q.closed`, the
channel closes after it, and the worker exits only from a closed, empty
channel (`CloseInv`). `Orderly` follows: when the closer returns the
worker has exited, so nothing is left of `accepted` to offer. Frame lemmas say
which actions touch which variables, and each part has a lemma per group of
actions. `Refinement` shows that the queue implements the safety part of
`EventDelivery` (`Spec => Delivery!Safety`): initial states map to initial states, and each
group of actions has a lemma that says which abstract step it is (`TrackMaps`,
`WorkerMaps`, `ShutdownMaps`) or that it is none. It needs that an accepted event was
tracked before, so that no later one equals it (`Numbered`). `BackoffFollowsFailures` needs that the
failures, the pause and the next instant move together and that a subscriber
without failures pauses no longer than the least back-off (`Paced`); doubling what is
capped and capping again is capping the doubled value (`CappedDoubling`).

**ExportGuardProofs** (from `GuardAssumption`). The breaker's counts never
exceed what has happened, its successes since the last failure and its
failures since it closed (`StreakInv`); with `CountersMatchState` this is
inductive in spite of the unlocked writes, because only `RecordSuccess` and
`RecordFailure` change the counts. `EarnsItsTransitions` is a step property of it.
`LazyRefillExact` is its own invariant, given that `FillTime` ticks fill the
bucket from empty.

**LifecycleProofs** (from `LifecycleAssumption`). `BuildInv`: the pipeline being
built is nobody else's. `OwnerInv`: the globals name installed pipelines or the one
being installed. `StageInv`: each stage of a close records what the pipeline has given
up and stopped. `OrphanInv` and `LatestInv` then give `NothingLeaks` and
`LatestKeepsItsSinks`, and `GlobalsAreLive` is part of the induction.

**WorkflowProofs** (from `WorkflowAssumption`). `RollbackExact` needs that the
results a rollback copied stay the ones recorded: one goroutine at most runs the
workflow forward and nobody takes it back meanwhile (`Control`), and a rollback has
undone what it has passed unless it failed in part (`Rollbacks`). It holds also
when `CompensateAll` calls overlap. `ReverseOrder` and `Lifecycle` are proved
under `~Overlap`, where one caller at most rolls back and the compensations begun
are those of the results it has passed (`Alone`), each result standing at the
place of its step (`Records`). Without that assumption they fail (`workflow_race`).

**MessageFlowProofs** (from `DeadLettersAssumption`). `CountsAreExact` is
inductive with the shape of the state; lemmas say what the tail of a list
without repetition, an entry at its end and the removal of one are. For
`DeadLettersAreTraceable` the span of a message must lead to its publisher from
the moment it is received (`LeadsBack`); for `BatchAttemptsAll` a batch under way
must have attempted every item before the next (`InStep`).

**TailSamplingProofs** (from `SamplingAssumption`). No property of sampling is inductive.
The invariant says what the verdict on a span depends on at each chain it has
passed (`FailureOf`, `WholeOf`, `HeadOf`), and that every entry of the Keeper is the end of a
failure that was exported, that eviction leaves the mark made last, and that
nothing is evicted before `Limit` traces have failed (`KeeperInv`). `FailuresAreKept`,
`WholeTraces` and `KeptForAReason` follow; `FailureBringsTheRest` is a step property of it.

**TrackerProofs**. An inductive invariant for each component.

- Ordering tracker (from `OrderingAssumption`): the order list is the window's
  IDs, every entry of the map comes from the window, and an ID that has not
  expired and come back has one place there (`OrderingInv`), so evicting the
  head of the list forgets the oldest message and no other. For
  `GapsAccounted`, a partition's numbers lie between its first and its
  last (`GapInv`), so what a new message skips is disjoint from what was skipped before.
- Target-rate sampler (from `TargetRateAssumption`): which count, over which time, each
  rate came from (`RateInv`).
- Log sinks (from `LogSinksAssumption`): a roll goes forward to a period that has come,
  and never dooms its own file (`InOrder`). Unless the clock was set back, no file is ahead of
  every writer, and a prune, however stale its listing, dooms only files that
  some writer has left behind (`Behind`): so a writer of the newest period keeps its
  file. `Installation` says how far an `Init` or a close has come when its
  writer is open, current, or about to be closed by the `Init` that ousted it (`LogInv`).
- Consumer group (from `GroupAssumption`): `SpanNamesOwnState` speaks of calls that
  have written their span, and is inductive once it is said of those that have yet to.
- Parking lot (from `ParkingLotAssumption`): a caller between load and delete holds a
  context by its number and removes it by its key. So `RetrievedOnce` needs that a
  number is under one key at most, that a loaded number is under no key but the one it
  was loaded from (`OneKey`), and that numbers are given once (`Given`).
- SLO tracker (from `SLOAssumption`): ages fall along the slice, so what is past the
  window is its beginning; the history is what remains after that, and the live
  counts are of what follows `firstLive` (`SLOInv`). `Prunes` shows that pruning keeps
  this, compacted or not, and `CountsInRest` that a sequence and the one it is the rest of
  have as many observations of any kind.

**RequestProofs**. Again one invariant per component.

- HTTP (from `HTTPAssumption`): a call and a handler have their places for good
  (`Placed`): which handler made the call, to the next service; that its headers name
  the attempt's span, or the caller's, in the caller's trace, and carry the ID the caller
  resolved unless that follows from the trace; that the handler's span hangs
  under what its headers name; that no two share a span and each span is
  somebody's. None of this depends on how far either side has come, so late, repeated
  and overlapping handlers change nothing. `OpenWhile` and `LooksWell` say what
  does change, and `Joins` what a handler resolves (`HTTPInv`).
- Request logger (from `LoggerAssumption`): no record is on the span before one is
  sealed, a sealed one is what the fields were, and the span shows the fields
  under the attributes of errors that came later (`LoggerInv`).
- Traced calls (from `CallsAssumption`): `CallsAreTold` speaks of calls that are over.
  `CallsInv` says of those under way that nothing has been told of them yet, that a
  transaction among them has begun, and that one committed or in doubt by then was
  settled by its function; every way of leaving, and the end of the context,
  then has a case of its own.
- Baggage (from `BaggageAssumption`): what a call holds past the cardinality check is
  counted and in the form its field is sent in; a context checked by `SafeBaggage` is
  within its size (`BaggageInv`).
- Configuration (from `ConfigAssumption`: what options, environment and file are able to
  say). `HighestSourceWins` and `TLSIsKept` speak of the end of `Init`, and what is
  settled between two layers is no part of them. `ConfigInv` says that what is
  settled so far is exactly what the layers applied so far make of the sources, and
  that each field of the program's `Config` holds what the last option naming it says.
  The first part makes every layer's step one equation; the second gives
  `ProgramIsExplicit`: the reference, which searches the options, finds what `Init`
  carries. The rest is about functions of the sources: a lemma per layer says what it
  makes of each field (`EnvFields` to `FinalFields`), `AtTheEnd` puts them together,
  `HighestIs` says when the reference settles on a source, and one lemma per setting
  compares the two. For endpoints `SentIsAddressed` also gives that no scheme is lost
  between a source and the address used, which is `TLSIsKept`; for headers
  `MergedHeaders` says that a merge takes over a name whole, whatever its spelling.
  `TheHighestWins` holds wherever `Unmistakable` does, for any combination of sources and
  not only within a group of settings; each conjunct of `Unmistakable` excludes one of the
  divergences listed above, where the two do settle on different values.

Model-checked only:

- The progress of `EventDelivery` and every liveness property (`ShutdownReturns`,
  `BreakerRecovers`, `FailureIsRolledBack`, `PoisonReachesDeadQueue`): the prover
  handles neither fairness nor `ENABLED`.

## Not modelled

- Redaction replaces parts of strings by regular expressions: no state, and its
  content is the strings.
- The gRPC, gin, chi and echo adapters hand a request to other libraries or to
  the HTTP middleware.
- Exporters, the subscribers' network clients and files are behind interfaces
  that succeed, fail or take time. The SDK's own batching is an external step
  that hands ended spans to the exporters.
- `mcp`, `logging` and `analysis` build attributes or read recorded spans.
- Formatting, attributes and spans' content throughout; metrics that only count.
- Of `Init`: overlapping `Init` calls, `Flush`, debug mode, otel's own globals.
- Of the workflow: `CompensateAll` during `Run`, and `Step` after `Run` has begun.
- `EvaluateBurnRateAlert`, DLQ error classification and the parsing of headers in
  `links.go`: pure functions without a choice to get wrong between steps.

## Plan

1. `CompensateAll` during `Run`, with what the documentation says of it.
2. `Track` composed with `Lifecycle` and `EventQueue`: the send on a closed
   channel, stated once the package promises an order.
3. `Flush`, debug mode and overlapping `Init` calls in `Lifecycle`, with `LogSinks`
   composed into it.
