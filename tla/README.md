# Verification of the Launcher plugin SDK

TLA+ models of this repository, from the job cache and the request loop to the
example plugin, the conformance suite and the smoke test; the TLC runs that check
them on small instances; and TLAPS proofs that hold for every instance.

## The system and its parts

A plugin is a process that the Launcher talks to over stdin and stdout.
`launcher.Runtime` (`launcher/launcher.go`) hands every request that
`protocol.Communicator` (`internal/protocol/communicator.go`) reads to a
handler goroutine, which calls the plugin; the plugin answers through a response
writer whose responses a single writer goroutine encodes. Plugins keep their
jobs in `cache.JobCache` (`cache/cache.go`), which stores them
(`cache/store.go`) and feeds status changes to the streams that watch them.

| Part | Source | State | Concurrency | Model |
|---|---|---|---|---|
| job cache, publish/subscribe | `cache/cache.go` | update channel, subscriber lists, stop/done | service goroutine, callers, `Close` | `JobCache`, promise: `StatusFeed` |
| job store | `cache/store.go`, `cache/cache.go` | jobs, `LastUpdated` | one lock; `Prune` in two phases | `JobStore` |
| communicator | `internal/protocol/communicator.go` | request, response and error channels | reader, writer, handlers, main loop | `Communicator` |
| request handler | `launcher/launcher.go` | stream records, sequence IDs, metrics once | one goroutine per request | `Runtime` (extends `Communicator`) |
| metrics | `launcher/metrics.go` | histogram, ticker | metrics goroutine, observers | `Metrics`; its race with shutdown: `Runtime` |
| response writer | `launcher/launcher.go`, `internal/protocol/rpc.go` | response IDs, sequence numbers | goroutines that write | `ResponseWriter` |
| wire protocol | `internal/protocol/stream.go`, `rpc.go` | decoder error, buffer | none | `Wire`; outcomes in `Communicator` |
| API types | `api/types.go` | none | none | `JobStatuses`, `ApiTypes` |
| in-memory plugin | `examples/inmemory/main.go` | jobs in the cache | goroutine per job and per stream | `InMemoryPlugin`, promise: `JobLifecycle` |
| conformance suite | `conformance/` | recorded responses | waiting loops, timeouts, streams | `Conformance` (extends `InMemoryPlugin`) |
| smoke test | `cmd/smoketest/` | responses by request | reader goroutine, timer | `SmokeTest` |
| test mocks, logger, options | `plugintest/`, `logger/`, `launcher.go` | recorders, files, flags | one mutex | not modelled: bookkeeping, I/O and parsing |

`examples/scheduler` holds a description only.

## Modules

**JobCache** models the publish/subscribe side of the cache. A committed status
change is named by its position in `log`; an update in a channel is such a
position, and `store[j]` is the position that gave job `j` its present status
(0: not cached). One action per critical section or channel operation:
`AddOrUpdate`, `Update` (both `Commit` and `notify` under the store's lock),
`PruneScan`, `PruneDelete`; the service goroutine's `SvcReceive`,
`processUpdate` (with `Notify`), `SvcStop`, `closeSubscribers`, `SvcExit`;
`CloseBegin`, `CloseReturn`; and for each subscribing call `Lookup`,
`subscribe`, `Recheck`, `Receive`, `ReceiveClosed`, `CtxDone`. `lost` is a
history variable for the drops that the code logs. A response that a call
writes is taken to be accepted at once.

**StatusFeed** is what the cache promises: one history, of which each
subscriber is shown a part, in order. `JobCache` implements it under the mapping
`history <- log`, `shown <- got` (`ImplementsFeed`).

**JobStore** models what a job record goes through. `status` stands for the
fields an update overwrites, `host` for those it may leave out, `updated` for
`LastUpdated`. `Update` passes on the snapshot with its old `LastUpdated`, as
the code does. `Prune` computes its cutoff, iterates under the read lock and
deletes later.

**Communicator** models `Serve`. The goroutines are `Reader`, `Writer`,
`Handler(r)` and `Main`; `errCh` has capacity 1 as in the code, the other two
channels have constants for their 100. Whether the decoder fails or the stream
ends, and whether a response in `Failing` is encoded, is a choice.

**Runtime** refines what a handler of `Communicator` does: `Route` is
`createHandler`'s dispatch, `Start`, `CancelStream` and `SequenceID` are
`streamStore`, `Enter`, `Write`, `SendResponse`, `MethodReturns` and `Finish`
are the steps of a handler, `Tick` and `TickStop` the metrics loop. One plugin
method per routing class stands for its class. A plugin writes from the
goroutine it was called on.

**InMemoryPlugin** models the example. `NewID`, `AddJob` and `SubmitReturns` are
the steps of `SubmitJob`; `StartJob` and `FinishJob` the two wake-ups of
`simulateJobLifecycle`; `ControlJob` the callback that runs under the store's lock,
with `Verdict` for its refusals and `Perform` for its effect. `GetJobOutput` opens a
stream whose goroutine takes `OutputTick` and `OutputDone`; `GetJobResourceUtil`
takes `Poll` and `PollDone`. `CancelStream`, `Shutdown` and `ServeReturns` come from
the runtime; a response written after the channel was closed sets `panicked`. Job
IDs are the numbers in `job-N`. **JobLifecycle** is the documented life of a job:
submitted as Pending, moved along, ended by an operation. `InMemoryPlugin` implements
it with `status` mapped to the statuses of the jobs in the cache.

**Conformance** runs the suite against that plugin. A test is a script, one record
per helper call or assertion, with what a failure does (`t.Fatalf`, `t.Errorf`,
`t.Skipf` or nothing). `CallSubmit`, `SubmitJob`, `PollJob`, `Timeout`,
`CallControl`, `Assert` and the stream steps interpret it; `WatchStep` and
`ProcessUpdate` are the goroutine of `StreamJobStatuses` and the cache's service,
reduced to counts; `GuestStep` is another client that submits a job or ends one. A
sleep may take any time. The subtests of one function share their submissions, and
names and timestamps, which nothing changes after submission, are left out.

**SmokeTest** models the client. A step of the main goroutine is what it does from
taking `mu` to releasing it, in `cond.Wait` or for good: `Choose`, `Wake`, `Checked`,
`Awake`. `Count` is the reader's critical section, `Broadcast` comes after it, `Timer`
broadcasts too. The plugin under test (`Responses`, `PluginExits`) answers in any
order, with errors, or never.

**Metrics** models `Histogram`, `collectPluginMetrics`, `metricsOnce` and
`metricsLoop`. An observation is its position in `value`. `Observe` takes the lock and
`Record` records; `Swap` is Drain's critical section, `Read` what follows outside it.
The plugin may also call Drain itself (`OwnDrain`). Numbers of histogram instances
are used again once nobody refers to them.

**ResponseWriter** models every method of the writer in steps: the response with its ID
(`Write`), its sequence number (`Number`), the send. Two goroutines may write for one
request. **Wire** has framing and parsing as operators over digits of a small base;
**ApiTypes** the text forms and `WithFields`, over texts that are sequences of parts.
**Protocol** puts the three in one state space: an input to an operator is an initial
state of its own.

`MC*` modules give the constants values; `Communicator` and `SmokeTest` need none.
`*Proofs` hold the theorems: `RuntimeProofs` those of `Communicator` too,
`SequenceProofs` the one on the numbers of streams, `StoreMetricsProofs` those of
`JobStore` and of `Metrics`.

## Runs

| Run | Bounds | Shows |
|---|---|---|
| `cache_delivery` | 2 jobs of 2 users, 1 subscriber of any kind, any change of status, 3 changes, channels of 2 and 1 | accounting of every update, no forgotten end, refinement of `StatusFeed` (which is order) |
| `cache_close` | 1 job, 1 subscriber of any kind (two of them the administrator's), 2 callers of `Close`, 2 changes, channels of 1 | no double close, no send on a closed channel, nobody left waiting; `Close` returns; `Close` and cancellation end calls |
| `store` | 2 jobs, 3 statuses, with and without host and stamp, clock to 4 | fields are kept, unchanged updates leave `LastUpdated` alone, only terminal jobs leave |
| `runtime` | a stream that may fail, its cancellation, a bootstrap request, 2 ticks, 2 responses each | flushing, service, reporting, safe close; sequence numbers on the wire, bootstrap response before metrics |
| `runtime_liveness` | a stream, its cancellation, a refused request, channels of 1 | cancellation stops `Serve`, canceled streams end, refusals are written |
| `inmemory` | 2 submissions of 2 users, one long-running, 2 controllers (one the administrator), 1 stream of each kind, 2 lines of output | operations are final, exit codes tell the end, submissions are kept, streams are well formed; refinement of `JobLifecycle`; short jobs, output and resource streams end |
| `conformance` | all tests but `SuspendResume`, 2 submissions, 1 output line, 1 other submitter and 1 other controller, timeouts | no false alarm, a pass is earned, every test ends |
| `smoketest` | all actions, begun while fewer than 2 request IDs are used, 2 responses of streams | a control request names its own job, silence is no answer, no lost wake-up; waits end, `stop` returns |
| `metrics` | 2 observers, 1 caller of Drain besides the loop, 2 observations of values below, at and beyond 2 bounds, NaN and infinity, channel of 1 | conservation, exact samples; observations leave |
| `protocol` | 2 goroutines with any of 12 requests, 2 responses each; up to 3 bodies of 6 kinds, limits 2 and 3, every cut; 6 texts, 3 field names of 5 | IDs and numbers once each, responses addressed; frames, truncation, texts, fields against their references |

Why the bounds are enough to be interesting: every channel can be empty, full and
exceeded; there are more changes than places; every pair of goroutines of a part
can overlap. Subscribers meet only on the lists that `Notify` and `Close` empty, so
one of any kind is checked, and the theorems below cover any number of them together
with `Close`. `cache_delivery` has no caller of `Close`; its theorems do.
The smoke test keeps no state across actions but counts, jobs and late responses, so
two or three actions in a row show what actions can do to each other. In `Wire` the
header has two digits of base 3, so that there are bodies at, below and above each limit.
`CHECK_DEADLOCK FALSE` is set where behaviours end: the cache is closed, `Serve` has
returned, the test is over, or the bounds are used up. `Communicator` is
checked as part of `Runtime`, whose handlers take the place of its own. In `Runtime`,
the hooks (`SetLoadBalancerNodes`, `ConfigReload`) take the path of bootstrap, less
its writes; no run has one. `SlowJobs` in `Conformance` says that a job outlasts the
wait between two polls of a test; without it the launch workflow, which waits for
Running, fails on a job that was quicker, and `NoFalseAlarm` does not hold.
Each module states its type invariant (`TypeOK`, `StoreTypeOK`, `RtTypeOK`,
`SuiteTypeOK`); those of `JobCache`, `JobStore`, `Communicator`, `ResponseWriter` and
`SmokeTest` are proved.

**Fairness.** A goroutine that can run does run (weak fairness), and a `select`
whose case stays ready takes it sooner or later (strong fairness: Go picks among
ready cases at random). The Launcher reads what is written. A plugin's plain
methods return; its streaming methods return once their context is canceled, as
the documentation asks. A mutex that is free again and again is taken (`sync.Mutex`
does not starve), and a plugin's `Metrics` does not always panic. Timers fire, and
sleeps end: the timeouts of the suite, the 30 seconds of the smoke test. The plugin
that the smoke test talks to need not answer or exit. Nothing makes the Launcher
send, the caller cancel or call `Close`, or a writer update a job.

### Where documentation and code disagree

Each of these runs checks one sentence and ends in a counterexample
(`findings` in `PROJECT.json` quotes the lines).

| Run | What happens |
|---|---|
| `prune_fresh` | a job finished by `Update` keeps its old stamp and is pruned at once |
| `cancel_lost` | a cancellation handled before its stream is lost |

Further configurations do the same for other sentences. They are not part of the list
of runs; TLC reports each property violated.

| Configuration | Module | Sentence | What happens |
|---|---|---|---|
| `RunningContext.cfg` | `MCJobCache` | `cache/cache.go:239` | the terminal update meets a full channel: the context is never canceled |
| `StreamEnds.cfg` | `MCJobCache` | `docs/API.md:1117` | `StreamJobStatus` goes on after a terminal update |
| `StreamLatest.cfg` | `MCJobCache` | `docs/GUIDE.md:411` | a change between the first read and the subscription is never shown |
| `CancelHangs.cfg` | `Communicator` | `docs/ARCHITECTURE.md:216` | the second error blocks on `errCh` and `Serve` never returns |
| `EncodingError.cfg` | `Communicator` | `launcher/launcher.go:294` | after an encoding error `Serve` waits for open streams for ever |
| `MetricsPanic.cfg` | `MCRuntime` | `launcher/metrics.go:147` | the metrics loop sends on the closed response channel |
| `SequenceZero.cfg` | `MCRuntime` | `docs/API.md:99` | a canceled stream's last responses carry number 0 |
| `BootstrapRace.cfg` | `MCRuntime` | `launcher/launcher.go:223` | a method is called while `Bootstrap` runs |
| `ResponseIDs.cfg` | `MCProtocol` | `docs/API.md:53` | response IDs are drawn before the send and overtake each other |
| `EndsClean.cfg` | `MCProtocol` | `internal/protocol/stream.go:135` | a stream cut right behind a header passes for one that has ended |
| `UtilStops.cfg` | `MCInMemoryPlugin` | `examples/inmemory/main.go:204` | samples follow the completion of a resource stream |
| `OutputGoroutine.cfg` | `MCInMemoryPlugin` | `examples/inmemory/main.go:153` | the output goroutine outlives its handler and writes to the closed channel |
| `WaitNotices.cfg` | `MCConformance` | `conformance/helpers.go:107` | a wait for a terminal status goes on though the job ended in another |
| `OneInFlight.cfg` | `MCConformance` | `conformance/scenarios.go:576` | the first listing is written after the cancellation, job by job |
| `SmokeTimeout.cfg` | `SmokeTest` | `cmd/smoketest/smoketest.go:239` | a broadcast for another response ends a wait early |

To run one: `tlc -config StreamEnds.cfg MCJobCache`.

## Proofs

All theorems hold for every value of the constants that satisfies the named
assumptions of the module (`ConstantsAssumption`, `StoreAssumption`,
`CommunicatorAssumption`, `RuntimeAssumption` with `StreamIDs`, `WriterAssumption`,
`PluginAssumption`, `SuiteAssumption`, `MetricsAssumption`, `SmokeTestAssumption`), so
for any number of jobs, subscribers, closers, requests, goroutines, callers and
observers and for the capacities the code uses. Most say what the code documents of its
inputs. `StreamIDs` says that the requests for streams have IDs of their own: two with
one ID share a record, and the numbers of neither are in sequence.

* `JobCacheProofs`. `ChannelInv` adds to `NoChannelPanic` where a call must be for
  its channel to be listed or closed (`Channels`) and how far shutdown is
  (`Shutdown`): a channel is closed by whoever takes it off its list, and once `stop`
  is closed nothing is listed any more. It gives `ChannelSafety` and
  `CloseCompleteness`. `DeliveryInv` adds that positions are valid, that what was
  received precedes what is buffered, held and queued (`InOrder`), that updates are
  where they belong (`Matching`), and that a waiting `RunningJobContext` subscribed
  before its job's end (`Watching`). It gives `DeliveryOrder`, `DeliveryAccounts`,
  `NoForgottenEnd` and `Refinement`.
* `RuntimeProofs`, on `Communicator`. `ShutdownInv` ties `respClosed` to the main loop's place and
  to finished handlers (`Closing`), requests read to the queue or a goroutine
  (`Served`), errors to a sender, the channel or the result (`Reported`), and
  responses to the channel or the wire (`Flushed`). It gives `SafeClose`,
  `AllServed`, `AllReported` and `AllFlushed`. `OrderInv` orders written, queued and
  unsent responses of a request and gives `WireOrder`.
* `RuntimeProofs`, on `Runtime`. Every step of a handler of `Runtime` is a step of a handler of
  `Communicator` or leaves its state alone; only `Tick`, a send by a goroutine that
  `Serve` does not know of, is neither, and it keeps `ShutdownInv` as well. So
  `RtSafeClose`, `RtAllServed`, `RtAllReported` and `RtAllFlushed` hold with the handlers
  and the metrics loop of the code. `BootInv` adds that a request is queued once (`Once`),
  that the loop is started after the bootstrap response was sent (`Replied`), and that
  while the writer goes on, every metrics response in the channel has a bootstrap
  response before it, there or on the wire (`Heralded`; `Flushed` is what says that the
  response sent was not lost). It gives `RtBootFirst`.
* `SequenceProofs`. Between drawing a number and the wire there are three places. With
  the handler (`Labels`): the record of a stream holds the last number drawn, the labels
  count up to it (`DrawnInOrder`), and a response is labeled before it is sent. On the
  way (`Sequenced`): reading the wire and then the channel, the numbers go on without gap
  up to the last one sent (`SentInOrder`), for as long as the writer goes on; when it
  has failed, only the wire matters. The record of a stream that ended is deleted and
  its number with it, so `DrawnInOrder` speaks of the labels, which stay. It gives
  `RtStreamOrder`.
* `ResponseWriterProofs`. `AddressInv` says what a goroutine that has not yet drawn its
  number holds (`Named`): a response of a stream gets its address only with the number.
  `IDInv` says that the response IDs below the counter are each in one place, sent or
  with a goroutine, and `NumberInv` the same of the numbers of each stream that has a
  record. They give `AllAddressed` and `UsedOnce`.
* `StoreMetricsProofs`, on `JobStore`. `SyncFacts` says what the merge returns. `StampInv` bounds
  `LastUpdated` by the last change or stamp, and that by the clock (`PollingKeepsStamp`);
  `PruneInv` says that candidates stay terminal (`PruneTerminal`); `KeepsFields` needs
  types only.
* `InMemoryPluginProofs`. `PluginInv` adds to `ExitCodeTells` that an ID is drawn by one
  call and names no job before that call adds it (`Drawn`), that only jobs that are not
  long-running are left to finish by themselves (`Short`), and what a successful
  operation made of its job (`Decided`). The two meet in `ControlJob` and `FinishJob`:
  both look at the status under the lock, and no operation is valid for an ended job.
  It gives `ControlFinality`, `ExitCodes`, `Submissions` and `LifecycleRefinement`.
  `OutputInv` says that while its goroutine runs an output stream is lines only, and no
  more of them than there are; it gives `OutputsWellFormed`.
* `ConformanceProofs`. `ScriptFacts` reads the scripts of the five tests of operations
  once: they submit one job, first, report each failure, and have a wait after which
  they only assert. `PluginInv` and that an ended job stays as it is (`Kept`) hold for
  every step of the suite and of other clients (`PluginPart`). `EarningInv` adds that the
  job the test knows is in the cache (`Submitted`), that a job it saw ended is still as it
  saw it, and that a test that has reported nothing has seen what its last wait and its
  assertions want (`Waited`). It gives `PassesEarned`, for any profile.
* `SmokeTestProofs`. `WakeInv` is about the reader's last broadcast alone. `AnswerInv`
  says how many IDs an action may have used at each stage (`Shape`), that requests that
  are open are told apart by ID and have no response yet (`Open`), that the main goroutine
  has seen no more responses than came (`Waiting`), that a request for a job is open only
  while its own action waits for it (`Pending`), and that the jobs since the action began
  are its own (`Own`). `Pending` is the point: a late answer to a submission would
  otherwise be taken for the job of the next action. They give `OwnJobControlled`,
  `OnlyAnswered` and `WakeupsKept`.
* `StoreMetricsProofs`, on `Metrics`. `Ledger` says that the sets of observations kept at each place are
  disjoint and together are all there are. Lemmas on sets (`Enter`, `HandOver`, `Leave`,
  `Dispatch`, `Arrive`) say that a move from one place to another keeps it; each action is
  one such move. `Locked` (an observer that is about to record holds the lock and the
  current instance) and `Owned` (an instance that was swapped out has one reader)
  are what makes them so. It gives `Conservation`.

Only model-checked: liveness, which rests on fairness and is out of the prover's reach;
`NoFalseAlarm`, which is about every script and needs facts of each (what a test may
still fail at each of its steps); exact samples, which are sums over sets; and the
operators of `Wire` and `ApiTypes` (`StreamsDecoded`, `TextsAndFields`), which are
recursive or folds over sequences, so that what they compute needs induction over data.

## Not modelled

* Response bodies, JSON syntax, log output, options and configuration files: formatting
  and parsing with no later effect on the state.
* `plugintest`: recorders behind one mutex, assertions and builders. Nothing waits and
  nothing can be out of order; the suite's view of them is in `Conformance`.
* `logger`: handlers and files.
* In `api/types.go`: `Error.Is`, `JobID.IsWildcard`, `Node.Online`, the JSON of
  `MountSource` and the plain structs. That `WithFields` shares slices and maps with the
  original job is below the level of the model.
* In `conformance`: `RunMetrics`, which the example plugin skips. `RunSuspendResume` is a
  script that no run takes, since the example plugin refuses both operations.
* In the example: `main`'s setup, and `GetJobNetwork` and `ClusterInfo`, which only read.
* The composition of `JobCache` with `Communicator`: calls that write a response under the
  store's read lock wait for the Launcher. Each side is checked with the other taken to
  go on; the product is too large for a run.

## Plan

1. Proofs: `NoFalseAlarm` without guests, test by test.
2. `JobCache` with a bounded response channel in place of responses taken at once.
3. `RunMetrics` against a plugin with metrics.
