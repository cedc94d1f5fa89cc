# A TLA+ model of the iagent monitoring agent

The agent (Go, `src/`) collects metrics, processes and logs from a host and streams them to
a server over one gRPC connection; the server can send commands back, one of which,
*disconnect*, makes the whole agent go silent for a minute. These modules model the part of
the agent where its goroutines meet (the shared connection, the reconnecting managers, the
queues and workers, shutdown, the log collectors) and the computations that are easy to get
wrong: rates, payloads and their tags, the agent's id, the layers of its configuration.

## 1. The system

| Component | State | Operations | What makes it correct |
|---|---|---|---|
| Connection package `internal/grpc/connection.go` | `conn` under `connMu`; `pauseUntil` under `pauseMu`; `disconnectCh` | `GetGRPCConn`, `CloseGRPCConn`, `PauseConnections`, `WaitForResume`, `GetPauseUntil` | no leaked ClientConn; replacing one ends no stream that was working when it was found broken; a pause reaches everybody |
| Metric sender `metricsender/sender.go` | `cc`, `stream`, `wg`; local `backoff` | `manageConnection`, `manageReceive`, `sendCommandResponseWithRetry`, `reconnectStream`, `SendMetrics`, `Close` | comes back after faults and pauses, stays away during them, answers a command once |
| Process sender, log sender `processsender.go`, `logsender/sender.go` | the same, and a local `lastPause` | `manageConnection`, `SendSnapshot` / `SendLogs`, `Close` | the same, without commands |
| Worker pools `*/task.go` | the workers' payloads | `StartWorkerPool` | a payload is delivered at most once or lost, nothing else; workers leave at shutdown |
| Runners `metricrunner`, `processrunner`, `logrunner` | a ticker and a bounded channel | `Run`, `Close` | never blocked by a slow server; memory bounded |
| Agent and main `agent.go`, `cmd/main.go` | the root context | `NewAgent`, `Start`, `Close`, the signal handler | shutdown ends, in order |
| Log collectors: journald, security file, macOS, Windows event log | a background reader, a bounded channel, a stop channel | `Collect`, `Close` | order kept, `Close` returns |
| Metric collectors and registries, container statistics | `prevStats`, the last counters of each container | `Collect` | rates computed from real previous values |
| Process collector | none | `CollectProcesses` | the processes that use the CPU most are sent |
| Metric registry, metric runner's tick, metadata | the agent's `Meta`; copies of it that wait in the queue | `Collect`, `Run`, `CloneMetaWithTags`, `BuildStandardTags` | every metric in the payload of its owner; no shared maps |
| Identity `identity/agentid.go` | the id file | `LoadOrCreateAgentID` | one stable id, wherever a start died |
| Configuration `bootstrap/config.go`, `config/` | the file; the layered settings | `EnsureDefaultConfig`, `LoadConfig`, `ApplyEnvOverrides`, flags | the setting asked for, from the strongest layer |
| Commands `command/` | none | `HandleCommand` | every command is answered |
| Protobuf conversion, logging, TLS files | none | – | pure I/O and copying |

How they interact:

* One `grpc.ClientConn` is shared by the three senders. `GetGRPCConn` hands it out, and
  closes and replaces it when it is neither Ready nor Idle; the metric sender also closes it
  directly (`reconnectStream`, `Close`).
* `s.stream` of each sender is written by its manager goroutine and read by its workers
  **without any lock**. The managers and the pools are coupled through this field alone.
* The metric manager receives *disconnect* and calls `PauseConnections`; the two others only
  notice that `pauseUntil` has changed, once per round.
* Runner to workers: a channel, with a non-blocking send (drop when full).
* Shutdown: a cancelled context, the deferred `MetricSender.Close` of `MetricRunner.Run` and
  the same `Close` called from `Agent.Close`.

What is hard: all of it runs concurrently; connections fail, streams die while their
connection lives, writes time out and may still happen, the pause may begin at any moment of
the other managers' rounds, a command runs for as long as it likes, shutdown overlaps with
the start of the workers, and the process may be killed while it writes its id or its
configuration. `PROJECT.json` lists each hazard at its line.

## 2. Modules

```
GrpcConn  <-EXTENDS-  ConnManagers  -refines->  StreamCell  <-INSTANCE-  WorkerPool  -refines->  LossyChannel
    ^                      ^                                                 ^
GrpcConnProofs   ConnManagersProofs                                  WorkerPoolProofs

ContainerRates, TopProcesses, MetricBatching  <-EXTENDS-  MCCollection
      ^              ^                                         ^
ContainerRatesProofs, TopProcessesProofs  <-EXTENDS-  CollectionProofs

AgentLifecycle, AgentIdentity, ConfigLayers  <-EXTENDS-  MCAgent  <-EXTENDS-  AgentProofs

LogCollectors  <-EXTENDS-  LogCollectorsProofs
```

**GrpcConn** models `connection.go` under arbitrary callers. `GetGRPCConn` has the outcomes
`GetReuses`, `GetDials`, `GetFails`. When there is a singleton and its state is neither
Ready nor Idle, `GetFindsBroken` comes first, and the close and the dial are a later step
(`replacing`): the caller holds `connMu` all the while, so that no other caller of the
package gets in, but the state belongs to the library and moves on, so that the connection
may be ready, with streams on it, when it is closed; and a handle can be closed without the
lock. `PauseConnections` takes three locks in turn and is three actions, `PauseSet`,
`PauseClose`, `PauseSignal`. A ClientConn is a model value with a connectivity state.
Deadlines become a generation (`epoch`: each call stores a later value) and the fact that
the current one is in the future (`paused`). `Connect` ... `Break` are the gRPC library,
taken from how the code uses it.

**ConnManagers** composes the three managers with GrpcConn. An action is the code from one
blocking call to the next; `pc` names the call. The metric manager (`M`) includes the
command loop and the response retry; the process and log managers share their actions, as
the two files share their text. `stream[s]` is `NoStream` (nil), the ClientConn of a working
stream, or `DeadStream`: Go's pointer to a stream that has ended looks exactly like one to a
stream that works, which is why the difference matters. A stream works only while its
ClientConn is ready; `Ended` applies that to every action that changes the connectivity
state. `calm` becomes true when the network has no more faults. While a command runs (`pc[M]
= "command"`) the metric manager does nothing else, for as long as it takes; every outcome
of `HandleCommand` is a response. The history variable `opened` has the senders that have
opened a stream since a `GetGRPCConn` under way has found the connection broken.

**StreamCell** is the contract between managers and workers: how the field `s.stream` may
move (nil, live, dead). ConnManagers is checked *and proved* to implement it
(`KeepsCellContract`), and WorkerPool is built on it, so that the workers are checked
against every behaviour the managers can show and need not be composed with them.

**WorkerPool** is the pipeline of one kind of data (`kind`, chosen initially), from the
ticker to the server: the runner's offer to the bounded queue, the workers' loop, and the
Send function with its two separate reads of `s.stream`. The `stream.Send` of a payload has
its own steps, since for metrics it runs in a goroutine that is abandoned after 5 seconds.
Payloads are numbers in the order of collection.

**LossyChannel** is what the pipeline promises: accepted or dropped in order, delivered at
most once or lost; in order when one worker sends process or log payloads.

**AgentLifecycle** is start and shutdown: main, the two `Run` goroutines, the workers being
started late by a goroutine of their own, both callers of `MetricSender.Close`, and the
managers, which nobody stops. The connection is abstracted to whether it is open and which
of the metric and the process sender holds the current one (`s.cc` of the log sender, which
nobody closes, is left out). `SendMetrics` gives up after 5 seconds or when the context ends
(`WorkerGivesUp`) and leaves a goroutine inside `stream.Send`, for which nobody waits
(`abandoned`). The writes of command responses, which are no payloads of a pool, are in
ConnManagers. The log runner is commented out in `agent.go`, so only its manager appears.

**LogCollectors** is one log collector (`kind`, chosen initially) with `LogRunner.Run`
collecting from it and any number of other callers of `Close` (`NewRunner` is one, when the
log sender cannot be made). The four collectors are one program written four times, so they
share the channel, the runner and Collect; readers and Close are those of each file. `stop`
is the stop *field*: the event viewer's Close closes the channel and then sets the field to
nil, so a reader that comes to its select later waits on nil (`hears` remembers which
channel a napping reader selects on). Entries are numbers in the order in which readers
offer them; `out` is what the registry has returned to the runner. The journal, the tail
library, the `log` process and the Windows API are external.

**ContainerRates** is the part of the Docker and Podman collectors that keeps state: the
visits of `Collect` to the containers and the two rates computed from `prevStats`. A visit
finds the counters of a container that runs (`Statistics`), or zeros (`NoStatistics`) for
one that does not, since all are listed, and, from Podman, when the reply is an error, since
its status is not looked at; the zeros replace the previous counters. Counters are unsigned
and start again with the container; a quotient is a pair of integers. The history variables
`seen`, `used` and `arrived` say what the rates ought to be.

**TopProcesses** is the selection of processes in `CollectProcesses`, over all lists of a
bounded length. A stable sort is said by what it yields: at place k is the process that k -
1 others come before (`Sorted`); each loop that merges is the recursive function `after` in
`Fill`.

**MetricBatching** is one tick of the metric runner after the next, from one metric to the
next. The collectors return, one by one and in any order (`CollectorReturns`; one that fails
is left out); the loop puts each metric into the payload of its owner (`AddContainerMetric`,
`AddHostMetric`); the payloads are offered to the queue, the host's first (`OfferHost`,
`OfferContainer`); and a worker may read one at any moment of this (`WorkerReads`). A metric
carries the collector it comes from and its place there, so that no two are the same. A Go
map is a reference; `heap` says what each map of tags holds and `Base` is the map of
`r.Meta`. The history variables `returned` and `offered` keep what the collectors returned
and what was offered in this tick. The tags that are the same for all payloads
(`agent_start_time`) or are not set for a container without a name are left out.

**AgentIdentity** is `LoadOrCreateAgentID` by several agents on one host, from one file
operation to the next. `WriteFile` is two of them (truncate, write), and an agent may die or
fail at any place, with any part of the id written; it may start again at any time. A part
of an id is a number like any id, as the code takes it for one.

**ConfigLayers** is `LoadAgentConfig` and what the runners make of its result: the default
file is written when there is none, then each setting comes from the file, the environment
or a flag, and `NewTicker` panics on an interval that nothing sets. A setting's value is the
layer it comes from. The process may end at any step, with the default file created and not
yet written, and the user may write, replace or remove the file at any step too: a file that
appears between `os.Stat` and `os.WriteFile` is overwritten, one that is removed ends the
start (`LoadFails`). The history variable `loaded` is the file that this start has read. A
file that is not valid YAML ends the start, which is what `Ends` does.

**MCCollection** and **MCAgent** check three modules each in one run. The three have no
state in common; `part` chooses one of them initially and the others do not move, so that
the state space is the union and not the product.

The other `MC*` modules add a symmetry set for TLC, in which the process and the log sender
are interchangeable, as their managers are. Operators named `Definition_Something` are
mutants: plausible mistakes in `Definition`, each of which makes one property fail.

## 3. What the runs check

Passing runs:

| Run | Checks | Bounds |
|---|---|---|
| MCManagersSafety | `SingleLiveConn`, `StreamsOnSingleton`, `EndsOnlyNewStreams`, `StreamSenderHonoursPause`, `MetricHonoursPause`, `ResponseAtMostOnce`, and the refinement `KeepsCellContract` | all three senders, each of which can hold a ClientConn of its own; 1 pause; a constant delay |
| MCManagersLive | `MetricReconnects`, `PauseReachesAll` (liveness), `BackoffNeverShrinksOffline` | metric and process manager, 2 ClientConns, 1 pause, delays 1 and 2 |
| MCPoolSafety | `PayloadsAccounted`, `RefusedBounded`, `NoOrphanSend`, `IsLossyChannel` | each kind of data; 2 workers, queue of 2, 4 payloads in ticks of 1 or 2, stream cleared twice |
| MCPoolLive | `QueueDrains`, `WorkersExit` (liveness), `IsLossyChannel` with order | each kind of data; 1 worker, queue of 2, 3 payloads, stream cleared once |
| MCAgent | lifecycle: `NoSendAfterWait`, `ShutdownEnds` (liveness); identity: `IdentityStable`; configuration: `Precedence`, `ServesOnlyConfigured` | 2 workers in each pool; 2 agents on one host, any number of starts, up to 3 ids made; every set of flags and variables over 5 settings, any number of starts, the file edited at any moment |
| LogCollectors | `InOrder`, `Lossless`, `OnceProtects`, `CloseReleases`, `StuckForGood`, `CloseReturns` (liveness) | each collector, enabled or not; 3 entries for a channel of 1, 2 readers and batches of 1 or 2 events in the event viewer; the runner and one other caller of Close |
| MCCollection | `PercentMeasured`, `TopCPUSent`, `OnePlace`, `OwnTags` | 2 containers on 2 CPUs, 2 units of time in which each may work on none, one or both, receive, restart, stand still, and each visit may find zeros; up to 4 processes, 2 of which are sent; ticks of up to 2 metrics from a collector of the host and 2 from one of containers, either of which may fail, a queue of 1, any number of ticks |

Each module has one type invariant, checked in the run of its safety properties (`MCTypeOK`
is the conjunction of those of the modules that a run extends).

The bounds are enough for the interesting cases: one connection more than the senders in
conflict need, so that closing one and dialling the next can overlap; a queue that is full
while a worker holds a payload and another is inside Send; a stream cleared between a
worker's two reads and again afterwards; a pause ordered while each of the other managers is
anywhere in its round. What a second pause or a longer delay could change is left to the
proofs, which have no bounds (section 4). Three ids allow two agents to make one each and
one of them another after a death; the ids used later are loaded, which no bound limits.
With a queue of 1 and two containers, four maps of tags besides the agent's are all that can
be alive at once: that of the queued payload, those of both containers and the host's while
it is offered; with five, TLC finds the same states. `MaxPause`, `MaxPayload`, `MaxBatch`,
`MaxClears`, `MaxEntry`, `MaxFetch`, `MaxTime`, `MaxProcesses`, `MaxLoad`, `MaxMetrics`,
`MaxMaps` and `MaxIds` are the only caps. Deadlock is checked for the managers, which never
stop, and not for the pools, the lifecycle and the collectors, which end.

**Fairness.** Weak fairness of each goroutine (the Go scheduler runs what can run), of the
clock passing a deadline, and of the end of a connection attempt (gRPC bounds it with a
timeout); nothing is owed by the server or the network before `calm`, and in WorkerPool a
Send returns because a server reads a working stream and the end of the context ends it. In
LogCollectors the ticker ticks, and a select with several ready cases takes each of them now
and then (Go picks one at random), hence strong fairness of `Leave`; nothing makes the `log`
process print or the tailed file grow.

`CloseReturns` is as strong as the code allows: a journald Close that waits for a reader
blocked on a full channel is rescued by the next Collect as long as the runner runs, so what
can hold it up for ever is a runner that has left. On macOS Close holds the mutex that
Collect takes first, so only a Collect that was under way already rescues it. `StuckForGood`
says that the exception is exact: once neither can happen (`ReaderStuck`), Close and the
reader wait for ever.

`MetricReconnects` has two hypotheses besides the calm network. Commands end: the receive
loop waits for a command without a bound (`run.go:99`), and while it does the manager
notices neither a pause nor the loss of its stream. And from some time on no other sender's
`GetGRPCConn` closes the connection the metric manager is waiting for, nor one that has just
become ready. Without it the property fails: `GetGRPCConn` closes any ClientConn that is
still connecting when it looks, so a process manager that dials once a round can end every
attempt of the metric manager, and the other way round; only timing, not fairness, rules
that out (hazard at `connection.go:42`). `PauseReachesAll` needs no such hypothesis, since a
manager whose attempt is closed goes back to the top of its loop, where it looks for the
pause.

### Where the code departs from its comments

Five runs violate a property that states what the repository itself says. The lines are
quoted in `PROJECT.json`, "findings".

| Run | What TLC shows |
|---|---|
| MCRetryDelivers | a response is never delivered by a retry: each new stream is cancelled when `reconnectStream` returns |
| MCDeadStreamReplaced | a process or log stream that dies without a pause is never replaced |
| MCPoolPanic | `s.stream` becomes nil between the check and the call of `Send` |
| JournaldClose | the reader waits for room in the channel, Close for the reader, and nobody collects |
| ContainerNetRate | the network rate is 0 though bytes arrived: the previous time it is computed from is later than its own |

The models contain further departures, which have no run of their own:

* `connection.go:113` speaks of a "buffered channel", but `disconnectCh` has no buffer (line
  27) and is only polled: the disconnect event is always dropped (`PauseSignal` with
  `DisconnectCap == 0`), and the branch of `MetricWait` that receives it is never taken.
* `connection.go:45` says of a ClientConn that is neither Ready nor Idle that "it's broken";
  one that is connecting is closed too (`GetDials`).
* `sender.go:230` says "pausing all senders", but a manager past `WaitForResume` opens its
  stream during the pause; `StreamSenderHonoursPause` holds from when it has seen the
  deadline, and `PauseReachesAll` says that it will.
* `metricsender/task.go:38` promises "retries in case of transient errors"; a payload whose
  Send fails is given up (`SendRefused`, `SendFails`).
* `metricrunner/runner.go:54` wants "all data [...] sent before shutting down"; the workers
  leave with a queue that is not empty (`WorkerPull`).
* `MetricSender.Close` has no nil check: shutdown before the first successful dial panics
  (`CloseMetricCC`).
* `agent.go:94` says of Close that "it waits for all runners to finish before closing the
  connection". The metric sender's Close, the first of all, closes the shared connection;
  the process workers, for which Close waits only afterwards, may be sending on it
  (`CloseMetricCC` precedes the wait of `CloseProcessRunner`; hazard at `agent.go:97`).
* `metricsender/sender.go:244` says "waits for any in-flight work then closes": it waits for
  the workers, and not for the goroutines that `SendMetrics` has left inside `stream.Send`
  (`AbandonedEnds`). `NoSendAfterWait` says what does hold: no worker sends any more, and
  for processes nothing is in flight at all.
* `MacOSCollector.Close` closes `lines` after its reader has done so: it panics whenever the
  log stream had started (`ReturnsFromClose`).
* The security collector's Close has no `sync.Once`: two calls before the tailer is cleared
  close `stop` twice (`SecurityClose`).
* `NewEventViewerCollector` returns a nil pointer when it fails, which the registry keeps as
  a collector: the first Collect or Close panics (`Tick`, `CloseNil`).
* `calculateCPUPercent` after a restart of the container subtracts the greater counter from
  the smaller, as `uint64` (`CPUPercent`): one percentage is absurd.
* "Sort by CPU to get top 20", "Sort by MEM to get top 20" (`process.go:77`, `:85`): the
  loop over `byCPU` does not stop at 20 but at 40, so that with 40 processes or more 40 are
  sent by CPU and none for its memory (`CollectProcesses`). `TopCPUSent` is the part of the
  promise that holds; the theorem `MemoryNeverDecides` says that the other does not.
* `calculateCPUPercent` takes the zeros of a container that does not run, or of a Podman
  error, for its counters (`NoStatistics`): the next percentage is not of the interval since
  the last visit but the average since the counters began (`PercentMeasured`).
* The default configuration overwrites a file that the user writes between `os.Stat` and
  `os.WriteFile` (`default.go:75-79`, `CreatesFile`, `WritesDefault`).
* When the context ends during Collect, the journald and macOS collectors "return what we
  have collected so far plus context error" (`journald_linux.go:178`), and
  `LogRegistry.Collect` discards what comes with an error (`EndCollect`).

* A fresh installation does not run. The default configuration (`default.go:29-69`) sets
  `interval`, "Metric collection / send interval", and neither `metric_collection.interval`
  nor `process_collection.interval`, the two that the tickers use: `NewTicker` panics on 0.
  `-interval` and `GOSIGHT_INTERVAL` reach no ticker either (`ServesOnlyConfigured` is what
  does hold).
* `-access_log` stores what `-error_log` says (`bootstrap/config.go:70`, `FlagValue`).
* Tags from the environment are merged into those of the file, `-tags` replaces them all
  (`ApplyEnvOverrides`, `FlagValue`).
* `agentid.go:12` calls the id stable. It is not when two agents start for the first time at
  once, or when the file exists and cannot be read: any error is taken for a first start
  (`MakesId`, which sets `spoiled`; `IdentityStable` says that nothing else spoils it). A
  write cut short leaves part of a uuid, which is stable but no uuid.

## 4. What is proved

TLAPS proves the following for every value of the constants: any number of ClientConns,
pauses, process and log senders, workers, payloads, log readers, agents, containers,
metrics, processes; any capacity and any delay. The assumptions are those the modules name:
the constants for nil, for "no stream" and for "dead stream" are no ClientConns and differ,
the sets of senders are disjoint, there are finitely many workers (`WorkerAssumption`), the
host is no container, no collector reports on both and Nil is none of the values it stands
beside (`HostAssumption`, `CollectorAssumption`, `NilAssumption`, `NilTagsAssumption`), the
bounds are naturals (`MaxBackoff`, `MaxBatch`, `MaxFetch` and `topN` positive).

Every invariant and every action property that a passing run checks is the property of a
theorem.

*GrpcConnProofs*: `ConnTypeCorrect`, `NoConnLeaks`. Types and `SingleLiveConn` together are
inductive: replacing the singleton is safe only because no other ClientConn was open before.

*ConnManagersProofs*: `TypeCorrect`, `ManagersLeakNone`, `StreamsAreOnSingleton`,
`OnlyNewStreamsEnd`, `StreamSendersPause`, `MetricPauses`, `AtMostOneResponse`,
`BackoffOffline`, `ImplementsStreamCell`. None of the properties is inductive. The invariant
`IInv` adds what the code relies on at each blocking call: `HasCC` (a sender past
`GetGRPCConn` has a handle), `MetricOffline` (where the metric manager cannot have a working
stream), `OpensFromNil`, `CancelsItsStream`, `PausesSeen` (no manager has noted a pause that
was not ordered, and one that has noted the current pause is waiting), `PauseInProgress`
(where the metric manager is in each phase of the pause) and `ResponseInv`. The argument
goes in two layers: every step of the managers is a step of GrpcConn on the shared
connection (`StepUsesGrpcConn`), so the package's invariant carries over without being
proved again; then each conjunct of `IInv` has a lemma with one step per action. The action
properties and the refinement of StreamCell follow from `IInv` and a case analysis of one
step. Two more theorems say that the findings of the runs MCRetryDelivers and
MCDeadStreamReplaced are no matter of bounds or of fairness: `RetriesAreFutile` (a response
is written by the first attempt or not at all, since a retry never finds a working stream,
`RetryOffline`) and `DeadStreamsStay` (nothing but a new pause clears a dead process or log
stream).

*WorkerPoolProofs*: `PoolTypeCorrect`, `NoneLostOrDoubled`, `SendsAreAwaited`,
`FewAreRefused` and the refinement `PipelineIsLossyChannel`. The invariant `PoolInv` adds to
the properties what a worker at each place has in its hands (`Hands`), that the queue holds
exactly the queued payloads and that whatever a worker has is older than everything in the
queue (`Queued`); the latter is why one worker keeps the order. For the refused payloads it
counts: without a stream, those refused and the workers already past the check (`AtRisk`)
together stay within the bound, since nobody passes the check then (`FewRefused`). Steps are
proved by what they do to payloads: `WorkerCases` and `OtherCases` reduce the actions to
five kinds, and each kind has a lemma for who owns what, one for the count and one for the
channel.

*LogCollectorsProofs*: `LogTypeCorrect`, `EntriesInOrder`, `NothingLost`, `CloseTwiceSafe`,
`CloseReleasesAll`, `StuckReadersStay`. All readers are shown to move in one of a few ways
(`ReaderMoves`); `LogInv` then says what they have open at each place, that what has been
returned, fetched and queued is ascending, and how far `sync.Once` has got. A stuck reader
stays so because it is the only one there is (`BlockedReader`) and because the runner calls
Close only when it has left (`RunnerAway`).

*AgentProofs*, in four parts. Lifecycle: `LifeTypeCorrect`, `NoneSendsAfterWait`. `LifeInv`
adds that the process sender leaves no write behind and that whoever waits, or is past it,
does so after the end of the context (`Stopping`): so the workers that `StartWorkerPool`
starts after the wait leave at their first poll. Identity: `IdTypeCorrect`,
`IdentityIsStable`. `IdInv` adds that, as long as nothing has spoiled it, an agent that
makes an id is alone in this (`Alone`), on a host where no id is in the file and hence, by
`InUse`, none in use. Configuration: `StrongestLayerWins`, `OnlyConfiguredServe`, by
`ConfigInv`, which says what the settings are after each layer of the file that the start
has read (`HasLoaded`), whatever has become of the file since. Composition:
`AgentTypeCorrect`, from the three invariants, each of which the steps of the other parts
leave alone.

*ContainerRatesProofs*: `NetRateNeverMeasured`, by the invariant that Collect began no later
than now (`TimeInv`): so the time that `calculateCPUPercent` stores is never before the one
that `calculateNetRate` is given. And `PercentIsMeasured`: by `CpuInv`, `prevStats` holds
what the last visit found, the counters of a time or zeros, unless the container has
restarted since, and a container uses at most what the host has (`Remembered`). It assumes
that a counter which only grows stays below 2^Width (`NoWrapAssumption`): the real ones are
nanoseconds in 64 bits. A restarted container's difference does wrap around.
`RatesTypeCorrect` needs `Received`: no counter of bytes is below what was stored of it, so
that no rate is negative.

*TopProcessesProofs*: `TopTypeCorrect`, `TopProcessesAreSent` and `MemoryNeverDecides`, for
lists of any length. That `Sorted` is what it is named for takes counting: those who come
before a process are counted by `HowManyAhead`, no two processes have the same count, and
there are as many places as processes, so that each place has one. The induction over the
steps of `Fill` is one over a set of numbers (`UpTo`, from the least number that is not in
the set), since the library's induction theorems take an operator: the first loop has
selected the first of its order (`FillTakesFirst`), the second takes none away (`FillFits`).

*CollectionProofs*: `MetricsInOnePlace`, `TagsAreOwn`, `BatchTypeCorrect` and, for the
composition, `CollectionTypeCorrect`. `BatchInv` has four parts besides the types. `Phases`
says what is empty when: collectors, loop and offers follow each other. `InOrder`: in all
that is under way, the metrics of one collector stand in its order, and what the loop has
left comes after what it has put into payloads. `Accounted`: for each owner, what its
payload has, what is left and what was offered make up what was returned. `OwnMaps`: the map
of a container is neither the agent's, another container's nor that of a queued payload, so
that what the loop writes is nobody else's; and each map has the tags of its owner and the
status that the last metric reported (`HasOwnTags`). That `CloneMetaWithTags` takes an
unused map is what keeps it.

Only model-checked: the liveness properties (`MetricReconnects`, `PauseReachesAll`,
`QueueDrains`, `WorkersExit`, `ShutdownEnds`, `CloseReturns`), since fairness and ENABLED
are beyond the prover, and the five properties that the code violates.

## 5. What is not modelled

* Concurrent `Send` calls inside one gRPC stream: the library forbids them, the metric
  workers make them; their effect is not defined by this repository.
* Memory-model effects of the unlocked `s.stream`: reads return some value the field has
  had, as on the platforms Go supports for a single word; an interface value is two words,
  and a torn read is not modelled.
* A failed conversion in a Send function (protobuf marshalling): it loses the payload as a
  failed write does.
* The unused `trySendWithBackoff` functions.
* What the log collectors make of a line or an event, and how Collect cuts entries into
  batches; a registry with several collectors at once. The agent creates the log runner,
  which starts the readers, and never calls its `Run` or `Close`: LogCollectors says what
  happens when it is called.
* The metrics that are copied from what the container runtime or the operating system says;
  a short container id (the first 12 digits) is taken to be unique.
* Which programs a command may run, the characters it may contain, and what the programs do;
  a playbook's temporary file.
* The values of settings, the paths of the files, and the log files' settings: the logger
  reads `agent.*_log_file`, which neither a flag, a variable nor the `logs` section of the
  file sets.
* Losses below the file system: the id and the default configuration are not synchronised to
  the disk, and a crash of the host may undo writes.
* The host collectors (calls of gopsutil), the protobuf conversion (field-by-field copies),
  the logger and the TLS files: pure I/O without state of their own.
* Concurrent use of `r.Meta.Tags` by the log runner, which writes into the map that the
  others clone: the agent does not start its `Run`.

## 6. Plan

Done: all modules planned, and the proofs above. Left, in the order of what it would add:

1. The invariants under the liveness properties: that a worker or a Close which waits has
somebody who can end the wait, as far as it can be said without ENABLED.
2. Several collectors in the log registry, one of which blocks the others.
3. Close of the log sender, should the agent start the log runner again.
