----------------------------- MODULE WorkerPool -----------------------------
(***************************************************************************)
(* From a runner's ticker to the stream: the collection loop of a runner,  *)
(* its bounded task queue, and the worker goroutines of StartWorkerPool    *)
(* with the Send function they call.  The three kinds of data have the     *)
(* same pipeline, with these differences:                                  *)
(*   "metric"   metricrunner/runner.go, metricsender/{task,sender}.go:     *)
(*              several payloads per tick (the host, each container), and  *)
(*              a Send that runs in a goroutine of its own and is          *)
(*              abandoned after 5 seconds;                                 *)
(*   "process"  processrunner.go, processsender/{task,processsender}.go:   *)
(*              one payload per tick;                                      *)
(*   "log"      logrunner/runner.go, logsender/{task,sender}.go: several   *)
(*              payloads per tick, and a runner that looks at the context  *)
(*              when it queues.                                            *)
(*                                                                         *)
(* Payloads are numbered in the order in which the runner offers them.     *)
(* The s.stream field belongs to the connection manager: here it moves as  *)
(* StreamCell allows, which ConnManagers is shown to keep to.              *)
(***************************************************************************)
EXTENDS Naturals, Sequences, FiniteSets

CONSTANTS
  Worker,      \* the worker goroutines
  QueueCap,    \* capacity of the task queue
  MaxBatch,    \* bound on the payloads of one tick
  MaxPayload,  \* bound on the payloads of a behaviour
  MaxClears    \* bound on how often the manager clears s.stream

ASSUME WorkerAssumption == IsFiniteSet(Worker)
ASSUME QueueCapAssumption == QueueCap \in Nat
ASSUME MaxBatchAssumption == MaxBatch \in Nat \ {0}
ASSUME MaxPayloadAssumption == MaxPayload \in Nat
ASSUME MaxClearsAssumption == MaxClears \in Nat

Payload == 1..MaxPayload
Kinds == {"metric", "process", "log"}

VARIABLES
  kind,      \* which of the three pipelines this is; it never changes
  cell,      \* cell[kind]: s.stream, as in StreamCell
  clears,    \* times s.stream was cleared
  ctxDone,   \* the root context is cancelled
  crashed,   \* a goroutine panicked: the process is gone
  rpc,       \* where the runner's loop is
  left,      \* payloads of the current tick not offered yet
  last,      \* number of payloads offered so far
  queue,     \* the task queue
  phase,     \* what has become of each payload
  wpc,       \* where each worker is
  item,      \* the payload of each worker, 0 for none
  received   \* what the server received, in order

runnerVars == <<rpc, left, last>>
workerVars == <<wpc, item>>
vars == <<kind, cell, clears, ctxDone, crashed, runnerVars, queue, phase,
          workerVars, received>>

Cell == INSTANCE StreamCell WITH
          Senders <- Kinds, Reopeners <- {"metric"}

streamNil == cell[kind] = "nil"

(* new; dropped: the queue was full; queued; held: a worker has it and has  *)
(* not looked at the stream; refused: Send found no stream; sending: about  *)
(* to call stream.Send; onLive, onDead: inside stream.Send, on a stream     *)
(* that works or not; delivered; failed: stream.Send returned an error.     *)
Phase == {"new", "dropped", "queued", "held", "refused", "sending",
          "onLive", "onDead", "delivered", "failed"}
InFlight == {"sending", "onLive", "onDead"}

PayloadsIn(S) == {p \in Payload : phase[p] \in S}

TypeOK ==
  /\ kind \in Kinds
  /\ Cell!CellTypeOK
  /\ clears \in 0..MaxClears
  /\ ctxDone \in BOOLEAN
  /\ crashed \in BOOLEAN
  /\ rpc \in {"select", "offer", "returned"}
  /\ left \in 0..MaxBatch
  /\ last \in 0..MaxPayload
  /\ queue \in Seq(Payload) /\ Len(queue) <= QueueCap
  /\ phase \in [Payload -> Phase]
  /\ wpc \in [Worker -> {"check", "nap", "pull", "held", "await", "exit"}]
  /\ item \in [Worker -> {0} \cup Payload]
  /\ received \in Seq(Payload)

Init ==
  /\ kind \in Kinds
  /\ Cell!CellInit
  /\ clears = 0
  /\ ctxDone = FALSE
  /\ crashed = FALSE
  /\ rpc = "select"
  /\ left = 0
  /\ last = 0
  /\ queue = <<>>
  /\ phase = [p \in Payload |-> "new"]
  /\ wpc = [w \in Worker |-> "check"]
  /\ item = [w \in Worker |-> 0]
  /\ received = <<>>

-----------------------------------------------------------------------------
(* The runner.                                                              *)

RunnerStops(at) ==
  /\ rpc = at
  /\ ctxDone
  /\ rpc' = "returned"
  /\ UNCHANGED <<kind, cell, clears, ctxDone, crashed, left, last, queue, phase,
                 workerVars, received>>

(* A tick whose collection yields payloads (one that yields none, or fails, *)
(* changes nothing).                                                        *)
RunnerTick(sizes) ==
  /\ rpc = "select"
  /\ rpc' = "offer"
  /\ left' \in sizes
  /\ last + left' <= MaxPayload
  /\ UNCHANGED <<kind, cell, clears, ctxDone, crashed, last, queue, phase,
                 workerVars, received>>

(* Mutants of Offer: the queue has no limit; a full queue loses its oldest  *)
(* payload to make room.                                                    *)
Offer_NoLimit ==
  /\ rpc = "offer"
  /\ last' = last + 1
  /\ queue' = Append(queue, last')
  /\ phase' = [phase EXCEPT ![last'] = "queued"]
  /\ left' = left - 1
  /\ rpc' = IF left = 1 THEN "select" ELSE "offer"
  /\ UNCHANGED <<kind, cell, clears, ctxDone, crashed, workerVars, received>>

Offer_DropsOldest ==
  /\ rpc = "offer"
  /\ last' = last + 1
  /\ \/ /\ Len(queue) < QueueCap
        /\ queue' = Append(queue, last')
        /\ phase' = [phase EXCEPT ![last'] = "queued"]
     \/ /\ Len(queue) = QueueCap
        /\ queue' = Append(Tail(queue), last')
        /\ phase' = [phase EXCEPT ![last'] = "queued", ![queue[1]] = "dropped"]
  /\ left' = left - 1
  /\ rpc' = IF left = 1 THEN "select" ELSE "offer"
  /\ UNCHANGED <<kind, cell, clears, ctxDone, crashed, workerVars, received>>

(* select { case taskQueue <- payload: default: drop }                      *)
Offer ==
  /\ rpc = "offer"
  /\ last' = last + 1
  /\ \/ /\ Len(queue) < QueueCap
        /\ queue' = Append(queue, last')
        /\ phase' = [phase EXCEPT ![last'] = "queued"]
     \/ /\ Len(queue) = QueueCap
        /\ phase' = [phase EXCEPT ![last'] = "dropped"]
        /\ UNCHANGED queue
  /\ left' = left - 1
  /\ rpc' = IF left = 1 THEN "select" ELSE "offer"
  /\ UNCHANGED <<kind, cell, clears, ctxDone, crashed, workerVars, received>>

(* The host's payload and those of the containers.                          *)
MetricRunner ==
  /\ kind = "metric"
  /\ RunnerStops("select") \/ RunnerTick(1..MaxBatch) \/ Offer

(* One snapshot.                                                            *)
ProcessRunner ==
  /\ kind = "process"
  /\ RunnerStops("select") \/ RunnerTick({1}) \/ Offer

(* A payload per batch of log entries.  Queueing also selects on the        *)
(* context: once that is done, the default case, a drop, is not taken.      *)
LogRunner ==
  /\ kind = "log"
  /\ \/ RunnerStops("select")
     \/ RunnerStops("offer")
     \/ RunnerTick(1..MaxBatch)
     \/ (Len(queue) < QueueCap \/ ~ctxDone) /\ Offer

-----------------------------------------------------------------------------
(* The workers.                                                             *)

Goto(w, from, to) == wpc[w] = from /\ wpc' = [wpc EXCEPT ![w] = to]

(* Mutants of WorkerCheck: s.stream is not looked at; a worker without a    *)
(* stream leaves.                                                           *)
WorkerCheck_Blind(w) ==
  /\ Goto(w, "check", IF ctxDone THEN "exit" ELSE "pull")
  /\ UNCHANGED <<kind, cell, clears, ctxDone, crashed, runnerVars, queue, phase,
                 item, received>>

WorkerCheck_Leaves(w) ==
  /\ Goto(w, "check", IF ctxDone \/ streamNil THEN "exit" ELSE "pull")
  /\ UNCHANGED <<kind, cell, clears, ctxDone, crashed, runnerVars, queue, phase,
                 item, received>>

(* Poll the context, then look at s.stream.                                 *)
WorkerCheck(w) ==
  /\ Goto(w, "check", IF ctxDone THEN "exit"
                      ELSE IF streamNil THEN "nap" ELSE "pull")
  /\ UNCHANGED <<kind, cell, clears, ctxDone, crashed, runnerVars, queue, phase,
                 item, received>>

(* time.Sleep(500 * time.Millisecond)                                       *)
WorkerNap(w) ==
  /\ Goto(w, "nap", "check")
  /\ UNCHANGED <<kind, cell, clears, ctxDone, crashed, runnerVars, queue, phase,
                 item, received>>

(* Mutants of WorkerPull: the payload stays in the queue; the context is    *)
(* not selected on.                                                         *)
WorkerPull_Peeks(w) ==
  /\ \/ /\ queue # <<>>
        /\ Goto(w, "pull", "held")
        /\ item' = [item EXCEPT ![w] = Head(queue)]
        /\ phase' = [phase EXCEPT ![Head(queue)] = "held"]
     \/ /\ ctxDone
        /\ Goto(w, "pull", "exit")
        /\ UNCHANGED <<item, phase>>
  /\ UNCHANGED <<kind, cell, clears, ctxDone, crashed, runnerVars, queue,
                 received>>

WorkerPull_NoContext(w) ==
  /\ queue # <<>>
  /\ Goto(w, "pull", "held")
  /\ item' = [item EXCEPT ![w] = Head(queue)]
  /\ phase' = [phase EXCEPT ![Head(queue)] = "held"]
  /\ queue' = Tail(queue)
  /\ UNCHANGED <<kind, cell, clears, ctxDone, crashed, runnerVars, received>>

(* Block until there is a payload or the context is done; when both hold,   *)
(* select takes either case.                                                *)
WorkerPull(w) ==
  /\ \/ /\ queue # <<>>
        /\ Goto(w, "pull", "held")
        /\ item' = [item EXCEPT ![w] = Head(queue)]
        /\ phase' = [phase EXCEPT ![Head(queue)] = "held"]
        /\ queue' = Tail(queue)
     \/ /\ ctxDone
        /\ Goto(w, "pull", "exit")
        /\ UNCHANGED <<item, phase, queue>>
  /\ UNCHANGED <<kind, cell, clears, ctxDone, crashed, runnerVars, received>>

(* Mutant of SendRefused: the payload goes back to the end of the queue.    *)
SendRefused_Requeues(w) ==
  /\ Goto(w, "held", "check")
  /\ streamNil
  /\ Len(queue) < QueueCap
  /\ queue' = Append(queue, item[w])
  /\ phase' = [phase EXCEPT ![item[w]] = "queued"]
  /\ item' = [item EXCEPT ![w] = 0]
  /\ UNCHANGED <<kind, cell, clears, ctxDone, crashed, runnerVars, received>>

(* The first lines of SendMetrics, SendSnapshot and SendLogs: without a     *)
(* stream, return Unavailable, which the worker logs; otherwise convert the *)
(* payload.                                                                 *)
SendRefused(w) ==
  /\ Goto(w, "held", "check")
  /\ streamNil
  /\ phase' = [phase EXCEPT ![item[w]] = "refused"]
  /\ item' = [item EXCEPT ![w] = 0]
  /\ UNCHANGED <<kind, cell, clears, ctxDone, crashed, runnerVars, queue,
                 received>>

SendConverts(w) ==
  /\ Goto(w, "held", "await")
  /\ ~streamNil
  /\ phase' = [phase EXCEPT ![item[w]] = "sending"]
  /\ UNCHANGED <<kind, cell, clears, ctxDone, crashed, runnerVars, queue, item,
                 received>>

(* s.stream.Send(...) reads s.stream a second time: on nil it panics.       *)
SendReadsStream(p) ==
  /\ phase[p] = "sending"
  /\ IF streamNil
     THEN crashed' = TRUE /\ UNCHANGED phase
     ELSE /\ phase' = [phase EXCEPT ![p] =
                         IF cell[kind] = "live" THEN "onLive" ELSE "onDead"]
          /\ UNCHANGED crashed
  /\ UNCHANGED <<kind, cell, clears, ctxDone, runnerVars, queue, workerVars,
                 received>>

SendDelivers(p) ==
  /\ phase[p] = "onLive"
  /\ phase' = [phase EXCEPT ![p] = "delivered"]
  /\ received' = Append(received, p)
  /\ UNCHANGED <<kind, cell, clears, ctxDone, crashed, runnerVars, queue,
                 workerVars>>

SendFails(p) ==
  /\ phase[p] = "onDead"
  /\ phase' = [phase EXCEPT ![p] = "failed"]
  /\ UNCHANGED <<kind, cell, clears, ctxDone, crashed, runnerVars, queue,
                 workerVars, received>>

(* The worker gets the result, logs an error if it is one, and loops.       *)
SendReturns(w) ==
  /\ Goto(w, "await", "check")
  /\ phase[item[w]] \in {"delivered", "failed"}
  /\ item' = [item EXCEPT ![w] = 0]
  /\ UNCHANGED <<kind, cell, clears, ctxDone, crashed, runnerVars, queue, phase,
                 received>>

(* SendMetrics gives up after 5 seconds, or when the context is done; the   *)
(* goroutine inside stream.Send stays there.                                *)
SendTimesOut(w) ==
  /\ Goto(w, "await", "check")
  /\ item' = [item EXCEPT ![w] = 0]
  /\ UNCHANGED <<kind, cell, clears, ctxDone, crashed, runnerVars, queue, phase,
                 received>>

(* What the three Send functions share.                                     *)
Send(w) == SendRefused(w) \/ SendConverts(w) \/ SendReturns(w)

SendMetrics(w) == Send(w) \/ SendTimesOut(w)

(* Mutant of SendSnapshot: it gives up like SendMetrics.                    *)
SendSnapshot_TimesOut(w) == Send(w) \/ SendTimesOut(w)

SendSnapshot(w) == Send(w)

SendLogs(w) == Send(w)

(* The goroutines of the three StartWorkerPool functions.                   *)
WorkerLoop(w) == WorkerCheck(w) \/ WorkerNap(w) \/ WorkerPull(w)

MetricWorker(w)  == kind = "metric" /\ (WorkerLoop(w) \/ SendMetrics(w))
ProcessWorker(w) == kind = "process" /\ (WorkerLoop(w) \/ SendSnapshot(w))
LogWorker(w)     == kind = "log" /\ (WorkerLoop(w) \/ SendLogs(w))

-----------------------------------------------------------------------------
(* The connection manager, as StreamCell allows, and the signal handler.    *)

(* Payloads inside Send on a stream that works no more after the step.      *)
Ended == [p \in Payload |->
            IF phase[p] = "onLive" /\ cell'[kind] # "live"
            THEN "onDead" ELSE phase[p]]

ManagerMoves ==
  /\ \/ ~ctxDone /\ Cell!Open(kind) /\ UNCHANGED clears
     \/ /\ ~streamNil
        /\ clears < MaxClears
        /\ Cell!Clear(kind)
        /\ clears' = clears + 1
  /\ phase' = Ended
  /\ UNCHANGED <<kind, ctxDone, crashed, runnerVars, queue, workerVars, received>>

(* Also what the end of the context, which every stream was opened with,    *)
(* does to a stream.                                                        *)
StreamDies ==
  /\ Cell!Die({kind})
  /\ phase' = Ended
  /\ UNCHANGED <<kind, clears, ctxDone, crashed, runnerVars, queue,
                 workerVars, received>>

Cancel ==
  /\ ~ctxDone
  /\ ctxDone' = TRUE
  /\ UNCHANGED <<kind, cell, clears, crashed, runnerVars, queue, phase,
                 workerVars, received>>

-----------------------------------------------------------------------------
Runner == ~crashed /\ (MetricRunner \/ ProcessRunner \/ LogRunner)

WorkerStep(w) ==
  ~crashed /\ (MetricWorker(w) \/ ProcessWorker(w) \/ LogWorker(w))

SendStep(p) ==
  ~crashed /\ (SendReadsStream(p) \/ SendDelivers(p) \/ SendFails(p))

Next ==
  \/ Runner
  \/ \E w \in Worker : WorkerStep(w)
  \/ \E p \in Payload : SendStep(p)
  \/ ~crashed /\ ManagerMoves
  \/ ~crashed /\ StreamDies
  \/ ~crashed /\ Cancel

Spec == Init /\ [][Next]_vars

(* Goroutines that can run are run; the server reads a stream that works;   *)
(* the end of the context ends the stream.                                  *)
Fairness ==
  /\ WF_vars(~crashed /\ (RunnerStops("select") \/ Offer))
  /\ \A w \in Worker : WF_vars(WorkerStep(w))
  /\ \A p \in Payload : WF_vars(SendStep(p))
  /\ WF_vars(~crashed /\ ctxDone /\ StreamDies)

FairSpec == Spec /\ Fairness

-----------------------------------------------------------------------------
(* Safety.                                                                  *)

(* Every payload is in one place: the queue holds exactly the queued ones,  *)
(* each once and in the order of collection, and each payload a worker has  *)
(* taken and not passed to stream.Send belongs to exactly one worker.       *)
PayloadsAccounted ==
  /\ {queue[i] : i \in 1..Len(queue)} = PayloadsIn({"queued"})
  /\ \A i, j \in 1..Len(queue) : i < j => queue[i] < queue[j]
  /\ \A p \in PayloadsIn({"held"}) :
       \E w \in Worker : item[w] = p /\ wpc[w] = "held"
  /\ \A v, w \in Worker : item[v] = item[w] /\ item[v] # 0 => v = w

(* The process and log senders write as many payloads at a time as they     *)
(* have workers: a payload inside stream.Send has a worker waiting for it.  *)
(* (SendMetrics leaves goroutines behind, so metrics have no such bound.)   *)
NoOrphanSend ==
  kind # "metric" =>
    \A p \in PayloadsIn(InFlight) :
      \E w \in Worker : item[w] = p /\ wpc[w] = "await"

(* A stream that is cleared costs at most one refused payload per worker:   *)
(* those that had looked at s.stream before.  The others stay queued.       *)
RefusedBounded ==
  Cardinality(PayloadsIn({"refused"})) <= clears * Cardinality(Worker)

(* The pipeline is a lossy channel; it keeps the order of collection when   *)
(* one worker sends process or log payloads.                                *)
Channel == INSTANCE LossyChannel WITH
             ordered <- kind # "metric" /\ Cardinality(Worker) = 1,
             pending <- PayloadsIn({"queued", "held"} \cup InFlight),
             out <- received

IsLossyChannel == Channel!ChannelSpec

-----------------------------------------------------------------------------
(* Liveness.                                                                *)

(* After the context is cancelled all workers leave, wherever they were, so *)
(* that wg.Wait in Close returns.                                           *)
WorkersExit ==
  ctxDone ~> (crashed \/ \A w \in Worker : wpc[w] = "exit")

(* While the stream works, what is queued is taken in hand.                 *)
QueueDrains ==
  <>[](cell[kind] = "live" /\ ~ctxDone)
    => \A p \in Payload : (phase[p] = "queued") ~> (phase[p] # "queued")

-----------------------------------------------------------------------------
(* What the repository says and the code does not do.                       *)

(* processsender.go:139 "if stream is down, returns Unavailable" and        *)
(* metricsender/sender.go:138 "If no stream, returns Unavailable": a Send   *)
(* function never fails in a harder way for want of a stream.               *)
NoPanic == ~crashed
=============================================================================
