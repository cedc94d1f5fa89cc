--------------------------- MODULE AgentLifecycle ---------------------------
(***************************************************************************)
(* From main to the end of Agent.Close: cmd/main.go, internal/agent/       *)
(* agent.go, the Run loops of the metric and process runners as far as     *)
(* shutdown sees them, and the Close functions of their senders.           *)
(*                                                                         *)
(* NewAgent starts the connection managers of the metric, process and log  *)
(* senders, which never stop; Start starts the metric and the process      *)
(* runner (the log runner is commented out), each of which launches its    *)
(* worker pool in a further goroutine.  A signal cancels the context.      *)
(* From then on three things run side by side: Agent.Close in the main     *)
(* goroutine, the deferred MetricSender.Close of MetricRunner.Run, and the *)
(* workers on their way out.                                               *)
(*                                                                         *)
(* The shared ClientConn is abstracted from GrpcConn to whether it is open *)
(* and whether the metric and the process sender hold the current one (the *)
(* log sender dials too, but nobody closes its handle); the workers from   *)
(* WorkerPool to whether they may still send, and the writes SendMetrics   *)
(* leaves behind to whether there is one.                                  *)
(***************************************************************************)
EXTENDS Naturals, FiniteSets

CONSTANTS
  M, P, L,   \* the metric, process and log senders
  PoolSize   \* workers of each pool

ASSUME SendersDistinct == Cardinality({M, P, L}) = 3
ASSUME PoolSizeAssumption == PoolSize \in Nat

Senders == {M, P, L}
Pools == {M, P}

VARIABLES
  main,      \* where the main goroutine is
  ctxDone,   \* the root context is cancelled
  run,       \* run[s]: where the Run goroutine of the runner of s is
  spawned,   \* spawned[s]: workers StartWorkerPool has started
  worker,    \* worker[s][i]: where the worker is
  abandoned, \* senders with a write still in stream.Send that Send has left
  shared,    \* the singleton ClientConn: "none", "open" or "closed"
  cc,        \* cc[s]: s.cc is "nil", the "current" ClientConn or a "stale" one
  panicked   \* a nil *grpc.ClientConn was dereferenced

poolVars == <<spawned, worker, abandoned>>
vars == <<main, ctxDone, run, poolVars, shared, cc, panicked>>

(* sync.WaitGroup of sender s: wg.Add(1) precedes the start of each worker, *)
(* wg.Done is the last thing it does.                                       *)
wg(s) == Cardinality({i \in 1..PoolSize :
                        worker[s][i] \in {"check", "ready", "sending"}})

TypeOK ==
  /\ main \in {"setup", "start", "serve", "waitM", "closeM", "waitP",
               "closeP", "closeConn", "exit"}
  /\ ctxDone \in BOOLEAN
  /\ run \in [Pools -> {"no", "loop", "wait", "close", "done"}]
  /\ spawned \in [Pools -> 0..PoolSize]
  /\ worker \in [Pools -> [1..PoolSize ->
                   {"unborn", "check", "ready", "sending", "gone"}]]
  /\ abandoned \subseteq Pools
  /\ shared \in {"none", "open", "closed"}
  /\ cc \in [Pools -> {"nil", "current", "stale"}]
  /\ panicked \in BOOLEAN

Init ==
  /\ main = "setup"
  /\ ctxDone = FALSE
  /\ run = [s \in Pools |-> "no"]
  /\ spawned = [s \in Pools |-> 0]
  /\ worker = [s \in Pools |-> [i \in 1..PoolSize |-> "unborn"]]
  /\ abandoned = {}
  /\ shared = "none"
  /\ cc = [s \in Pools |-> "nil"]
  /\ panicked = FALSE

-----------------------------------------------------------------------------
(* The main goroutine.                                                      *)

MainGoes(from, to) == main = from /\ main' = to

(* NewAgent: the three runners, and with them the three managers.           *)
NewAgent ==
  /\ MainGoes("setup", "start")
  /\ UNCHANGED <<ctxDone, run, poolVars, shared, cc, panicked>>

Start ==
  /\ MainGoes("start", "serve")
  /\ run' = [s \in Pools |-> "loop"]
  /\ UNCHANGED <<ctxDone, poolVars, shared, cc, panicked>>

(* <-ctx.Done(), then agent.Close().                                        *)
MainCloses ==
  /\ MainGoes("serve", "waitM")
  /\ ctxDone
  /\ UNCHANGED <<ctxDone, run, poolVars, shared, cc, panicked>>

(* Mutant of WaitReturns: Close does not wait.                              *)
WaitReturns_AtOnce(s) == TRUE

(* s.wg.Wait()                                                              *)
WaitReturns(s) == wg(s) = 0

(* return s.cc.Close(), for a sender whose cc is not nil.                   *)
CloseCC(s) ==
  /\ cc[s] # "nil"
  /\ shared' = IF cc[s] = "current" THEN "closed" ELSE shared
  /\ UNCHANGED <<cc, panicked>>

(* MetricSender.Close does not look whether s.cc is nil.                    *)
CloseMetricCC ==
  \/ CloseCC(M)
  \/ cc[M] = "nil" /\ panicked' = TRUE /\ UNCHANGED <<shared, cc>>

(* ProcessSender.Close does.                                                *)
CloseProcessCC ==
  \/ CloseCC(P)
  \/ cc[P] = "nil" /\ UNCHANGED <<shared, cc, panicked>>

MainWaits(s, from, to) ==
  /\ MainGoes(from, to)
  /\ WaitReturns(s)
  /\ UNCHANGED <<ctxDone, run, poolVars, shared, cc, panicked>>

CloseMetricRunner ==
  \/ MainWaits(M, "waitM", "closeM")
  \/ /\ MainGoes("closeM", "waitP")
     /\ CloseMetricCC
     /\ UNCHANGED <<ctxDone, run, poolVars>>

CloseProcessRunner ==
  \/ MainWaits(P, "waitP", "closeP")
  \/ /\ MainGoes("closeP", "closeConn")
     /\ CloseProcessCC
     /\ UNCHANGED <<ctxDone, run, poolVars>>

(* grpcconn.CloseGRPCConn()                                                 *)
ForgetConn ==
  /\ shared' = "none"
  /\ cc' = [s \in Pools |-> IF cc[s] = "nil" THEN "nil" ELSE "stale"]

(* The last thing Agent.Close does; main returns and the process ends.      *)
CloseConn ==
  /\ MainGoes("closeConn", "exit")
  /\ ForgetConn
  /\ UNCHANGED <<ctxDone, run, poolVars, panicked>>

-----------------------------------------------------------------------------
(* The runners.                                                             *)

RunGoes(s, from, to) == run[s] = from /\ run' = [run EXCEPT ![s] = to]

(* MetricRunner.Run: case <-ctx.Done(), and the deferred Close.             *)
MetricRunLeaves ==
  /\ RunGoes(M, "loop", "wait")
  /\ ctxDone
  /\ UNCHANGED <<main, ctxDone, poolVars, shared, cc, panicked>>

MetricRunWaits ==
  /\ RunGoes(M, "wait", "close")
  /\ WaitReturns(M)
  /\ UNCHANGED <<main, ctxDone, poolVars, shared, cc, panicked>>

MetricRunCloses ==
  /\ RunGoes(M, "close", "done")
  /\ CloseMetricCC
  /\ UNCHANGED <<main, ctxDone, poolVars>>

(* ProcessRunner.Run just returns.                                          *)
ProcessRunLeaves ==
  /\ RunGoes(P, "loop", "done")
  /\ ctxDone
  /\ UNCHANGED <<main, ctxDone, poolVars, shared, cc, panicked>>

-----------------------------------------------------------------------------
(* StartWorkerPool, a goroutine of its own, and the workers.                *)

(* Mutant of Spawn: one worker too many.                                    *)
Spawn_OneMore(s) ==
  /\ run[s] # "no"
  /\ spawned[s] <= PoolSize
  /\ spawned' = [spawned EXCEPT ![s] = @ + 1]
  /\ UNCHANGED <<main, ctxDone, run, worker, abandoned, shared, cc, panicked>>

Spawn(s) ==
  /\ run[s] # "no"
  /\ spawned[s] < PoolSize
  /\ spawned' = [spawned EXCEPT ![s] = @ + 1]
  /\ worker' = [worker EXCEPT ![s][spawned[s] + 1] = "check"]
  /\ UNCHANGED <<main, ctxDone, run, abandoned, shared, cc, panicked>>

WorkerGoes(s, i, from, to) ==
  /\ worker[s][i] = from
  /\ worker' = [worker EXCEPT ![s][i] = to]
  /\ UNCHANGED <<main, ctxDone, run, spawned, shared, cc, panicked>>

(* The poll of the context at the top of the worker's loop.                 *)
WorkerPolls(s, i) ==
  /\ WorkerGoes(s, i, "check", IF ctxDone THEN "gone" ELSE "ready")
  /\ UNCHANGED abandoned

(* Wait for a payload: one may be taken even when the context is done.      *)
WorkerSends(s, i) ==
  /\ WorkerGoes(s, i, "ready", "sending")
  /\ UNCHANGED abandoned

(* Mutant of WorkerQuits: only a payload ends the wait.                     *)
WorkerQuits_Never(s, i) == FALSE

WorkerQuits(s, i) ==
  /\ ctxDone
  /\ WorkerGoes(s, i, "ready", "gone")
  /\ UNCHANGED abandoned

(* stream.Send has returned.                                                *)
WorkerSent(s, i) ==
  /\ WorkerGoes(s, i, "sending", "check")
  /\ UNCHANGED abandoned

(* SendMetrics returns after 5 seconds, or when the context is done; the    *)
(* goroutine it has started stays inside stream.Send.                       *)
WorkerGivesUp(s, i) ==
  /\ s = M
  /\ WorkerGoes(s, i, "sending", "check")
  /\ abandoned' = abandoned \cup {s}

(* The last of the writes that were left behind returns.                    *)
AbandonedEnds(s) ==
  /\ s \in abandoned
  /\ abandoned' = abandoned \ {s}
  /\ UNCHANGED <<main, ctxDone, run, spawned, worker, shared, cc, panicked>>

-----------------------------------------------------------------------------
(* The managers, which dial for as long as the process lives, and the       *)
(* signal handler.                                                          *)

(* GetGRPCConn for s: the open ClientConn when it is usable, or a new one,  *)
(* which leaves the other senders with a stale handle.  (A failed dial      *)
(* changes nothing here.)                                                   *)
Dial(s) ==
  /\ main # "setup"
  /\ shared' = "open"
  /\ \/ /\ shared = "open"
        /\ cc' = [t \in Pools |-> IF t = s THEN "current" ELSE cc[t]]
     \/ cc' = [t \in Pools |-> IF t = s THEN "current"
                              ELSE IF cc[t] = "nil" THEN "nil" ELSE "stale"]
  /\ UNCHANGED <<main, ctxDone, run, poolVars, panicked>>

(* The metric manager closes the connection while the agent runs: its own   *)
(* handle in reconnectStream, the singleton in PauseConnections.            *)
ManagerCloses ==
  /\ cc[M] # "nil"
  /\ \/ CloseCC(M)
     \/ ForgetConn /\ UNCHANGED panicked
  /\ UNCHANGED <<main, ctxDone, run, poolVars>>

Signal ==
  /\ ~ctxDone
  /\ ctxDone' = TRUE
  /\ UNCHANGED <<main, run, poolVars, shared, cc, panicked>>

-----------------------------------------------------------------------------
Alive == main # "exit" /\ ~panicked

Main ==
  /\ Alive
  /\ \/ NewAgent \/ Start \/ MainCloses
     \/ CloseMetricRunner \/ CloseProcessRunner \/ CloseConn

Runs ==
  /\ Alive
  /\ MetricRunLeaves \/ MetricRunWaits \/ MetricRunCloses \/ ProcessRunLeaves

PoolStep(s) == Alive /\ Spawn(s)

WorkerStep(s, i) ==
  /\ Alive
  /\ \/ WorkerPolls(s, i) \/ WorkerQuits(s, i)
     \/ WorkerSent(s, i) \/ WorkerGivesUp(s, i)

Next ==
  \/ Main
  \/ Runs
  \/ \E s \in Pools : PoolStep(s)
  \/ \E s \in Pools, i \in 1..PoolSize : WorkerStep(s, i)
  \/ \E s \in Pools, i \in 1..PoolSize : Alive /\ WorkerSends(s, i)
  \/ \E s \in Pools : Alive /\ AbandonedEnds(s)
  \/ \E s \in Senders : Alive /\ Dial(s)
  \/ Alive /\ ManagerCloses
  \/ Alive /\ Signal

Spec == Init /\ [][Next]_vars

(* Goroutines that can run are run.  A Send returns, since the context ends *)
(* the stream it writes to; that a payload arrives is not assumed.          *)
Fairness ==
  /\ WF_vars(Main)
  /\ WF_vars(Runs)
  /\ \A s \in Pools : WF_vars(PoolStep(s))
  /\ \A s \in Pools, i \in 1..PoolSize : WF_vars(WorkerStep(s, i))

FairSpec == Spec /\ Fairness

-----------------------------------------------------------------------------
Waited(s) ==
  \/ s = M /\ run[M] \in {"close", "done"}
  \/ s = M /\ main \in {"closeM", "waitP", "closeP", "closeConn", "exit"}
  \/ s = P /\ main \in {"closeP", "closeConn", "exit"}

(* What may still be written to a stream of s: by a worker that has yet to  *)
(* send or is in stream.Send, or by a goroutine that SendMetrics has left.  *)
MayWrite(s) ==
  \/ \E i \in 1..PoolSize : worker[s][i] \in {"ready", "sending"}
  \/ s \in abandoned

WorkersDone ==
  \A s \in Pools : Waited(s) =>
    \A i \in 1..PoolSize : worker[s][i] \notin {"ready", "sending"}

(* What Close waits for and what it does not.  Past wg.Wait no worker of    *)
(* the pool sends or will send again.  Close may well run before            *)
(* StartWorkerPool has called wg.Add; what saves it is that the context is  *)
(* done by then, so that late workers leave at their first poll.  Of the    *)
(* process sender nothing at all is written then; of the metric sender a    *)
(* write may be that SendMetrics gave up, for which nobody waits.           *)
NoSendAfterWait ==
  /\ WorkersDone
  /\ Waited(P) => ~MayWrite(P)

(* After the signal the process ends.                                       *)
ShutdownEnds == ctxDone ~> ~Alive
=============================================================================
