----------------------------- MODULE AgentProofs -----------------------------
(***************************************************************************)
(* The agent: that no worker sends once Close has waited for it, for any   *)
(* number of workers; the identity, for any number of agents and of        *)
(* starts; the configuration; and all three parts together, as the module  *)
(* MCAgent puts them beside one another.                                   *)
(*                                                                         *)
(* NoSendAfterWait alone is not inductive: a worker that StartWorkerPool   *)
(* starts after the wait could go on to send.  It does not since the       *)
(* context is done whenever anybody waits, which LifeInv adds, and that    *)
(* only SendMetrics leaves a write behind.                                 *)
(*                                                                         *)
(* IdentityStable is not inductive: LoadsId and SavesId could add another  *)
(* id.  IdInv says besides that an agent which makes an id is alone in     *)
(* this, on a host where no id is in use or in the file.                   *)
(*                                                                         *)
(* Precedence speaks of the settings when all layers have had their turn:  *)
(* ConfigInv says what they are after each.                                *)
(***************************************************************************)
EXTENDS MCAgent, FiniteSetTheorems, TLAPS

(* The lifecycle.  Whoever waits, or is past it, does so after the end of   *)
(* the context.                                                             *)
Stopping ==
  \/ run[M] \in {"wait", "close", "done"}
  \/ run[P] = "done"
  \/ main \in {"waitM", "closeM", "waitP", "closeP", "closeConn", "exit"}

LifeInv ==
  /\ TypeOK
  /\ WorkersDone
  /\ P \notin abandoned
  /\ Stopping => ctxDone

-----------------------------------------------------------------------------
(* The metric and the process sender are two.                               *)
LEMMA MetricNotProcess == M # P
<1> SUFFICES ASSUME M = P PROVE FALSE
  OBVIOUS
<1>1. {M, P, L} = {M} \cup {L}
  OBVIOUS
<1>2. IsFiniteSet({M}) /\ Cardinality({M}) = 1
  BY FS_Singleton
<1>3. Cardinality({M} \cup {L}) <= 2
  BY <1>2, FS_AddElement
<1> QED
  BY <1>1, <1>3, SendersDistinct

(* wg.Wait returns only when no worker is at work.                          *)
LEMMA WaitMeansIdle ==
  ASSUME NEW s \in Pools, WaitReturns(s)
  PROVE  \A i \in 1..PoolSize :
           worker[s][i] \notin {"check", "ready", "sending"}
<1> DEFINE Busy == {i \in 1..PoolSize :
                      worker[s][i] \in {"check", "ready", "sending"}}
<1>1. IsFiniteSet(1..PoolSize)
  BY PoolSizeAssumption, FS_Interval
<1>2. IsFiniteSet(Busy)
  BY <1>1, FS_Subset
<1>3. Cardinality(Busy) = 0
  BY DEF WaitReturns, wg
<1>4. Busy = {}
  BY <1>2, <1>3, FS_EmptySet
<1> QED
  BY <1>4

(* LifeInv holds when main has created the agent.                           *)
LEMMA InitLifeInv == Init => LifeInv
<1> SUFFICES ASSUME Init PROVE LifeInv
  OBVIOUS
<1>1. 0 \in 0..PoolSize
  BY PoolSizeAssumption
<1>2. TypeOK
  BY <1>1 DEF Init, TypeOK
<1> QED
  BY <1>2 DEF Init, LifeInv, WorkersDone, Waited, Stopping, Pools

(* Closing a handle, or forgetting the singleton, keeps its types.          *)
LEMMA ClosesTyped ==
  ASSUME TypeOK,
         CloseMetricCC \/ CloseProcessCC \/ (ForgetConn /\ UNCHANGED panicked)
  PROVE  /\ shared' \in {"none", "open", "closed"}
         /\ cc' \in [Pools -> {"nil", "current", "stale"}]
         /\ panicked' \in BOOLEAN
<1>1. CASE CloseMetricCC
  BY <1>1 DEF CloseMetricCC, CloseCC, TypeOK
<1>2. CASE CloseProcessCC
  BY <1>2 DEF CloseProcessCC, CloseCC, TypeOK
<1>3. CASE ForgetConn /\ UNCHANGED panicked
  BY <1>3 DEF ForgetConn, TypeOK
<1> QED
  BY <1>1, <1>2, <1>3

(* A step of a worker: with the context done, only one that is ready, which *)
(* nobody has waited for, can come to send, and only metric workers leave a *)
(* write behind.                                                            *)
LEMMA WorkerMoves ==
  ASSUME NEW s \in Pools, NEW i \in 1..PoolSize,
         WorkerStep(s, i) \/ WorkerSends(s, i)
  PROVE  \E to \in {"check", "ready", "sending", "gone"} :
           /\ worker' = [worker EXCEPT ![s][i] = to]
           /\ to \in {"ready", "sending"} => ~ctxDone \/ worker[s][i] = "ready"
           /\ abandoned' = abandoned \/ abandoned' = abandoned \cup {M}
           /\ UNCHANGED <<main, ctxDone, run, spawned, shared, cc, panicked>>
<1>1. CASE WorkerPolls(s, i)
  BY <1>1 DEF WorkerPolls, WorkerGoes
<1>2. CASE WorkerQuits(s, i) \/ WorkerSent(s, i) \/ WorkerSends(s, i)
  BY <1>2 DEF WorkerQuits, WorkerSent, WorkerSends, WorkerGoes
<1>3. CASE WorkerGivesUp(s, i)
  BY <1>3 DEF WorkerGivesUp, WorkerGoes
<1> QED
  BY <1>1, <1>2, <1>3 DEF WorkerStep

(* Each step keeps the types.                                               *)
LEMMA NextLifeType == TypeOK /\ [Next]_vars => TypeOK'
<1> SUFFICES ASSUME TypeOK, [Next]_vars PROVE TypeOK'
  OBVIOUS
<1>1. CASE UNCHANGED vars
  BY <1>1 DEF vars, poolVars, TypeOK
<1>2. CASE Main
  <2>1. CASE NewAgent \/ Start \/ MainCloses
    BY <2>1 DEF NewAgent, Start, MainCloses, MainGoes, TypeOK, poolVars
  <2>2. CASE CloseMetricRunner
    BY <2>2, ClosesTyped
    DEF CloseMetricRunner, MainWaits, MainGoes, TypeOK, poolVars
  <2>3. CASE CloseProcessRunner
    BY <2>3, ClosesTyped
    DEF CloseProcessRunner, MainWaits, MainGoes, TypeOK, poolVars
  <2>4. CASE CloseConn
    BY <2>4, ClosesTyped DEF CloseConn, MainGoes, TypeOK, poolVars
  <2> QED
    BY <1>2, <2>1, <2>2, <2>3, <2>4 DEF Main
<1>3. CASE Runs
  <2>1. CASE MetricRunLeaves \/ MetricRunWaits \/ ProcessRunLeaves
    BY <2>1 DEF MetricRunLeaves, MetricRunWaits, ProcessRunLeaves, RunGoes,
      TypeOK, poolVars
  <2>2. CASE MetricRunCloses
    BY <2>2, ClosesTyped DEF MetricRunCloses, RunGoes, TypeOK, poolVars
  <2> QED
    BY <1>3, <2>1, <2>2 DEF Runs
<1>4. ASSUME NEW s \in Pools, PoolStep(s) PROVE TypeOK'
  <2>1. spawned[s] + 1 \in 1..PoolSize
    BY <1>4, PoolSizeAssumption DEF PoolStep, Spawn, TypeOK
  <2>2. spawned' \in [Pools -> 0..PoolSize]
    BY <1>4, <2>1 DEF PoolStep, Spawn, TypeOK
  <2> QED
    BY <1>4, <2>1, <2>2 DEF PoolStep, Spawn, TypeOK
<1>5. ASSUME NEW s \in Pools, NEW i \in 1..PoolSize,
             WorkerStep(s, i) \/ WorkerSends(s, i)
      PROVE  TypeOK'
  <2>1. PICK to \in {"check", "ready", "sending", "gone"} :
          /\ worker' = [worker EXCEPT ![s][i] = to]
          /\ abandoned' = abandoned \/ abandoned' = abandoned \cup {M}
          /\ UNCHANGED <<main, ctxDone, run, spawned, shared, cc, panicked>>
    BY <1>5, WorkerMoves
  <2>2. worker' \in [Pools -> [1..PoolSize ->
                      {"unborn", "check", "ready", "sending", "gone"}]]
    BY <2>1 DEF TypeOK
  <2> QED
    BY <2>1, <2>2 DEF TypeOK, Pools
<1>6. ASSUME NEW s \in Senders, Dial(s) PROVE TypeOK'
  BY <1>6 DEF Dial, TypeOK, poolVars
<1>7. CASE ManagerCloses
  <2>1. CASE CloseCC(M)
    BY <1>7, <2>1, ClosesTyped DEF ManagerCloses, CloseMetricCC, TypeOK, poolVars
  <2>2. CASE ForgetConn /\ UNCHANGED panicked
    BY <1>7, <2>2, ClosesTyped DEF ManagerCloses, TypeOK, poolVars
  <2> QED
    BY <1>7, <2>1, <2>2 DEF ManagerCloses
<1>8. CASE Signal \/ \E s \in Pools : AbandonedEnds(s)
  BY <1>8 DEF Signal, AbandonedEnds, TypeOK, poolVars
<1> QED
  BY <1>1, <1>2, <1>3, <1>4, <1>5, <1>6, <1>7, <1>8 DEF Next

(* Each step keeps the rest of the invariant: whoever waits does so after   *)
(* the end of the context, and finds no worker at work.                     *)
LEMMA NextLifeInv == LifeInv /\ [Next]_vars => LifeInv'
<1> SUFFICES ASSUME LifeInv, [Next]_vars PROVE LifeInv'
  OBVIOUS
<1>1. TypeOK /\ TypeOK'
  BY NextLifeType DEF LifeInv
<1>2. M \in Pools /\ P \in Pools /\ M # P
  BY MetricNotProcess DEF Pools
<1>3. CASE UNCHANGED vars
  BY <1>1, <1>3 DEF vars, poolVars, LifeInv, WorkersDone, Waited,
    Stopping
<1>4. CASE Main
  <2>1. (Stopping => ctxDone)'
    BY <1>1, <1>4 DEF Main, NewAgent, Start, MainCloses, CloseMetricRunner,
      CloseProcessRunner, MainWaits, CloseConn, MainGoes, Stopping, LifeInv,
      TypeOK, Pools
  <2>2. worker' = worker /\ abandoned' = abandoned
    BY <1>4 DEF Main, NewAgent, Start, MainCloses, CloseMetricRunner,
      CloseProcessRunner, MainWaits, CloseConn, poolVars
  <2>3. ASSUME NEW s \in Pools, Waited(s)' PROVE Waited(s) \/ WaitReturns(s)
    BY <1>1, <1>4, <2>3 DEF Main, NewAgent, Start, MainCloses,
      CloseMetricRunner, CloseProcessRunner, MainWaits, CloseConn, MainGoes,
      Waited, TypeOK, Pools
  <2>4. WorkersDone'
    BY <2>2, <2>3, WaitMeansIdle DEF LifeInv, WorkersDone
  <2> QED
    BY <1>1, <2>1, <2>2, <2>4 DEF LifeInv
<1>5. CASE Runs
  <2>1. (Stopping => ctxDone)'
    BY <1>1, <1>5 DEF Runs, MetricRunLeaves, MetricRunWaits, MetricRunCloses,
      ProcessRunLeaves, RunGoes, Stopping, LifeInv, TypeOK, Pools
  <2>2. worker' = worker /\ abandoned' = abandoned
    BY <1>5 DEF Runs, MetricRunLeaves, MetricRunWaits, MetricRunCloses,
      ProcessRunLeaves, poolVars
  <2>3. ASSUME NEW s \in Pools, Waited(s)' PROVE Waited(s) \/ WaitReturns(s)
    BY <1>1, <1>2, <1>5, <2>3 DEF Runs, MetricRunLeaves,
      MetricRunWaits, MetricRunCloses, ProcessRunLeaves, RunGoes, Waited,
      TypeOK
  <2>4. WorkersDone'
    BY <2>2, <2>3, WaitMeansIdle DEF LifeInv, WorkersDone
  <2> QED
    BY <1>1, <2>1, <2>2, <2>4 DEF LifeInv
<1>6. ASSUME NEW s \in Pools, PoolStep(s) PROVE LifeInv'
  BY <1>1, <1>6 DEF PoolStep, Spawn, LifeInv, WorkersDone,
    Waited, Stopping, TypeOK
<1>7. ASSUME NEW s \in Pools, NEW i \in 1..PoolSize,
             WorkerStep(s, i) \/ WorkerSends(s, i)
      PROVE  LifeInv'
  <2>1. PICK to \in {"check", "ready", "sending", "gone"} :
          /\ worker' = [worker EXCEPT ![s][i] = to]
          /\ to \in {"ready", "sending"} => ~ctxDone \/ worker[s][i] = "ready"
          /\ abandoned' = abandoned \/ abandoned' = abandoned \cup {M}
          /\ UNCHANGED <<main, ctxDone, run, spawned, shared, cc, panicked>>
    BY <1>7, WorkerMoves
  <2>2. Waited(s) => ctxDone
    BY MetricNotProcess DEF Waited, Stopping, LifeInv
  <2>3. Waited(s) => to \notin {"ready", "sending"}
    BY <2>1, <2>2 DEF LifeInv, WorkersDone
  <2>4. WorkersDone'
    BY <1>1, <2>1, <2>3 DEF LifeInv, WorkersDone, Waited, TypeOK
  <2>5. (P \notin abandoned)'
    BY <1>2, <2>1 DEF LifeInv
  <2> QED
    BY <1>1, <2>1, <2>4, <2>5 DEF LifeInv, Stopping
<1>8. CASE \/ ManagerCloses \/ Signal
           \/ \E s \in Senders : Dial(s)
           \/ \E s \in Pools : AbandonedEnds(s)
  BY <1>1, <1>8 DEF ManagerCloses, Signal, Dial, AbandonedEnds, LifeInv,
    WorkersDone, Waited, Stopping, poolVars
<1> QED
  BY <1>3, <1>4, <1>5, <1>6, <1>7, <1>8 DEF Next

(* The invariant holds in every reachable state.                            *)
THEOREM LifeInvariance == Spec => []LifeInv
BY InitLifeInv, NextLifeInv, PTL DEF Spec

(* The state is well typed for any number of workers.                       *)
THEOREM LifeTypeCorrect == Spec => []TypeOK
<1>1. LifeInv => TypeOK
  BY DEF LifeInv
<1> QED
  BY <1>1, LifeInvariance, PTL

(* The invariant says so, as the process sender leaves no write behind.     *)
LEMMA NoneSends == LifeInv => NoSendAfterWait
BY DEF LifeInv, NoSendAfterWait, WorkersDone, MayWrite, Pools

(* When Close is past wg.Wait no worker sends or will send again, although  *)
(* Close may run before the workers have been started; and nothing at all   *)
(* is written for the process sender any more.                              *)
THEOREM NoneSendsAfterWait == Spec => []NoSendAfterWait
<1>1. LifeInv => NoSendAfterWait
  BY NoneSends
<1> QED
  BY <1>1, LifeInvariance, PTL

-----------------------------------------------------------------------------
(* The identity.  Nobody uses another id than that of the file ...          *)
InUse == \A i \in used : i = idFile /\ HasId(idFile)

(* ... and an agent that makes one is alone in this.                        *)
Alone(a) == Creating(a) =>
  ~HasId(idFile) /\ \A b \in Agent : Creating(b) => b = a

IdInv ==
  /\ IdTypeOK
  /\ \A a \in Agent : Creating(a) => id[a] \in Ids
  /\ ~spoiled => InUse /\ \A a \in Agent : Alone(a)

-----------------------------------------------------------------------------
(* The agents start with nothing made and nothing in use.                   *)
LEMMA InitIdInv == IdInit => IdInv
<1> SUFFICES ASSUME IdInit PROVE IdInv
  OBVIOUS
<1>1. IdTypeOK
  <2>1. at \in [Agent -> {"off", "read", "create", "write", "up"}]
    BY DEF IdInit
  <2>2. id \in [Agent -> Nat] /\ idFile \in Nat
    BY DEF IdInit, Absent, Empty
  <2>3. uuids \in 0..MaxIds
    BY MaxIdsAssumption DEF IdInit
  <2> QED
    BY <2>1, <2>2, <2>3 DEF IdInit, IdTypeOK
<1>2. \A a \in Agent : ~Creating(a)
  BY DEF IdInit, Creating
<1> QED
  BY <1>1, <1>2 DEF IdInit, IdInv, InUse, Alone

(* Each step keeps the invariant.                                           *)
LEMMA NextIdInv == IdInv /\ [IdNext]_idVars => IdInv'
<1> SUFFICES ASSUME IdInv, [IdNext]_idVars PROVE IdInv'
  OBVIOUS
<1> USE DEF IdInv, IdTypeOK, AgentGoes
<1>1. CASE UNCHANGED idVars
  BY <1>1 DEF idVars, InUse, Alone, Creating, HasId
<1>2. ASSUME NEW a \in Agent, AgentStarts(a) PROVE IdInv'
  BY <1>2 DEF AgentStarts, InUse, Alone, Creating, HasId
<1>3. ASSUME NEW a \in Agent, LoadsId(a) PROVE IdInv'
  BY <1>3 DEF LoadsId, InUse, Alone, Creating, HasId, Ids
<1>4. ASSUME NEW a \in Agent, MakesId(a) PROVE IdInv'
  <2>1. spoiled' \in BOOLEAN
    BY <1>4 DEF MakesId
  <2>2. /\ at' \in [Agent -> {"off", "read", "create", "write", "up"}]
        /\ uuids' \in 0..MaxIds /\ id' \in [Agent -> Nat]
        /\ \A b \in Agent : Creating(b)' => id'[b] \in Ids
    BY <1>4, MaxIdsAssumption
    DEF MakesId, Creating, Ids, FirstId, Absent, Empty
  <2>3. ASSUME ~spoiled'
        PROVE  /\ ~spoiled /\ ~HasId(idFile)
               /\ \A b \in Agent \ {a} : ~Creating(b)
    BY <1>4, <2>3 DEF MakesId
  <2>4. ASSUME ~spoiled' PROVE InUse' /\ \A b \in Agent : Alone(b)'
    BY <1>4, <2>3, <2>4 DEF MakesId, InUse, Alone, Creating, HasId
  <2> QED
    BY <1>4, <2>1, <2>2, <2>4 DEF MakesId
<1>5. ASSUME NEW a \in Agent, SaveFails(a) PROVE IdInv'
  BY <1>5 DEF SaveFails, InUse, Alone, Creating, HasId, Ids
<1>6. ASSUME NEW a \in Agent, Truncates(a) PROVE IdInv'
  BY <1>6 DEF Truncates, InUse, Alone, Creating, HasId, Ids, Empty
<1>7. ASSUME NEW a \in Agent, SavesId(a) PROVE IdInv'
  BY <1>7 DEF SavesId, InUse, Alone, Creating, HasId, Ids
<1>8. ASSUME NEW a \in Agent, AgentDies(a) PROVE IdInv'
  BY <1>8 DEF AgentDies, InUse, Alone, Creating, HasId, Ids
<1> QED
  BY <1>1, <1>2, <1>3, <1>4, <1>5, <1>6, <1>7, <1>8 DEF IdNext

(* The invariant holds in every reachable state.                            *)
THEOREM IdInvariance == IdSpec => []IdInv
BY InitIdInv, NextIdInv, PTL DEF IdSpec

(* The state is well typed, whatever agents start, fail and die.            *)
THEOREM IdTypeCorrect == IdSpec => []IdTypeOK
<1>1. IdInv => IdTypeOK
  BY DEF IdInv
<1> QED
  BY <1>1, IdInvariance, PTL

(* An id under which an agent has run is that of every later start, unless  *)
(* two starts both made an id or an id could not be read.                   *)
THEOREM IdentityIsStable == IdSpec => []IdentityStable
<1>1. IdInv => IdentityStable
  BY DEF IdInv, InUse, HasId, IdentityStable
<1> QED
  BY <1>1, IdInvariance, PTL

-----------------------------------------------------------------------------
(* The configuration.                                                       *)

(* What each layer has made of the settings when it has had its turn.       *)
FromFile(s) == IF s \in FileSets[loaded] THEN "file" ELSE "unset"
WithEnv(s) == IF s \in env THEN "env" ELSE FromFile(s)

Loaded ==
  /\ step = "env" => \A s \in Setting : cfg[s] = FromFile(s)
  /\ step = "flags" => \A s \in Setting : cfg[s] = WithEnv(s)

(* From the load on, there is something that has been loaded.               *)
HasLoaded ==
  step \in {"env", "flags", "run", "serving", "panicked"} =>
    loaded \in DOMAIN FileSets

(* The inductive invariant of the configuration.                            *)
ConfigInv ==
  /\ ConfigTypeOK /\ HasLoaded /\ Loaded
  /\ Precedence /\ ServesOnlyConfigured

(* No flag and no variable makes the intervals of the tickers.              *)
LEMMA FileOnlyIsNotLayered ==
  /\ \A s \in FileOnly : s \in Setting /\ s \notin Layered /\ s \notin Tags
                         /\ s # "access_log"
  /\ \A s \in Tags : s # "access_log"
  /\ Tags \subseteq Setting /\ "access_log" \in Setting
BY DEF FileOnly, Layered, Tags, Setting

(* Before the first start no setting is made.                               *)
LEMMA InitConfigInv == ConfigInit => ConfigInv
<1> SUFFICES ASSUME ConfigInit PROVE ConfigInv
  OBVIOUS
<1>1. ConfigTypeOK
  BY DEF ConfigInit, ConfigTypeOK, NoConfig, UserFiles, Contents, FileSets
<1> QED
  BY <1>1 DEF ConfigInit, ConfigInv, HasLoaded, Loaded, Precedence,
              ServesOnlyConfigured

(* Each step keeps the types and knows what has been loaded.                *)
LEMMA NextConfigType ==
  ConfigTypeOK /\ HasLoaded /\ [ConfigNext]_configVars =>
    ConfigTypeOK' /\ HasLoaded'
<1> SUFFICES ASSUME ConfigTypeOK, HasLoaded, [ConfigNext]_configVars
             PROVE ConfigTypeOK' /\ HasLoaded'
  OBVIOUS
<1> USE DEF ConfigTypeOK, HasLoaded, StepGoes
<1>1. CASE Launches
  BY <1>1 DEF Launches
<1>2. CASE Stats
  BY <1>2 DEF Stats
<1>3. CASE CreatesFile \/ WritesDefault
  BY <1>3 DEF CreatesFile, WritesDefault, FileSets, Contents
<1>4. CASE LoadConfig \/ LoadFails \/ ApplyEnvOverrides
  BY <1>4 DEF LoadConfig, LoadFails, ApplyEnvOverrides, Contents
<1>5. CASE ApplyFlags
  BY <1>5 DEF ApplyFlags, FlagValue
<1>6. CASE RunnersStart
  BY <1>6 DEF RunnersStart
<1>7. CASE Ends \/ UserEdits
  BY <1>7 DEF Ends, UserEdits, NoConfig, UserFiles, FileSets, Contents
<1>8. CASE UNCHANGED configVars
  BY <1>8 DEF configVars
<1> QED
  BY <1>1, <1>2, <1>3, <1>4, <1>5, <1>6, <1>7, <1>8 DEF ConfigNext

(* Flags come last, and leave alone what they do not make.                  *)
LEMMA NextPrecedence ==
  ASSUME ConfigInv, ApplyFlags PROVE Precedence'
<1> SUFFICES ASSUME NEW s \in Setting, ~(s = "access_log" /\ s \in flags)
    PROVE cfg'[s] =
      LET own == CASE s \in Tags -> flags \cap Tags # {}
                   [] s = "access_log" -> FALSE
                   [] OTHER -> s \in flags
      IN IF own THEN IF s \in flags THEN "flag" ELSE "unset" ELSE WithEnv(s)
  BY DEF Precedence, ApplyFlags, WithEnv, FromFile
<1>1. cfg'[s] = FlagValue(s) /\ cfg[s] = WithEnv(s)
  BY DEF ApplyFlags, StepGoes, ConfigInv, Loaded
<1>2. CASE s \in Tags
  <2>1. s # "access_log"
    BY <1>2, FileOnlyIsNotLayered
  <2> QED
    BY <1>1, <1>2, <2>1 DEF FlagValue
<1>3. CASE s \notin Tags
  BY <1>1, <1>3 DEF FlagValue
<1> QED
  BY <1>2, <1>3

(* Each step keeps the invariant.                                           *)
LEMMA NextConfigInv == ConfigInv /\ [ConfigNext]_configVars => ConfigInv'
<1> SUFFICES ASSUME ConfigInv, [ConfigNext]_configVars PROVE ConfigInv'
  OBVIOUS
<1>1. ConfigTypeOK' /\ HasLoaded'
  BY NextConfigType DEF ConfigInv
<1> USE DEF ConfigInv, Loaded, Precedence, ServesOnlyConfigured, StepGoes
<1>2. CASE \/ Launches \/ Stats \/ CreatesFile \/ WritesDefault
           \/ LoadFails \/ Ends
  BY <1>1, <1>2 DEF Launches, Stats, CreatesFile, WritesDefault, LoadFails, Ends
<1>3. CASE LoadConfig
  BY <1>1, <1>3 DEF LoadConfig, FromFile
<1>4. CASE ApplyEnvOverrides
  BY <1>1, <1>4 DEF ApplyEnvOverrides, FromFile, WithEnv
<1>5. CASE ApplyFlags
  <2>1. Precedence'
    BY <1>5, NextPrecedence
  <2> QED
    BY <1>1, <1>5, <2>1 DEF ApplyFlags
<1>6. CASE RunnersStart
  <2>1. UNCHANGED <<cfg, env, flags, loaded>> /\ step = "run"
        /\ step' \in {"serving", "panicked"}
    BY <1>6 DEF RunnersStart
  <2>2. Precedence'
    BY <2>1
  <2>3. ASSUME step' = "serving", NEW s \in FileOnly
        PROVE  s \in FileSets[loaded]
    <3>1. cfg[s] # "unset"
      BY <1>6, <2>3 DEF RunnersStart, TickerIntervals
    <3>2. /\ s \notin env /\ s \notin flags /\ s \notin Tags
          /\ s # "access_log" /\ s \in Setting
      BY FileOnlyIsNotLayered DEF ConfigTypeOK
    <3> QED
      BY <2>1, <3>1, <3>2
  <2>4. ServesOnlyConfigured'
    BY <2>1, <2>3 DEF FileOnly
  <2> QED
    BY <1>1, <2>1, <2>2, <2>4
<1>7. CASE UserEdits \/ UNCHANGED configVars
  BY <1>1, <1>7 DEF UserEdits, configVars, FromFile, WithEnv
<1> QED
  BY <1>2, <1>3, <1>4, <1>5, <1>6, <1>7 DEF ConfigNext

(* The invariant holds in every reachable state.                            *)
THEOREM ConfigInvariance == ConfigSpec => []ConfigInv
BY InitConfigInv, NextConfigInv, PTL DEF ConfigSpec

(* Each setting is that of the strongest layer which makes it.              *)
THEOREM StrongestLayerWins == ConfigSpec => []Precedence
<1>1. ConfigInv => Precedence
  BY DEF ConfigInv
<1> QED
  BY <1>1, ConfigInvariance, PTL

(* Only an agent whose file sets both collection intervals serves.          *)
THEOREM OnlyConfiguredServe == ConfigSpec => []ServesOnlyConfigured
<1>1. ConfigInv => ServesOnlyConfigured
  BY DEF ConfigInv
<1> QED
  BY <1>1, ConfigInvariance, PTL

-----------------------------------------------------------------------------
(* The three parts beside one another.                                      *)

(* Outside its part the lifecycle stands still, with nobody sending.        *)
MCInv ==
  /\ IdInv /\ ConfigInv
  /\ TypeOK /\ NoSendAfterWait
  /\ part = "life" => LifeInv

(* A lifecycle that does not go on is well typed, and nobody sends in it.   *)
LEMMA IdleLife == LifeIdle => TypeOK /\ NoSendAfterWait
<1> SUFFICES ASSUME LifeIdle PROVE TypeOK /\ NoSendAfterWait
  OBVIOUS
<1>1. 0 \in 0..PoolSize
  BY PoolSizeAssumption
<1>2. TypeOK
  BY <1>1 DEF LifeIdle, TypeOK
<1>3. NoSendAfterWait
  BY DEF LifeIdle, NoSendAfterWait, WorkersDone, MayWrite, Waited, Pools
<1> QED
  BY <1>2, <1>3

(* Whichever part goes on, all start well.                                  *)
LEMMA InitMCInv == MCInit => MCInv
<1> SUFFICES ASSUME MCInit PROVE MCInv
  OBVIOUS
<1>1. IdInv /\ ConfigInv
  BY InitIdInv, InitConfigInv DEF MCInit, ConfigIdle
<1>2. CASE part = "life" /\ Init
  BY <1>1, <1>2, InitLifeInv, NoneSends DEF MCInv, LifeInv
<1>3. CASE part # "life" /\ LifeIdle
  BY <1>1, <1>3, IdleLife DEF MCInv
<1> QED
  BY <1>2, <1>3 DEF MCInit

(* Each part moves by itself, the others stand still.                       *)
LEMMA NextMCInv ==
  MCInv /\ [MCNext]_<<part, vars, idVars, configVars>> => MCInv'
<1> SUFFICES ASSUME MCInv, [MCNext]_<<part, vars, idVars, configVars>>
             PROVE  MCInv'
  OBVIOUS
<1>1. [IdNext]_idVars /\ [ConfigNext]_configVars /\ UNCHANGED part
  BY DEF MCNext
<1>2. IdInv' /\ ConfigInv'
  BY <1>1, NextIdInv, NextConfigInv DEF MCInv
<1>3. CASE part = "life"
  <2>1. [Next]_vars
    BY <1>3 DEF MCNext
  <2>2. LifeInv'
    BY <1>3, <2>1, NextLifeInv DEF MCInv
  <2>3. NoSendAfterWait'
    BY <2>2 DEF LifeInv, NoSendAfterWait, WorkersDone, MayWrite, Pools
  <2> QED
    BY <1>2, <2>2, <2>3 DEF MCInv, LifeInv
<1>4. CASE part # "life"
  <2>1. UNCHANGED vars
    BY <1>4 DEF MCNext
  <2>2. TypeOK' /\ NoSendAfterWait'
    BY <2>1 DEF MCInv, vars, poolVars, TypeOK, NoSendAfterWait, WorkersDone,
      MayWrite, Waited
  <2> QED
    BY <1>1, <1>2, <1>4, <2>2 DEF MCInv
<1> QED
  BY <1>3, <1>4

(* The invariant holds in every reachable state of the composition.         *)
THEOREM MCInvariance == MCSpec => []MCInv
BY InitMCInv, NextMCInv, PTL DEF MCSpec

(* The states of the composition are well typed in all parts.               *)
THEOREM AgentTypeCorrect == MCSpec => []MCTypeOK
<1>1. MCInv => MCTypeOK
  BY DEF MCInv, MCTypeOK, IdInv, ConfigInv
<1> QED
  BY <1>1, MCInvariance, PTL
=============================================================================
