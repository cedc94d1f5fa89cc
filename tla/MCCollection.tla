----------------------------- MODULE MCCollection -----------------------------
(***************************************************************************)
(* The computations of a collection, each by itself: `part' chooses one.   *)
(***************************************************************************)
EXTENDS ContainerRates, TopProcesses, MetricBatching, TLC

VARIABLE part

(* Container and ContainerID are the same two containers.                   *)
ContainerSymmetry == Permutations(Container)

MCInit ==
  /\ Init
  /\ BatchInit
  /\ \/ part \in {"rates", "batch"} /\ TopIdle
     \/ part = "top" /\ TopInit

MCNext ==
  \/ part = "rates" /\ Next /\ UNCHANGED <<part, topVars, batchVars>>
  \/ part = "top" /\ CollectProcesses /\ UNCHANGED <<part, vars, batchVars>>
  \/ part = "batch" /\ BatchNext /\ UNCHANGED <<part, vars, topVars>>

MCSpec == MCInit /\ [][MCNext]_<<part, vars, topVars, batchVars>>

MCTypeOK == TypeOK /\ TopTypeOK /\ BatchTypeOK
=============================================================================
