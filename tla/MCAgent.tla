------------------------------- MODULE MCAgent -------------------------------
(***************************************************************************)
(* What main does, in three parts that share no state: the configuration   *)
(* (LoadAgentConfig), the identity (LoadOrCreateAgentID), and the life of  *)
(* the agent from NewAgent to the end.  `part' chooses one.                *)
(***************************************************************************)
EXTENDS AgentLifecycle, AgentIdentity, ConfigLayers

VARIABLE part

(* A process that has ended: no part of the lifecycle goes on.              *)
LifeIdle ==
  /\ main = "exit"
  /\ ctxDone = FALSE
  /\ run = [s \in Pools |-> "no"]
  /\ spawned = [s \in Pools |-> 0]
  /\ worker = [s \in Pools |-> [i \in 1..PoolSize |-> "unborn"]]
  /\ abandoned = {}
  /\ shared = "none"
  /\ cc = [s \in Pools |-> "nil"]
  /\ panicked = FALSE

ConfigIdle == ConfigInit /\ configFile = "absent"

MCInit ==
  /\ IdInit
  /\ \/ part = "life" /\ Init /\ ConfigIdle
     \/ part = "identity" /\ LifeIdle /\ ConfigIdle
     \/ part = "config" /\ LifeIdle /\ ConfigInit

MCNext ==
  \/ part = "life" /\ Next /\ UNCHANGED <<part, idVars, configVars>>
  \/ part = "identity" /\ IdNext /\ UNCHANGED <<part, vars, configVars>>
  \/ part = "config" /\ ConfigNext /\ UNCHANGED <<part, vars, idVars>>

(* Only the lifecycle has a liveness property, under its own fairness.      *)
MCSpec == MCInit /\ [][MCNext]_<<part, vars, idVars, configVars>> /\ Fairness

MCTypeOK == TypeOK /\ IdTypeOK /\ ConfigTypeOK
=============================================================================
