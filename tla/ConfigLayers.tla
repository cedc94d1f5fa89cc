----------------------------- MODULE ConfigLayers -----------------------------
(***************************************************************************)
(* The configuration of an agent, from the file to the tickers:            *)
(* LoadAgentConfig of internal/bootstrap/config.go, EnsureDefaultConfig,   *)
(* LoadConfig and ApplyEnvOverrides of internal/config, and the NewTicker  *)
(* calls of the two runners.  The agent may be killed at any step and      *)
(* start again with other flags and another environment.                   *)
(*                                                                         *)
(* What a setting is set to is abstracted to the layer it comes from; a    *)
(* malformed interval in the environment is ignored and counts as not set. *)
(* The user may put a file in place, or take it away, at any time: each of *)
(* the calls on the file finds what is there then.                         *)
(***************************************************************************)
EXTENDS Naturals, FiniteSets

VARIABLES
  step,        \* where the start of the agent is
  configFile,  \* what is in the configuration file
  cfg,         \* cfg[s]: the layer that has set s, or "unset"
  env,         \* the settings that environment variables make
  flags,       \* the settings that flags make
  loaded       \* history: the kind of file that this start has loaded

configVars == <<step, configFile, cfg, env, flags, loaded>>

(* interval stands for server_url, host, environment and log_level too, all *)
(* of which have three layers; error_log for the app log; two custom tags.  *)
Tags == {"tag_a", "tag_b"}
Layered == {"interval", "error_log", "access_log"} \cup Tags
FileOnly == {"metric_interval", "process_interval"}
Setting == Layered \cup FileOnly

(* What each kind of file sets: one that a start died writing, the default, *)
(* and files that the user has written.                                     *)
FileSets ==
  [empty   |-> {},
   default |-> {"interval", "error_log"},
   partial |-> {"interval", "access_log", "tag_a", "metric_interval"},
   full    |-> Setting]
UserFiles == {"partial", "full"}
Contents == {"absent"} \cup DOMAIN FileSets

ConfigTypeOK ==
  /\ step \in {"off", "stat", "create", "write", "load", "env", "flags",
               "run", "serving", "panicked"}
  /\ configFile \in Contents
  /\ cfg \in [Setting -> {"unset", "file", "env", "flag"}]
  /\ env \subseteq Layered
  /\ flags \subseteq Layered
  /\ loaded \in Contents

NoConfig == [s \in Setting |-> "unset"]

ConfigInit ==
  /\ step = "off"
  /\ configFile \in {"absent"} \cup UserFiles
  /\ cfg = NoConfig
  /\ env = {}
  /\ flags = {}
  /\ loaded = "absent"

-----------------------------------------------------------------------------
StepGoes(from, to) == step = from /\ step' = to

Launches ==
  /\ StepGoes("off", "stat")
  /\ env' \in SUBSET Layered
  /\ flags' \in SUBSET Layered
  /\ UNCHANGED <<configFile, cfg, loaded>>

Stats ==
  /\ StepGoes("stat", IF configFile = "absent" THEN "create" ELSE "load")
  /\ UNCHANGED <<configFile, cfg, env, flags, loaded>>

(* os.WriteFile creates the file, or empties the one that has appeared      *)
(* since os.Stat, and then writes to what it has opened: not to a file that *)
(* has taken its place, but over one that was written in place.             *)
CreatesFile ==
  /\ StepGoes("create", "write")
  /\ configFile' = "empty"
  /\ UNCHANGED <<cfg, env, flags, loaded>>

WritesDefault ==
  /\ StepGoes("write", "load")
  /\ \/ configFile' = "default" /\ configFile # "absent"
     \/ configFile \in {"absent"} \cup UserFiles /\ UNCHANGED configFile
  /\ UNCHANGED <<cfg, env, flags, loaded>>

(* An empty file is valid YAML, and sets nothing.                           *)
LoadConfig ==
  /\ StepGoes("load", "env")
  /\ configFile # "absent"
  /\ cfg' = [s \in Setting |->
               IF s \in FileSets[configFile] THEN "file" ELSE "unset"]
  /\ loaded' = configFile
  /\ UNCHANGED <<configFile, env, flags>>

(* Nothing to load: log.Fatalf.                                             *)
LoadFails ==
  /\ StepGoes("load", "off")
  /\ configFile = "absent"
  /\ env' = {}
  /\ flags' = {}
  /\ UNCHANGED <<configFile, cfg, loaded>>

(* Tags are added to those of the file, one by one.                         *)
ApplyEnvOverrides ==
  /\ StepGoes("env", "flags")
  /\ cfg' = [s \in Setting |-> IF s \in env THEN "env" ELSE cfg[s]]
  /\ UNCHANGED <<configFile, env, flags, loaded>>

(* Mutant of FlagValue: the tags of the flag join the others.               *)
FlagValue_MergesTags(s) ==
  IF s = "access_log" /\ s \in flags
  THEN IF "error_log" \in flags THEN "flag" ELSE "unset"
  ELSE IF s \in flags THEN "flag" ELSE cfg[s]

(* Any tag in the flag replaces the whole map, and -access_log stores what  *)
(* -error_log says.                                                         *)
FlagValue(s) ==
  IF s = "access_log" /\ s \in flags
  THEN IF "error_log" \in flags THEN "flag" ELSE "unset"
  ELSE IF s \in flags THEN "flag"
  ELSE IF s \in Tags /\ flags \cap Tags # {} THEN "unset" ELSE cfg[s]

ApplyFlags ==
  /\ StepGoes("flags", "run")
  /\ cfg' = [s \in Setting |-> FlagValue(s)]
  /\ UNCHANGED <<configFile, env, flags, loaded>>

(* Mutant of TickerIntervals: the tickers use the agent's interval.         *)
TickerIntervals_Agent == {"interval"}

(* time.NewTicker panics when its argument is not positive.                 *)
TickerIntervals == FileOnly

RunnersStart ==
  /\ StepGoes("run", IF \A s \in TickerIntervals : cfg[s] # "unset"
                     THEN "serving" ELSE "panicked")
  /\ UNCHANGED <<configFile, cfg, env, flags, loaded>>

(* The process ends or is killed.                                           *)
Ends ==
  /\ step # "off"
  /\ step' = "off"
  /\ cfg' = NoConfig
  /\ env' = {}
  /\ flags' = {}
  /\ loaded' = "absent"
  /\ UNCHANGED configFile

(* The user writes or removes the file.                                     *)
UserEdits ==
  /\ configFile' \in {"absent"} \cup UserFiles
  /\ UNCHANGED <<step, cfg, env, flags, loaded>>

ConfigNext ==
  \/ Launches \/ Stats \/ CreatesFile \/ WritesDefault
  \/ LoadConfig \/ LoadFails \/ ApplyEnvOverrides \/ ApplyFlags
  \/ RunnersStart \/ Ends \/ UserEdits

ConfigSpec == ConfigInit /\ [][ConfigNext]_configVars

-----------------------------------------------------------------------------
(* bootstrap/config.go:14: flags win over the environment, and that over    *)
(* the file, for each setting by itself; tags count as one setting for the  *)
(* flag, and the access log is set by another flag than its own.            *)
Precedence ==
  step \in {"run", "serving", "panicked"} =>
    \A s \in Setting :
      LET own == CASE s \in Tags         -> flags \cap Tags # {}
                   [] s = "access_log"   -> FALSE
                   [] OTHER              -> s \in flags
          strongest == IF own THEN IF s \in flags THEN "flag" ELSE "unset"
                       ELSE IF s \in env THEN "env"
                       ELSE IF s \in FileSets[loaded] THEN "file"
                       ELSE "unset"
      IN ~(s = "access_log" /\ s \in flags) => cfg[s] = strongest

(* A file that a start died writing is never put to use, but neither is the *)
(* default: an agent that gets past the start of its runners has been given *)
(* both collection intervals by the file, whatever flags and variables say. *)
ServesOnlyConfigured ==
  step = "serving" =>
    {"metric_interval", "process_interval"} \subseteq FileSets[loaded]
=============================================================================
