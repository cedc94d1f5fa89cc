---------------------------- MODULE ContainerRates ----------------------------
(***************************************************************************)
(* The CPU percentage and the network rate of containers: the Collect      *)
(* functions of container/docker.go and container/podman.go, which visit   *)
(* the containers in turn, with calculateCPUPercent and calculateNetRate   *)
(* of container/helpers.go, which share one entry of prevStats for each    *)
(* container.                                                              *)
(*                                                                         *)
(* The received bytes stand for those sent too, which are treated alike.   *)
(* A number that the code computes by a division is a pair of integers,    *)
(* <<numerator, denominator>>.  The other metrics of a container are       *)
(* copies of what the runtime says and are left out.                       *)
(*                                                                         *)
(* The containers that do not run are listed too, with statistics of zero; *)
(* and the error that Podman answers with is decoded, its status not being *)
(* looked at, into statistics of zero.                                     *)
(***************************************************************************)
EXTENDS Integers

CONSTANTS
  Container,
  NoStats,    \* no entry in prevStats
  OnlineCPUs,
  Width,      \* counters are unsigned integers of Width bits
  MaxTime     \* bound on the time a behaviour takes

Counters == [cpu : Nat, sys : Nat, rx : Nat, at : Nat]

ASSUME NoStatsAssumption == NoStats \notin Counters
ASSUME NumbersAssumption ==
  OnlineCPUs \in Nat \ {0} /\ Width \in Nat /\ MaxTime \in Nat
(* Counters that do not start again do not wrap around either: those of the *)
(* runtimes are nanoseconds in 64 bits.                                     *)
ASSUME NoWrapAssumption ==
  2^Width \in Nat /\ MaxTime * OnlineCPUs < 2^Width

VARIABLES
  clock,
  system,     \* CPU time of the host, as the runtime reports it
  usage,      \* usage[c]: CPU time of c since it started
  rx,         \* rx[c]: bytes received by c since it started
  prevStats,
  todo,       \* containers that Collect has still to visit
  now,        \* the time at which Collect began
  percent,    \* percent[c]: the CPU percentage last reported, over 100
  rxRate,     \* rxRate[c]: the network rate last reported
  seen,       \* history: the counters as of the last visit; zero if it found
              \* none; NoStats before the first, and when c has restarted since
  used,       \* history: the fraction that percent[c] ought to be, or NoStats
  arrived     \* history: bytes received between the last two visits, if
              \* there were counters at both

countersVars == <<clock, system, usage, rx>>
historyVars == <<seen, used, arrived>>
reportVars == <<percent, rxRate>>
vars == <<countersVars, prevStats, todo, now, reportVars, historyVars>>

Zero == <<0, 1>>
Stats == Counters \cup {NoStats}

TypeOK ==
  /\ clock \in 0..MaxTime /\ system \in Nat
  /\ usage \in [Container -> Nat] /\ rx \in [Container -> Nat]
  /\ prevStats \in [Container -> Stats]
  /\ todo \subseteq Container /\ now \in 0..clock
  /\ percent \in [Container -> Nat \X (Nat \ {0})]
  /\ rxRate \in [Container -> Nat \X (Nat \ {0})]
  /\ seen \in [Container -> Stats]
  /\ used \in [Container -> (Nat \X (Nat \ {0})) \cup {NoStats}]
  /\ arrived \in [Container -> Nat]

Init ==
  /\ clock = 0 /\ system = 0 /\ now = 0
  /\ usage = [c \in Container |-> 0]
  /\ rx = [c \in Container |-> 0]
  /\ prevStats = [c \in Container |-> NoStats]
  /\ todo = {}
  /\ percent = [c \in Container |-> Zero]
  /\ rxRate = [c \in Container |-> Zero]
  /\ seen = [c \in Container |-> NoStats]
  /\ used = [c \in Container |-> Zero]
  /\ arrived = [c \in Container |-> 0]

-----------------------------------------------------------------------------
(* The world: containers work and receive, and start again from zero.       *)

Add(counter, n) == (counter + n) % 2^Width

TimePasses ==
  /\ clock < MaxTime
  /\ clock' = clock + 1
  /\ system' = Add(system, OnlineCPUs)
  /\ \E work \in [Container -> 0..OnlineCPUs], receives \in SUBSET Container :
       /\ usage' = [c \in Container |-> Add(usage[c], work[c])]
       /\ rx' = [c \in Container |-> Add(rx[c], IF c \in receives THEN 1 ELSE 0)]
  /\ UNCHANGED <<prevStats, todo, now, reportVars, historyVars>>

(* There was something in the counters that a restart undoes.               *)
Counted(stats) == stats # NoStats /\ stats.sys > 0

Restarts(c) ==
  /\ usage[c] + rx[c] > 0
  /\ usage' = [usage EXCEPT ![c] = 0]
  /\ rx' = [rx EXCEPT ![c] = 0]
  /\ seen' = [seen EXCEPT ![c] = IF Counted(@) THEN NoStats ELSE @]
  /\ UNCHANGED <<clock, system, prevStats, todo, now, reportVars, used, arrived>>

-----------------------------------------------------------------------------
(* The difference of two counters as uint64.                                *)
Minus(a, b) == (a - b) % 2^Width

(* Mutant of CPUPercent: it divides whatever the deltas are.                *)
CPUPercent_NoGuard(prev, total, sys, onlineCPUs) ==
  IF prev = NoStats THEN Zero
  ELSE <<Minus(total, prev.cpu) * onlineCPUs, Minus(sys, prev.sys)>>

(* calculateCPUPercent: what it returns, and what it leaves in prevStats.   *)
CPUPercent(prev, total, sys, onlineCPUs) ==
  IF prev = NoStats THEN Zero
  ELSE LET cpuDelta == Minus(total, prev.cpu)
           sysDelta == Minus(sys, prev.sys)
       IN IF sysDelta > 0 /\ cpuDelta > 0 /\ onlineCPUs > 0
          THEN <<cpuDelta * onlineCPUs, sysDelta>> ELSE Zero

(* Mutant of CPUPercentStores: the host's time is forgotten.                *)
CPUPercentStores_NoSystem(total, sys, time) ==
  [cpu |-> total, sys |-> 0, rx |-> 0, at |-> time]

CPUPercentStores(total, sys, time) ==
  [cpu |-> total, sys |-> sys, rx |-> 0, at |-> time]

(* calculateNetRate, with the entry that calculateCPUPercent has left.      *)
NetRate(prev, time, bytes) ==
  IF time - prev.at <= 0 THEN Zero
  ELSE <<Minus(bytes, prev.rx), time - prev.at>>

NetRateStores(prev, time, bytes) ==
  IF time - prev.at <= 0 THEN prev
  ELSE [prev EXCEPT !.rx = bytes, !.at = time]

-----------------------------------------------------------------------------
(* Collect lists the containers after the previous Collect has returned.    *)
CollectBegins ==
  /\ todo = {}
  /\ todo' \in SUBSET Container \ {{}}
  /\ now' = clock
  /\ UNCHANGED <<countersVars, prevStats, reportVars, historyVars>>

(* The stats of a container cannot be had.                                  *)
Skips(c) ==
  /\ c \in todo
  /\ todo' = todo \ {c}
  /\ UNCHANGED <<countersVars, prevStats, now, reportVars, historyVars>>

(* What the runtime answers: the counters of a container that runs, or none *)
(* for one that does not and, from Podman, instead of an error.             *)
Statistics(c) ==
  [cpu |-> usage[c], sys |-> system, rx |-> rx[c], cpus |-> OnlineCPUs]
NoStatistics == [cpu |-> 0, sys |-> 0, rx |-> 0, cpus |-> 0]

(* The fraction of its CPUs that c has used since the counters of seen[c].  *)
UsedSince(c, stats) ==
  LET cpu == stats.cpu - seen[c].cpu
      sys == stats.sys - seen[c].sys
  IN IF cpu > 0 /\ sys > 0 THEN <<cpu * OnlineCPUs, sys>> ELSE Zero

(* calculateCPUPercent takes the time anew, calculateNetRate is given that  *)
(* of the beginning of Collect.                                             *)
Reports(c, stats) ==
  /\ c \in todo
  /\ todo' = todo \ {c}
  /\ LET stored == CPUPercentStores(stats.cpu, stats.sys, clock)
     IN /\ percent' = [percent EXCEPT ![c] =
               CPUPercent(prevStats[c], stats.cpu, stats.sys, stats.cpus)]
        /\ rxRate' = [rxRate EXCEPT ![c] = NetRate(stored, now, stats.rx)]
        /\ prevStats' = [prevStats EXCEPT ![c] =
                           NetRateStores(stored, now, stats.rx)]
  /\ seen' = [seen EXCEPT ![c] =
                [cpu |-> stats.cpu, sys |-> stats.sys, rx |-> stats.rx,
                 at |-> clock]]
  /\ used' = [used EXCEPT ![c] =
                IF stats = NoStatistics \/ prevStats[c] = NoStats THEN Zero
                ELSE IF seen[c] = NoStats THEN NoStats ELSE UsedSince(c, stats)]
  /\ arrived' = [arrived EXCEPT ![c] =
                   IF stats # NoStatistics /\ Counted(seen[c])
                   THEN stats.rx - seen[c].rx ELSE 0]
  /\ UNCHANGED <<countersVars, now>>

Visits(c) == Reports(c, Statistics(c)) \/ Reports(c, NoStatistics)

Next ==
  \/ TimePasses
  \/ CollectBegins
  \/ \E c \in Container : Restarts(c) \/ Skips(c) \/ Visits(c)

Spec == Init /\ [][Next]_vars

-----------------------------------------------------------------------------
(* The percentage reported is that of the time since the container was last *)
(* visited, whatever fetches failed and whichever containers were visited   *)
(* in between, and it is at most 100 for each CPU.  A visit that finds no   *)
(* counters reports nothing, and makes the next one report the average of   *)
(* all the time that the counters have counted: never the difference of a   *)
(* counter and a greater one, as 64 bits hold it.  That there can be after  *)
(* a restart between two visits that both find counters, and nothing is     *)
(* said of it.                                                              *)
PercentMeasured ==
  \A c \in Container :
    used[c] # NoStats =>
      /\ percent[c] = used[c]
      /\ percent[c][1] <= OnlineCPUs * percent[c][2]

(* "It uses the previous received and transmitted bytes to calculate the    *)
(* delta and then computes the rate in bytes per second." (helpers.go:138)  *)
NetRateMeasured ==
  \A c \in Container : arrived[c] > 0 => rxRate[c][1] > 0
=============================================================================
