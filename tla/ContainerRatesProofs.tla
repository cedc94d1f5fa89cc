------------------------- MODULE ContainerRatesProofs -------------------------
(***************************************************************************)
(* Why the network rate is never other than zero, and why the CPU          *)
(* percentage is that of the time since the last visit, for any            *)
(* containers, counters and times.                                         *)
(***************************************************************************)
EXTENDS ContainerRates, TLAPS

(* Collect began no later than now, so that calculateNetRate always finds   *)
(* the time which calculateCPUPercent has just stored ahead of its own.     *)
TimeInv ==
  /\ clock \in Nat /\ now \in Nat /\ now <= clock
  /\ rxRate = [c \in Container |-> Zero]

(* The rates that calculateNetRate returns are all zero.                    *)
NetRateZero == \A c \in Container : rxRate[c] = Zero

(* What calculateNetRate returns after calculateCPUPercent has stored time. *)
LEMMA StoredTimeIsAhead ==
  ASSUME NEW total, NEW sys, NEW bytes,
         NEW t \in Nat, NEW n \in Nat, n <= t
  PROVE  NetRate(CPUPercentStores(total, sys, t), n, bytes) = Zero
<1>1. CPUPercentStores(total, sys, t).at = t
  BY DEF CPUPercentStores
<1>2. n - t <= 0
  OBVIOUS
<1> QED
  BY <1>1, <1>2 DEF NetRate

(* One visit, whatever it finds, reports a rate of zero.                    *)
LEMMA VisitReportsZero ==
  ASSUME TimeInv, NEW c \in Container, NEW stats, Reports(c, stats)
  PROVE  TimeInv'
<1>1. NetRate(CPUPercentStores(stats.cpu, stats.sys, clock), now, stats.rx)
        = Zero
  BY StoredTimeIsAhead DEF TimeInv
<1>2. rxRate' = [rxRate EXCEPT ![c] = Zero]
  BY <1>1 DEF Reports
<1>3. rxRate' = [d \in Container |-> Zero]
  BY <1>2 DEF TimeInv
<1> QED
  BY <1>3 DEF TimeInv, Reports, countersVars

(* Time goes on, and so does Collect.                                       *)
LEMMA NextTimeInv == TimeInv /\ [Next]_vars => TimeInv'
<1> SUFFICES ASSUME TimeInv, [Next]_vars PROVE TimeInv'
  OBVIOUS
<1>1. CASE TimePasses
  BY <1>1 DEF TimeInv, TimePasses, reportVars
<1>2. CASE CollectBegins
  BY <1>2 DEF TimeInv, CollectBegins, countersVars, reportVars
<1>3. ASSUME NEW c \in Container, Restarts(c) PROVE TimeInv'
  BY <1>3 DEF TimeInv, Restarts, reportVars
<1>4. ASSUME NEW c \in Container, Skips(c) PROVE TimeInv'
  BY <1>4 DEF TimeInv, Skips, countersVars, reportVars
<1>5. ASSUME NEW c \in Container, Visits(c) PROVE TimeInv'
  BY <1>5, VisitReportsZero DEF Visits
<1>6. CASE UNCHANGED vars
  BY <1>6 DEF TimeInv, vars, countersVars, reportVars
<1> QED
  BY <1>1, <1>2, <1>3, <1>4, <1>5, <1>6 DEF Next

(* calculateNetRate of helpers.go never returns anything but zero.          *)
THEOREM NetRateNeverMeasured == Spec => []NetRateZero
<1>1. Init => TimeInv
  BY DEF Init, TimeInv
<1>2. TimeInv => NetRateZero
  BY DEF TimeInv, NetRateZero
<1> QED
  BY <1>1, <1>2, NextTimeInv, PTL DEF Spec

-----------------------------------------------------------------------------
(* A counter below the width is what it is modulo the width.                *)
LEMMA NoWrap ==
  ASSUME NEW a \in Nat, a < 2^Width
  PROVE  a % 2^Width = a
<1> DEFINE m == 2^Width
<1>1. m \in Nat /\ a < m
  BY NoWrapAssumption
<1>2. \A k, n \in Nat : k < n => k % n = k
  OBVIOUS
<1> QED
  BY <1>1, <1>2

(* In more time the CPUs do no less.                                        *)
LEMMA CPUsScale ==
  ASSUME NEW d \in Nat, NEW t \in Nat, d <= t
  PROVE  /\ t * OnlineCPUs \in Nat
         /\ d * OnlineCPUs \in Nat
         /\ d * OnlineCPUs <= t * OnlineCPUs
BY NumbersAssumption

(* The time of all CPUs in the interval between two clocks.                 *)
LEMMA CPUsDistribute ==
  \A t, u, n \in Nat : /\ t * n - u * n = (t - u) * n
                       /\ (t + 1) * n = t * n + n
OBVIOUS

(* The types, and how far the counters are: the host's CPUs count all the   *)
(* time there is, of which a container has used a part.                     *)
CpuTypes ==
  /\ clock \in Nat /\ clock <= MaxTime
  /\ now \in Nat /\ now <= clock
  /\ system = clock * OnlineCPUs
  /\ usage \in [Container -> Nat]
  /\ \A c \in Container : usage[c] <= system
  /\ DOMAIN prevStats = Container /\ DOMAIN seen = Container
  /\ DOMAIN percent = Container /\ DOMAIN used = Container

(* Unless c has restarted since its last visit, prevStats holds the counters *)
(* of that visit, those of a time u or none, and c has used no more than the *)
(* host had since.                                                           *)
Remembered(c) ==
  seen[c] # NoStats =>
    /\ \E u \in 0..clock : seen[c].sys = u * OnlineCPUs
    /\ seen[c].cpu \in Nat /\ seen[c].cpu <= usage[c]
    /\ seen[c].cpu <= seen[c].sys
    /\ usage[c] - seen[c].cpu <= system - seen[c].sys
    /\ prevStats[c] # NoStats
    /\ prevStats[c].cpu = seen[c].cpu /\ prevStats[c].sys = seen[c].sys

(* The inductive invariant of PercentMeasured.                              *)
CpuInv ==
  /\ CpuTypes
  /\ \A c \in Container : Remembered(c)
  /\ PercentMeasured

(* What calculateCPUPercent returns when nothing wraps around.              *)
LEMMA PercentOfInterval ==
  ASSUME NEW prev, prev # NoStats,
         NEW t \in Nat, NEW u \in Nat, u <= t, t <= MaxTime,
         NEW total \in Nat, prev.cpu \in Nat, prev.cpu <= total,
         prev.sys = u * OnlineCPUs,
         total - prev.cpu <= t * OnlineCPUs - prev.sys
  PROVE  LET cpu == total - prev.cpu
             sys == t * OnlineCPUs - prev.sys
             p == CPUPercent(prev, total, t * OnlineCPUs, OnlineCPUs)
         IN /\ p = IF cpu > 0 /\ sys > 0 THEN <<cpu * OnlineCPUs, sys>> ELSE Zero
            /\ p[1] <= OnlineCPUs * p[2]
<1> DEFINE cpu == total - prev.cpu
           dt == t - u
           sys == t * OnlineCPUs - prev.sys
           p == CPUPercent(prev, total, t * OnlineCPUs, OnlineCPUs)
<1>1. OnlineCPUs \in Nat \ {0} /\ MaxTime \in Nat
  BY NumbersAssumption
<1>2. cpu \in Nat /\ cpu <= sys /\ dt \in Nat /\ dt <= MaxTime
  BY <1>1
<1>3. sys = dt * OnlineCPUs
  BY <1>1, CPUsDistribute
<1>4. sys \in Nat
  BY <1>2, <1>3, CPUsScale
<1>5. dt * OnlineCPUs <= MaxTime * OnlineCPUs /\ MaxTime * OnlineCPUs \in Nat
  BY <1>1, <1>2, CPUsScale
<1>6. sys < 2^Width /\ cpu < 2^Width
  <2>1. 2^Width \in Nat /\ MaxTime * OnlineCPUs < 2^Width
    BY NoWrapAssumption
  <2> HIDE DEF sys, cpu
  <2> QED
    BY <1>2, <1>3, <1>4, <1>5, <2>1
<1>7. Minus(total, prev.cpu) = cpu /\ Minus(t * OnlineCPUs, prev.sys) = sys
  <2>1. cpu % 2^Width = cpu /\ sys % 2^Width = sys
    <3> HIDE DEF cpu, sys
    <3> QED
      BY <1>2, <1>4, <1>6, NoWrap
  <2> QED
    BY <2>1 DEF Minus
<1>8. p = IF cpu > 0 /\ sys > 0 THEN <<cpu * OnlineCPUs, sys>> ELSE Zero
  <2> HIDE DEF cpu, sys
  <2> QED
    BY <1>1, <1>7 DEF CPUPercent
<1>9. p[1] <= OnlineCPUs * p[2]
  <2> HIDE DEF cpu, sys, p
  <2>1. CASE cpu > 0 /\ sys > 0
    <3>1. p[1] = cpu * OnlineCPUs /\ p[2] = sys
      BY <1>8, <2>1
    <3>2. cpu * OnlineCPUs <= OnlineCPUs * sys
      BY <1>1, <1>2, <1>4, CPUsScale
    <3> QED
      BY <3>1, <3>2
  <2>2. CASE ~(cpu > 0 /\ sys > 0)
    BY <1>1, <1>8, <2>2 DEF Zero
  <2> QED
    BY <2>1, <2>2
<1> QED
  BY <1>8, <1>9

(* One more unit of time wraps neither the host's counter nor a container's. *)
LEMMA AddsDoNotWrap ==
  ASSUME NEW t \in Nat, t < MaxTime
  PROVE  /\ Add(t * OnlineCPUs, OnlineCPUs) = (t + 1) * OnlineCPUs
         /\ \A u \in Nat, n \in 0..OnlineCPUs :
              u <= t * OnlineCPUs => Add(u, n) = u + n
<1>1. OnlineCPUs \in Nat /\ MaxTime \in Nat
  BY NumbersAssumption
<1>2. /\ (t + 1) * OnlineCPUs = t * OnlineCPUs + OnlineCPUs
      /\ (t + 1) * OnlineCPUs \in Nat
      /\ (t + 1) * OnlineCPUs <= MaxTime * OnlineCPUs
      /\ t * OnlineCPUs \in Nat
      /\ MaxTime * OnlineCPUs \in Nat
  <2>1. t + 1 \in Nat /\ t + 1 <= MaxTime
    BY <1>1
  <2> QED
    BY <1>1, <2>1, CPUsScale, CPUsDistribute
<1>3. 2^Width \in Nat /\ MaxTime * OnlineCPUs < 2^Width
  BY NoWrapAssumption
<1>4. (t + 1) * OnlineCPUs < 2^Width
  BY <1>2, <1>3
<1>5. Add(t * OnlineCPUs, OnlineCPUs) = (t + 1) * OnlineCPUs
  BY <1>2, <1>4, NoWrap DEF Add
<1>6. ASSUME NEW u \in Nat, NEW n \in 0..OnlineCPUs, u <= t * OnlineCPUs
      PROVE  Add(u, n) = u + n
  <2>1. u + n \in Nat /\ u + n <= (t + 1) * OnlineCPUs
    BY <1>1, <1>2, <1>6
  <2>2. u + n < 2^Width
    BY <1>2, <1>3, <1>4, <2>1
  <2> QED
    BY <2>1, <2>2, NoWrap DEF Add
<1> QED
  BY <1>5, <1>6

(* While time passes, a container uses no more CPU time than the host has.  *)
LEMMA TimeKeepsCpu ==
  ASSUME CpuInv, TimePasses PROVE CpuInv'
<1>1. PICK work \in [Container -> 0..OnlineCPUs] :
        usage' = [c \in Container |-> Add(usage[c], work[c])]
  BY DEF TimePasses
<1>2. /\ clock \in Nat /\ clock < MaxTime /\ clock' = clock + 1 /\ clock' \in Nat
      /\ MaxTime \in Nat /\ OnlineCPUs \in Nat
      /\ system = clock * OnlineCPUs /\ system \in Nat
      /\ system' = Add(system, OnlineCPUs)
  BY NumbersAssumption, CPUsScale DEF CpuInv, CpuTypes, TimePasses
<1>3. system' = clock' * OnlineCPUs /\ system' = system + OnlineCPUs
  <2>1. system' = (clock + 1) * OnlineCPUs
    BY <1>2, AddsDoNotWrap
  <2> QED
    BY <1>2, <2>1, CPUsDistribute
<1>4. \A c \in Container :
        /\ usage[c] \in Nat /\ usage[c] <= system /\ work[c] \in 0..OnlineCPUs
        /\ usage'[c] = usage[c] + work[c]
  BY <1>1, <1>2, AddsDoNotWrap DEF CpuInv, CpuTypes
<1>5. \A c \in Container : usage'[c] \in Nat /\ usage'[c] <= system'
  BY <1>2, <1>3, <1>4
<1>6. usage' \in [Container -> Nat]
  BY <1>1, <1>5
<1>7. UNCHANGED <<prevStats, now, percent, seen, used>>
  BY DEF TimePasses, reportVars, historyVars
<1>8. CpuTypes'
  BY <1>2, <1>3, <1>5, <1>6, <1>7 DEF CpuInv, CpuTypes
<1>9. ASSUME NEW c \in Container PROVE Remembered(c)'
  <2> SUFFICES ASSUME seen[c] # NoStats PROVE Remembered(c)'
    BY <1>7 DEF Remembered
  <2>1. Remembered(c)
    BY DEF CpuInv
  <2>2. PICK u \in 0..clock : seen[c].sys = u * OnlineCPUs
    BY <2>1 DEF Remembered
  <2>3. u \in 0..clock' /\ seen[c].sys \in Nat
    BY <1>2, <2>2, CPUsScale
  <2>4. \E v \in 0..clock' : seen'[c].sys = v * OnlineCPUs
    BY <1>7, <2>2, <2>3
  <2>5. /\ prevStats'[c] # NoStats
        /\ prevStats'[c].cpu = seen'[c].cpu /\ prevStats'[c].sys = seen'[c].sys
    BY <1>7, <2>1 DEF Remembered
  <2>6. /\ seen[c].cpu \in Nat /\ seen[c].cpu <= usage[c]
        /\ seen[c].cpu <= seen[c].sys
        /\ usage[c] - seen[c].cpu <= system - seen[c].sys
    BY <2>1 DEF Remembered
  <2>7. /\ seen'[c].cpu \in Nat /\ seen'[c].cpu <= usage'[c]
        /\ seen'[c].cpu <= seen'[c].sys
        /\ usage'[c] - seen'[c].cpu <= system' - seen'[c].sys
    <3>1. usage[c] \in Nat /\ work[c] \in 0..OnlineCPUs
          /\ usage'[c] = usage[c] + work[c] /\ system' = system + OnlineCPUs
      BY <1>3, <1>4
    <3> QED
      BY <1>2, <1>7, <2>3, <2>6, <3>1
  <2> QED
    BY <2>4, <2>5, <2>7 DEF Remembered
<1>10. PercentMeasured'
  BY <1>7 DEF CpuInv, PercentMeasured
<1> QED
  BY <1>8, <1>9, <1>10 DEF CpuInv

(* A restart takes a container's past with it, if the last visit found any. *)
LEMMA RestartKeepsCpu ==
  ASSUME CpuInv, NEW c \in Container, Restarts(c) PROVE CpuInv'
<1>1. /\ UNCHANGED <<clock, system, prevStats, now, percent, used>>
      /\ usage' = [usage EXCEPT ![c] = 0]
      /\ seen' = [seen EXCEPT ![c] = IF Counted(@) THEN NoStats ELSE @]
  BY DEF Restarts, reportVars
<1>2. clock \in Nat /\ system \in Nat /\ OnlineCPUs \in Nat
  BY NumbersAssumption, CPUsScale DEF CpuInv, CpuTypes
<1>3. CpuTypes'
  BY <1>1, <1>2 DEF CpuInv, CpuTypes
<1>4. ASSUME NEW d \in Container PROVE Remembered(d)'
  <2>1. Remembered(d)
    BY DEF CpuInv
  <2>2. CASE d = c /\ seen'[c] # NoStats
    <3>1. seen'[c] = seen[c] /\ seen[c] # NoStats /\ ~(seen[c].sys > 0)
      BY <1>1, <2>2 DEF CpuInv, CpuTypes, Counted
    <3>2. PICK u \in 0..clock : seen[c].sys = u * OnlineCPUs
      BY <2>1, <2>2, <3>1 DEF Remembered
    <3>3. seen[c].sys \in Nat
      BY <1>2, <3>2, CPUsScale
    <3>4. seen[c].sys = 0 /\ seen[c].cpu = 0
      BY <2>1, <2>2, <3>1, <3>3 DEF Remembered
    <3>5. usage'[c] = 0
      BY <1>1 DEF CpuInv, CpuTypes
    <3>6. \E v \in 0..clock' : seen'[c].sys = v * OnlineCPUs
      BY <1>1, <3>1, <3>2
    <3>7. /\ prevStats'[c] # NoStats
          /\ prevStats'[c].cpu = seen'[c].cpu /\ prevStats'[c].sys = seen'[c].sys
      BY <1>1, <2>1, <2>2, <3>1 DEF Remembered
    <3>8. /\ seen'[c].cpu \in Nat /\ seen'[c].cpu <= usage'[c]
          /\ seen'[c].cpu <= seen'[c].sys
          /\ usage'[c] - seen'[c].cpu <= system' - seen'[c].sys
      BY <1>1, <1>2, <3>1, <3>4, <3>5
    <3>9. Remembered(c)'
      BY <3>6, <3>7, <3>8 DEF Remembered
    <3> QED
      BY <2>2, <3>9
  <2>3. CASE d = c /\ seen'[c] = NoStats
    BY <2>3 DEF Remembered
  <2>4. CASE d # c
    <3>1. seen'[d] = seen[d] /\ usage'[d] = usage[d]
      BY <1>1, <2>4 DEF CpuInv, CpuTypes
    <3> QED
      BY <1>1, <2>1, <3>1 DEF Remembered
  <2> QED
    BY <2>2, <2>3, <2>4
<1>5. PercentMeasured'
  BY <1>1 DEF CpuInv, PercentMeasured
<1> QED
  BY <1>3, <1>4, <1>5 DEF CpuInv

(* The counters that a visit finds are those of a time, or of none.         *)
LEMMA StatisticsTyped ==
  ASSUME CpuInv, NEW c \in Container,
         NEW stats, stats = Statistics(c) \/ stats = NoStatistics
  PROVE  /\ \E u \in 0..clock : stats.sys = u * OnlineCPUs
         /\ stats.cpu \in Nat /\ stats.cpu <= usage[c] /\ stats.cpu <= stats.sys
         /\ usage[c] - stats.cpu <= system - stats.sys
         /\ stats.sys \in Nat
<1>1. /\ clock \in Nat /\ system = clock * OnlineCPUs /\ system \in Nat
      /\ usage[c] \in Nat /\ usage[c] <= system
  BY CPUsScale DEF CpuInv, CpuTypes
<1>2. CASE stats = Statistics(c)
  BY <1>1, <1>2 DEF Statistics
<1>3. CASE stats = NoStatistics
  <2>1. 0 * OnlineCPUs = 0 /\ 0 \in 0..clock
    BY <1>1, NumbersAssumption
  <2> QED
    BY <1>1, <1>3, <2>1 DEF NoStatistics
<1> QED
  BY <1>2, <1>3

(* What a visit reports is what the container has used since the last.      *)
LEMMA VisitReportsUse ==
  ASSUME CpuInv, NEW c \in Container,
         NEW stats, stats = Statistics(c) \/ stats = NoStatistics,
         Reports(c, stats), used'[c] # NoStats
  PROVE  percent'[c] = used'[c] /\ percent'[c][1] <= OnlineCPUs * percent'[c][2]
<1>1. percent'[c] = CPUPercent(prevStats[c], stats.cpu, stats.sys, stats.cpus)
  BY DEF CpuInv, CpuTypes, Reports
<1>2. used'[c] = IF stats = NoStatistics \/ prevStats[c] = NoStats THEN Zero
                 ELSE IF seen[c] = NoStats THEN NoStats ELSE UsedSince(c, stats)
  BY DEF CpuInv, CpuTypes, Reports
<1>3. Zero[1] <= OnlineCPUs * Zero[2]
  BY NumbersAssumption DEF Zero
<1>4. CASE prevStats[c] = NoStats
  BY <1>1, <1>2, <1>3, <1>4 DEF CPUPercent
<1>5. CASE prevStats[c] # NoStats /\ stats = NoStatistics
  <2>1. stats.cpus = 0
    BY <1>5 DEF NoStatistics
  <2>2. percent'[c] = Zero
    BY <1>1, <1>5, <2>1 DEF CPUPercent
  <2> QED
    BY <1>2, <1>3, <1>5, <2>2
<1>6. CASE prevStats[c] # NoStats /\ stats # NoStatistics
  <2>1. /\ stats.cpu = usage[c] /\ stats.sys = system /\ stats.cpus = OnlineCPUs
        /\ clock \in Nat /\ clock <= MaxTime /\ system = clock * OnlineCPUs
        /\ usage[c] \in Nat
    BY <1>6 DEF Statistics, CpuInv, CpuTypes
  <2>2. seen[c] # NoStats /\ used'[c] = UsedSince(c, stats) /\ Remembered(c)
    BY <1>2, <1>6 DEF CpuInv
  <2>3. PICK u \in 0..clock : seen[c].sys = u * OnlineCPUs
    BY <2>2 DEF Remembered
  <2>4. /\ prevStats[c].sys = u * OnlineCPUs
        /\ prevStats[c].cpu \in Nat /\ prevStats[c].cpu <= usage[c]
        /\ usage[c] - prevStats[c].cpu <= clock * OnlineCPUs - prevStats[c].sys
        /\ prevStats[c].cpu = seen[c].cpu /\ prevStats[c].sys = seen[c].sys
    BY <2>1, <2>2, <2>3 DEF Remembered
  <2> DEFINE cpu == usage[c] - prevStats[c].cpu
             sys == clock * OnlineCPUs - prevStats[c].sys
  <2>5. /\ percent'[c] = IF cpu > 0 /\ sys > 0 THEN <<cpu * OnlineCPUs, sys>>
                         ELSE Zero
        /\ percent'[c][1] <= OnlineCPUs * percent'[c][2]
    <3>1. u \in Nat /\ u <= clock
      BY <2>1
    <3> QED
      BY <1>1, <1>6, <2>1, <2>4, <3>1, PercentOfInterval
  <2>6. used'[c] = IF cpu > 0 /\ sys > 0 THEN <<cpu * OnlineCPUs, sys>> ELSE Zero
    BY <2>1, <2>2, <2>4 DEF UsedSince
  <2> QED
    BY <2>5, <2>6
<1> QED
  BY <1>4, <1>5, <1>6

(* A visit stores what the next one needs.                                  *)
LEMMA VisitKeepsCpu ==
  ASSUME CpuInv, NEW c \in Container,
         NEW stats, stats = Statistics(c) \/ stats = NoStatistics,
         Reports(c, stats)
  PROVE  CpuInv'
<1> DEFINE stored == CPUPercentStores(stats.cpu, stats.sys, clock)
<1>1. UNCHANGED <<clock, system, usage, now>>
  BY DEF Reports, countersVars
<1>2. /\ \E u \in 0..clock : stats.sys = u * OnlineCPUs
      /\ stats.cpu \in Nat /\ stats.cpu <= usage[c] /\ stats.cpu <= stats.sys
      /\ usage[c] - stats.cpu <= system - stats.sys
      /\ stats.sys \in Nat
      /\ clock \in Nat /\ now \in Nat /\ now <= clock
  BY StatisticsTyped DEF CpuInv, CpuTypes
<1>3. CpuTypes'
  BY <1>1 DEF CpuInv, CpuTypes, Reports
<1>4. stored.cpu = stats.cpu /\ stored.sys = stats.sys /\ stored.at = clock
  BY DEF CPUPercentStores
<1>5. prevStats'[c] = stored
  <2>1. NetRateStores(stored, now, stats.rx) = stored
    BY <1>2, <1>4 DEF NetRateStores
  <2> QED
    BY <2>1 DEF CpuInv, CpuTypes, Reports
<1>6. seen'[c].cpu = stats.cpu /\ seen'[c].sys = stats.sys
  BY DEF CpuInv, CpuTypes, Reports
<1>7. \A d \in Container \ {c} :
        /\ prevStats'[d] = prevStats[d] /\ seen'[d] = seen[d]
        /\ percent'[d] = percent[d] /\ used'[d] = used[d]
  BY DEF CpuInv, CpuTypes, Reports
<1>8. ASSUME NEW d \in Container PROVE Remembered(d)'
  <2>1. CASE d = c
    <3>1. stored # NoStats
      BY <1>2, NoStatsAssumption DEF CPUPercentStores, Counters
    <3> HIDE DEF stored
    <3> QED
      BY <1>1, <1>2, <1>4, <1>5, <1>6, <2>1, <3>1 DEF Remembered
  <2>2. CASE d # c
    BY <1>1, <1>7, <2>2 DEF CpuInv, Remembered
  <2> QED
    BY <2>1, <2>2
<1>9. PercentMeasured'
  BY <1>7, VisitReportsUse DEF CpuInv, PercentMeasured
<1> QED
  BY <1>3, <1>8, <1>9 DEF CpuInv

(* Collect starts with counters of zero and no entry in prevStats ...       *)
LEMMA InitCpuInv == Init => CpuInv
<1> SUFFICES ASSUME Init PROVE CpuInv
  OBVIOUS
<1>1. CpuTypes
  BY NumbersAssumption DEF Init, CpuTypes
<1>2. \A c \in Container : Remembered(c)
  BY DEF Init, Remembered
<1>3. PercentMeasured
  BY NumbersAssumption DEF Init, PercentMeasured, Zero
<1> QED
  BY <1>1, <1>2, <1>3 DEF CpuInv

(* ... and each step keeps what it remembers.                               *)
LEMMA NextCpuInv == CpuInv /\ [Next]_vars => CpuInv'
<1> SUFFICES ASSUME CpuInv, [Next]_vars PROVE CpuInv'
  OBVIOUS
<1>1. CASE TimePasses
  BY <1>1, TimeKeepsCpu
<1>2. CASE CollectBegins
  BY <1>2 DEF CpuInv, CpuTypes, Remembered, PercentMeasured, CollectBegins,
              countersVars, reportVars, historyVars
<1>3. ASSUME NEW c \in Container, Restarts(c) PROVE CpuInv'
  BY <1>3, RestartKeepsCpu
<1>4. ASSUME NEW c \in Container, Skips(c) PROVE CpuInv'
  BY <1>4 DEF CpuInv, CpuTypes, Remembered, PercentMeasured, Skips,
              countersVars, reportVars, historyVars
<1>5. ASSUME NEW c \in Container, Visits(c) PROVE CpuInv'
  BY <1>5, VisitKeepsCpu DEF Visits
<1>6. CASE UNCHANGED vars
  BY <1>6 DEF CpuInv, CpuTypes, Remembered, PercentMeasured, vars,
              countersVars, reportVars, historyVars
<1> QED
  BY <1>1, <1>2, <1>3, <1>4, <1>5, <1>6 DEF Next

(* The percentage of helpers.go is what the container used since the        *)
(* counters of its last visit, for any containers and CPUs and however      *)
(* Collect's visits fall, those that find no statistics included.           *)
THEOREM PercentIsMeasured == Spec => []PercentMeasured
<1>1. CpuInv => PercentMeasured
  BY DEF CpuInv
<1> QED
  BY <1>1, InitCpuInv, NextCpuInv, PTL DEF Spec

-----------------------------------------------------------------------------
(* The types.  The received bytes never wrap around, as no more than one    *)
(* comes in a unit of time; so no difference of them is negative.           *)
Received ==
  \A c \in Container :
    /\ rx[c] <= clock
    /\ Counted(seen[c]) => seen[c].rx <= rx[c]

RateInv == TypeOK /\ Received /\ CpuInv /\ TimeInv

LEMMA WidthPositive == 2^Width \in Nat \ {0} /\ MaxTime < 2^Width
<1> DEFINE m == 2^Width
<1>1. m \in Nat /\ MaxTime * OnlineCPUs < m
  BY NoWrapAssumption
<1>2. MaxTime \in Nat /\ OnlineCPUs \in Nat \ {0}
  BY NumbersAssumption
<1>3. \A t \in Nat, n \in Nat \ {0} : t <= t * n
  OBVIOUS
<1>4. MaxTime <= MaxTime * OnlineCPUs /\ MaxTime * OnlineCPUs \in Nat
  BY <1>2, <1>3
<1> HIDE DEF m
<1>5. m \in Nat \ {0} /\ MaxTime < m
  BY <1>1, <1>2, <1>4
<1> QED
  BY <1>5 DEF m

(* A counter of Width bits is a natural number, as are differences of two.  *)
LEMMA CountersTyped ==
  /\ \A a, b \in Nat : Minus(a, b) \in Nat
  /\ \A a, b \in Nat : Add(a, b) \in Nat
<1> DEFINE m == 2^Width
<1>1. m \in Nat \ {0}
  BY WidthPositive
<1>2. \A i \in Int, n \in Nat \ {0} : i % n \in Nat
  OBVIOUS
<1>3. \A a, b \in Nat : (a - b) % m \in Nat /\ (a + b) % m \in Nat
  <2> HIDE DEF m
  <2>1. \A a, b \in Nat : a - b \in Int /\ a + b \in Int
    OBVIOUS
  <2> QED
    BY <1>1, <1>2, <2>1
<1> QED
  BY <1>3 DEF Minus, Add

LEMMA TimeKeepsTypes ==
  ASSUME RateInv, TimePasses PROVE TypeOK' /\ Received'
<1>1. PICK work \in [Container -> 0..OnlineCPUs],
           receives \in SUBSET Container :
        /\ usage' = [c \in Container |-> Add(usage[c], work[c])]
        /\ rx' = [c \in Container |->
                    Add(rx[c], IF c \in receives THEN 1 ELSE 0)]
  BY DEF TimePasses
<1>2. /\ clock \in Nat /\ clock < MaxTime /\ clock' = clock + 1
      /\ MaxTime \in Nat /\ OnlineCPUs \in Nat
      /\ system' = Add(system, OnlineCPUs)
      /\ UNCHANGED <<prevStats, todo, now, percent, rxRate, seen, used, arrived>>
  BY NumbersAssumption
     DEF TimePasses, RateInv, TimeInv, reportVars, historyVars
<1>3. \A c \in Container : /\ usage[c] \in Nat /\ work[c] \in Nat
                           /\ rx[c] \in Nat /\ rx[c] <= clock
  BY <1>2 DEF RateInv, TypeOK, Received
<1>4. \A c \in Container : rx'[c] = rx[c] \/ rx'[c] = rx[c] + 1
  <2> SUFFICES ASSUME NEW c \in Container
               PROVE  rx'[c] = rx[c] \/ rx'[c] = rx[c] + 1
    OBVIOUS
  <2> DEFINE n == IF c \in receives THEN 1 ELSE 0
  <2>1. /\ rx[c] + n \in Nat /\ rx[c] + n <= MaxTime
        /\ rx[c] + n = rx[c] \/ rx[c] + n = rx[c] + 1
    BY <1>2, <1>3
  <2>2. rx'[c] = Add(rx[c], n)
    BY <1>1
  <2> HIDE DEF n
  <2>3. rx[c] + n < 2^Width
    <3> DEFINE m == 2^Width
    <3>1. m \in Nat /\ MaxTime < m
      BY WidthPositive
    <3> HIDE DEF m
    <3>2. rx[c] + n < m
      BY <1>2, <2>1, <3>1
    <3> QED
      BY <3>2 DEF m
  <2>4. Add(rx[c], n) = rx[c] + n
    BY <2>1, <2>3, NoWrap DEF Add
  <2> QED
    BY <2>1, <2>2, <2>4
<1>5. \A c \in Container : rx'[c] \in Nat /\ rx'[c] <= clock' /\ rx[c] <= rx'[c]
  BY <1>2, <1>3, <1>4
<1>6. usage' \in [Container -> Nat] /\ rx' \in [Container -> Nat]
  <2>1. \A c \in Container : Add(usage[c], work[c]) \in Nat
    BY <1>3, CountersTyped
  <2> QED
    BY <1>1, <1>5, <2>1
<1>7. system' \in Nat
  BY <1>2, CountersTyped DEF RateInv, TypeOK
<1>8. TypeOK'
  BY <1>2, <1>6, <1>7 DEF RateInv, TypeOK
<1>9. Received'
  <2> SUFFICES ASSUME NEW c \in Container, Counted(seen[c])
               PROVE  seen[c].rx <= rx'[c]
    BY <1>2, <1>5 DEF Received
  <2>1. seen[c].rx \in Nat /\ seen[c].rx <= rx[c]
    BY DEF RateInv, TypeOK, Received, Counted, Stats, Counters
  <2> QED
    BY <1>3, <1>5, <2>1
<1> QED
  BY <1>8, <1>9

LEMMA VisitKeepsTypes ==
  ASSUME RateInv, NEW c \in Container,
         NEW stats, stats = Statistics(c) \/ stats = NoStatistics,
         Reports(c, stats)
  PROVE  TypeOK' /\ Received'
<1> DEFINE stored == CPUPercentStores(stats.cpu, stats.sys, clock)
           snap == [cpu |-> stats.cpu, sys |-> stats.sys, rx |-> stats.rx,
                    at |-> clock]
           Fraction == Nat \X (Nat \ {0})
<1>1. /\ UNCHANGED <<clock, system, usage, rx, now>>
      /\ clock \in Nat /\ system \in Nat /\ usage[c] \in Nat /\ rx[c] \in Nat
      /\ now \in 0..clock /\ prevStats[c] \in Stats /\ seen[c] \in Stats
      /\ OnlineCPUs \in Nat \ {0}
  BY NumbersAssumption DEF Reports, countersVars, RateInv, TypeOK
<1>2. /\ stats.cpu \in Nat /\ stats.sys \in Nat /\ stats.rx \in Nat
      /\ stats.cpus \in Nat /\ stats.rx <= rx[c]
      /\ stats # NoStatistics => stats.rx = rx[c]
  BY <1>1 DEF Statistics, NoStatistics
<1>3. stored \in Counters /\ snap \in Counters /\ Zero \in Fraction
  BY <1>1, <1>2 DEF CPUPercentStores, Counters, Zero
<1>4. NetRateStores(stored, now, stats.rx) \in Stats
  BY <1>1, <1>2, <1>3 DEF NetRateStores, CPUPercentStores, Stats, Counters
<1>5. CPUPercent(prevStats[c], stats.cpu, stats.sys, stats.cpus) \in Fraction
  <2>1. CASE prevStats[c] = NoStats
    BY <1>3, <2>1 DEF CPUPercent
  <2>2. CASE prevStats[c] # NoStats
    <3> DEFINE cpu == Minus(stats.cpu, prevStats[c].cpu)
               sys == Minus(stats.sys, prevStats[c].sys)
    <3>1. prevStats[c].cpu \in Nat /\ prevStats[c].sys \in Nat
      BY <1>1, <2>2 DEF Stats, Counters
    <3>2. cpu \in Nat /\ sys \in Nat
      BY <1>2, <3>1, CountersTyped
    <3>3. CPUPercent(prevStats[c], stats.cpu, stats.sys, stats.cpus) =
            IF sys > 0 /\ cpu > 0 /\ stats.cpus > 0
            THEN <<cpu * stats.cpus, sys>> ELSE Zero
      BY <2>2 DEF CPUPercent
    <3> HIDE DEF cpu, sys
    <3>4. cpu * stats.cpus \in Nat
      BY <1>2, <3>2
    <3>5. sys > 0 => <<cpu * stats.cpus, sys>> \in Fraction
      BY <3>2, <3>4
    <3> QED
      BY <1>3, <3>3, <3>5
  <2> QED
    BY <2>1, <2>2
<1>6. used'[c] \in Fraction \cup {NoStats}
  <2>1. CASE stats = NoStatistics \/ prevStats[c] = NoStats
    BY <1>3, <2>1 DEF Reports, RateInv, TypeOK
  <2>2. CASE /\ ~(stats = NoStatistics \/ prevStats[c] = NoStats)
             /\ seen[c] = NoStats
    BY <2>2 DEF Reports, RateInv, TypeOK
  <2>3. CASE /\ ~(stats = NoStatistics \/ prevStats[c] = NoStats)
             /\ seen[c] # NoStats
    <3> DEFINE cpu == stats.cpu - seen[c].cpu
               sys == stats.sys - seen[c].sys
    <3>1. used'[c] = IF cpu > 0 /\ sys > 0 THEN <<cpu * OnlineCPUs, sys>>
                     ELSE Zero
      BY <2>3 DEF Reports, UsedSince, RateInv, TypeOK
    <3>2. cpu \in Int /\ sys \in Int
      BY <1>1, <1>2, <2>3 DEF Stats, Counters
    <3> HIDE DEF cpu, sys
    <3>3. cpu > 0 /\ sys > 0 => <<cpu * OnlineCPUs, sys>> \in Fraction
      <4>1. cpu > 0 => cpu * OnlineCPUs \in Nat
        BY <1>1, <3>2
      <4> QED
        BY <3>2, <4>1
    <3> QED
      BY <1>3, <3>1, <3>3
  <2> QED
    BY <2>1, <2>2, <2>3
<1>7. arrived' \in [Container -> Nat]
  <2>1. stats # NoStatistics /\ Counted(seen[c]) => stats.rx - seen[c].rx \in Nat
    BY <1>1, <1>2 DEF RateInv, Received, Counted, Stats, Counters
  <2> QED
    BY <2>1 DEF Reports, RateInv, TypeOK
<1>8. rxRate' \in [Container -> Fraction]
  <2>1. TimeInv'
    BY VisitReportsZero DEF RateInv
  <2> QED
    BY <1>3, <2>1 DEF TimeInv
<1> HIDE DEF stored, snap, Fraction
<1>9. /\ prevStats' \in [Container -> Stats]
      /\ percent' \in [Container -> Fraction]
      /\ used' \in [Container -> Fraction \cup {NoStats}]
      /\ seen' \in [Container -> Stats]
      /\ seen'[c] = snap
      /\ \A d \in Container \ {c} : seen'[d] = seen[d]
  <2>1. snap \in Stats
    BY <1>3 DEF Stats
  <2>2. /\ prevStats \in [Container -> Stats]
        /\ percent \in [Container -> Fraction]
        /\ used \in [Container -> Fraction \cup {NoStats}]
        /\ seen \in [Container -> Stats]
    BY DEF RateInv, TypeOK, Fraction
  <2>3. /\ prevStats' = [prevStats EXCEPT ![c] =
                           NetRateStores(stored, now, stats.rx)]
        /\ percent' = [percent EXCEPT ![c] =
             CPUPercent(prevStats[c], stats.cpu, stats.sys, stats.cpus)]
        /\ seen' = [seen EXCEPT ![c] = snap]
        /\ DOMAIN used' = DOMAIN used
        /\ \A d \in Container \ {c} : used'[d] = used[d]
    BY DEF Reports, stored, snap, RateInv, TypeOK
  <2>4. used' \in [Container -> Fraction \cup {NoStats}]
    <3>1. used' = [used EXCEPT ![c] = used'[c]]
      BY DEF Reports, RateInv, TypeOK
    <3> QED
      BY <1>6, <2>2, <3>1
  <2> QED
    BY <1>4, <1>5, <2>1, <2>2, <2>3, <2>4
<1>10. TypeOK'
  BY <1>1, <1>7, <1>8, <1>9 DEF Reports, RateInv, TypeOK, Fraction
<1>11. Received'
  <2>1. \A d \in Container : rx'[d] = rx[d] /\ clock' = clock /\ rx[d] <= clock
    BY <1>1 DEF RateInv, Received
  <2>2. Counted(seen'[c]) => seen'[c].rx <= rx'[c]
    <3>1. snap.rx = stats.rx
      BY DEF snap
    <3> QED
      BY <1>1, <1>2, <1>9, <3>1
  <2>3. \A d \in Container \ {c} : Counted(seen'[d]) => seen'[d].rx <= rx'[d]
    BY <1>9, <2>1 DEF RateInv, Received
  <2> QED
    BY <2>1, <2>2, <2>3 DEF Received, Counted
<1> QED
  BY <1>10, <1>11

LEMMA InitRateInv == Init => RateInv
<1> SUFFICES ASSUME Init PROVE RateInv
  OBVIOUS
<1>1. TypeOK
  BY NumbersAssumption DEF Init, TypeOK, Stats, Zero
<1>2. Received
  <2>1. \A c \in Container : rx[c] = 0 /\ clock = 0 /\ seen[c] = NoStats
    BY DEF Init
  <2>2. 0 <= 0
    OBVIOUS
  <2> QED
    BY <2>1, <2>2 DEF Received, Counted
<1>3. TimeInv
  BY DEF Init, TimeInv
<1> QED
  BY <1>1, <1>2, <1>3, InitCpuInv DEF RateInv

LEMMA NextRateInv == RateInv /\ [Next]_vars => RateInv'
<1> SUFFICES ASSUME RateInv, [Next]_vars PROVE TypeOK' /\ Received'
  BY NextCpuInv, NextTimeInv DEF RateInv
<1>1. CASE TimePasses
  BY <1>1, TimeKeepsTypes
<1>2. CASE CollectBegins
  BY <1>2 DEF RateInv, TypeOK, Received, TimeInv, CollectBegins, countersVars,
              reportVars, historyVars
<1>3. ASSUME NEW c \in Container, Restarts(c) PROVE TypeOK' /\ Received'
  <2>1. TypeOK'
    BY <1>3 DEF RateInv, TypeOK, Restarts, reportVars, Stats
  <2>2. Received'
    BY <1>3 DEF RateInv, TypeOK, Received, Counted, TimeInv, Restarts, CpuInv,
                Remembered
  <2> QED
    BY <2>1, <2>2
<1>4. ASSUME NEW c \in Container, Skips(c) PROVE TypeOK' /\ Received'
  BY <1>4 DEF RateInv, TypeOK, Received, Skips, countersVars, reportVars,
              historyVars
<1>5. ASSUME NEW c \in Container, Visits(c) PROVE TypeOK' /\ Received'
  BY <1>5, VisitKeepsTypes DEF Visits
<1>6. CASE UNCHANGED vars
  BY <1>6 DEF RateInv, TypeOK, Received, vars, countersVars, reportVars,
              historyVars
<1> QED
  BY <1>1, <1>2, <1>3, <1>4, <1>5, <1>6 DEF Next

(* The states are well typed: no rate has a denominator of zero.            *)
THEOREM RatesTypeCorrect == Spec => []TypeOK
<1>1. RateInv => TypeOK
  BY DEF RateInv
<1> QED
  BY <1>1, InitRateInv, NextRateInv, PTL DEF Spec
=============================================================================
