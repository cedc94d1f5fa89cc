---------------------------- MODULE MetricBatching ----------------------------
(***************************************************************************)
(* The ticks of MetricRunner.Run (metricrunner/runner.go): what the        *)
(* collectors return becomes one payload for the host and one for each     *)
(* container, each with a copy of the agent's Meta (meta/meta.go,          *)
(* meta/tags.go).                                                          *)
(*                                                                         *)
(* A Go map is a reference: `heap' says what each map of tags holds.  A    *)
(* payload waits in the queue as a pointer, and a worker reads its tags    *)
(* when a later tick may already be under way.                             *)
(***************************************************************************)
EXTENDS Naturals, SequencesExt

CONSTANTS
  ContainerID,
  Host,           \* whose metrics have no container_id
  HostCollector,  \* the collectors of the registry that report on the host
  Runtime,        \* and those that report on containers
  Nil,            \* no map of tags; what a collector that fails returns
  TaskQueueCap,
  MaxMetrics,     \* bound on the metrics of one collector in a tick
  MaxMaps         \* bound on the maps of tags other than the agent's

ASSUME HostAssumption == Host \notin ContainerID
ASSUME CollectorAssumption == HostCollector \cap Runtime = {}
ASSUME BatchNumbersAssumption ==
  TaskQueueCap \in Nat /\ MaxMetrics \in Nat /\ MaxMaps \in Nat

VARIABLES
  heap,              \* heap[r]: the map of tags that r refers to, or Nil
  taskQueue,
  toCollect,         \* collectors that Collect has still to call
  metrics,           \* what Collect returns, later what the loop has left
  hostMetrics,
  containerBatches,  \* <<>> for no entry
  containerMetas,    \* the Tags of the entry's Meta; Nil for no entry
  returned,          \* history: the metrics of this tick
  offered            \* history: the payloads of this tick, without Meta

loopVars == <<metrics, hostMetrics, containerBatches, containerMetas>>
batchVars == <<heap, taskQueue, toCollect, loopVars, returned, offered>>

Owner == ContainerID \cup {Host}
Collector == HostCollector \cup Runtime
Base == 0   \* the Tags of r.Meta
Ref == 0..MaxMaps

(* A metric, its collector and its place in what that returns.              *)
Reading(k) ==
  IF k \in HostCollector
  THEN [owner : {Host}, name : {"cpu"}, value : {0}]
  ELSE [owner : ContainerID, name : {"running", "uptime"}, value : {0, 1}]

Labelled(k, readings) ==
  [i \in DOMAIN readings |->
     [by |-> k, place |-> i, owner |-> readings[i].owner,
      name |-> readings[i].name, value |-> readings[i].value]]

Output(k) == {Labelled(k, s) : s \in BoundedSeq(Reading(k), MaxMetrics)}

ASSUME NilAssumption ==
  /\ Nil \notin Ref
  /\ \A k \in Collector : Nil \notin Output(k)

Metric ==
  {m \in [by : Collector, place : Nat, owner : Owner,
          name : {"cpu", "running", "uptime"}, value : {0, 1}] :
     m.owner = Host <=> m.name = "cpu"}

Tags ==
  [custom : {"tag"}, job : {"none", "gosight-agent", "gosight-container"},
   instance : Owner \cup {"none"}, status : {"none", "running", "stopped"}]

BaseTags ==
  [custom |-> "tag", job |-> "none", instance |-> "none", status |-> "none"]

ASSUME NilTagsAssumption == Nil \notin Tags

BatchTypeOK ==
  /\ heap \in [Ref -> Tags \cup {Nil}]
  /\ taskQueue \in Seq([owner : Owner, metrics : Seq(Metric), tags : Ref])
  /\ Len(taskQueue) <= TaskQueueCap
  /\ toCollect \subseteq Collector
  /\ metrics \in Seq(Metric) /\ hostMetrics \in Seq(Metric)
  /\ containerBatches \in [ContainerID -> Seq(Metric)]
  /\ containerMetas \in [ContainerID -> Ref \cup {Nil}]
  /\ returned \subseteq Metric
  /\ offered \subseteq [owner : Owner, metrics : Seq(Metric)]

BatchInit ==
  /\ heap = [r \in Ref |-> IF r = Base THEN BaseTags ELSE Nil]
  /\ taskQueue = <<>>
  /\ toCollect = {}
  /\ metrics = <<>> /\ hostMetrics = <<>>
  /\ containerBatches = [id \in ContainerID |-> <<>>]
  /\ containerMetas = [id \in ContainerID |-> Nil]
  /\ returned = {}
  /\ offered = {}

-----------------------------------------------------------------------------
(* The loops over the metrics and over containerBatches have ended.         *)
LoopEnded == toCollect = {} /\ metrics = <<>>
TickEnded ==
  /\ LoopEnded /\ hostMetrics = <<>>
  /\ \A id \in ContainerID : containerBatches[id] = <<>>

(* case <-ticker.C                                                          *)
Ticks ==
  /\ TickEnded
  /\ toCollect' = Collector
  /\ returned' = {} /\ offered' = {}
  /\ UNCHANGED <<heap, taskQueue, loopVars>>

(* Mutant of Appended: the error of one collector is the error of all.      *)
Appended_Fails(all, output) == IF output = Nil THEN <<>> ELSE all \o output

(* MetricRegistry.Collect goes on after an error.                           *)
Appended(all, output) == IF output = Nil THEN all ELSE all \o output

(* The collectors are called in any order, that of the map.                 *)
CollectorReturns(k) ==
  /\ k \in toCollect
  /\ toCollect' = toCollect \ {k}
  /\ \E output \in Output(k) \cup {Nil} :
       /\ metrics' = Appended(metrics, output)
       /\ returned' = returned \cup IF output = Nil THEN {} ELSE ToSet(output)
  /\ UNCHANGED <<heap, taskQueue, hostMetrics, containerBatches,
                 containerMetas, offered>>

(* Mutant of CloneMetaWithTags: the map is shared with the original.        *)
CloneMetaWithTags_Shallow(r) == r = Base

(* The map that is made for the clone, here the first unused one.           *)
CloneMetaWithTags(r) ==
  heap[r] = Nil /\ \A q \in Ref : heap[q] = Nil => r <= q

BuildStandardTags(tags, owner) ==
  [tags EXCEPT
     !.job = IF owner = Host THEN "gosight-agent" ELSE "gosight-container",
     !.instance = owner]

Status(m) == IF m.value = 1 THEN "running" ELSE "stopped"

WithStatus(tags, m) ==
  IF m.name = "running" THEN [tags EXCEPT !.status = Status(m)] ELSE tags

(* The body of the loop.  A container's first metric makes its Meta.        *)
AddContainerMetric ==
  /\ toCollect = {} /\ metrics # <<>>
  /\ LET m == Head(metrics)
         id == m.owner
     IN /\ id # Host
        /\ \E r \in Ref :
             LET known == containerMetas[id] # Nil
                 tags == IF known THEN heap[r] ELSE heap[Base]
             IN /\ IF known THEN r = containerMetas[id]
                   ELSE CloneMetaWithTags(r)
                /\ heap' = [heap EXCEPT ![r] =
                              BuildStandardTags(WithStatus(tags, m), id)]
                /\ containerMetas' = [containerMetas EXCEPT ![id] = r]
        /\ containerBatches' = [containerBatches EXCEPT ![id] = Append(@, m)]
  /\ metrics' = Tail(metrics)
  /\ UNCHANGED <<taskQueue, toCollect, hostMetrics, returned, offered>>

AddHostMetric ==
  /\ toCollect = {} /\ metrics # <<>>
  /\ Head(metrics).owner = Host
  /\ hostMetrics' = Append(hostMetrics, Head(metrics))
  /\ metrics' = Tail(metrics)
  /\ UNCHANGED <<heap, taskQueue, toCollect, containerBatches, containerMetas,
                 returned, offered>>

(* Maps that nothing refers to any more are collected by the runtime.       *)
Swept(maps) ==
  LET used == {Base} \cup {containerMetas'[id] : id \in ContainerID}
                     \cup {p.tags : p \in ToSet(taskQueue')}
  IN [r \in Ref |-> IF r \in used THEN maps[r] ELSE Nil]

(* A full queue drops the payload.                                          *)
Offer(owner, batch, r) ==
  /\ taskQueue' = IF Len(taskQueue) < TaskQueueCap
                  THEN Append(taskQueue, [owner |-> owner, metrics |-> batch,
                                          tags |-> r])
                  ELSE taskQueue
  /\ offered' = offered \cup {[owner |-> owner, metrics |-> batch]}

(* The host's payload is made and offered first.                            *)
OfferHost ==
  /\ LoopEnded /\ hostMetrics # <<>>
  /\ hostMetrics' = <<>>
  /\ UNCHANGED <<toCollect, metrics, containerBatches, containerMetas,
                 returned>>
  /\ \E r \in Ref :
       /\ CloneMetaWithTags(r)
       /\ Offer(Host, hostMetrics, r)
       /\ heap' = Swept([heap EXCEPT ![r] =
                           BuildStandardTags(heap[Base], Host)])

(* The containers follow in any order, that of the map.                     *)
OfferContainer(id) ==
  /\ LoopEnded /\ hostMetrics = <<>>
  /\ containerBatches[id] # <<>>
  /\ Offer(id, containerBatches[id], containerMetas[id])
  /\ containerBatches' = [containerBatches EXCEPT ![id] = <<>>]
  /\ containerMetas' = [containerMetas EXCEPT ![id] = Nil]
  /\ heap' = Swept(heap)
  /\ UNCHANGED <<toCollect, metrics, hostMetrics, returned>>

(* A worker has read the payload and sent it.                               *)
WorkerReads ==
  /\ taskQueue # <<>>
  /\ taskQueue' = Tail(taskQueue)
  /\ UNCHANGED <<toCollect, loopVars, returned, offered>>
  /\ heap' = Swept(heap)

BatchNext ==
  \/ Ticks
  \/ \E k \in Collector : CollectorReturns(k)
  \/ AddContainerMetric
  \/ AddHostMetric
  \/ OfferHost
  \/ \E id \in ContainerID : OfferContainer(id)
  \/ WorkerReads

BatchSpec == BatchInit /\ [][BatchNext]_batchVars

-----------------------------------------------------------------------------
(* In the order of each collector, and none twice.                          *)
Ordered(batch) ==
  \A i, j \in DOMAIN batch :
    i < j /\ batch[i].by = batch[j].by => batch[i].place < batch[j].place

(* Every metric that a collector returned is in the payload of its owner,   *)
(* once and in order, and in no other, though another collector failed.     *)
OnePlace ==
  /\ \A p \in offered :
       /\ Ordered(p.metrics)
       /\ ToSet(p.metrics) = {m \in returned : m.owner = p.owner}
  /\ \A p, q \in offered : p.owner = q.owner => p = q
  /\ TickEnded => {p.owner : p \in offered} = {m.owner : m \in returned}

(* What the last metric that says so says about the container.              *)
Says(batch, status) ==
  LET said == {i \in DOMAIN batch : batch[i].name = "running"}
  IN IF said = {} THEN status = "none"
     ELSE \E i \in said : status = Status(batch[i]) /\ \A j \in said : j <= i

HasOwnTags(owner, batch, tags) ==
  /\ tags # Nil
  /\ tags = [BuildStandardTags(BaseTags, owner) EXCEPT !.status = tags.status]
  /\ Says(batch, tags.status)

(* A payload carries the tags of its own container, status included, and    *)
(* the agent's, from when it is made until a worker has read it, whatever   *)
(* later ticks do with copies of the same Meta; the agent's own tags stay   *)
(* as they were.                                                            *)
OwnTags ==
  /\ heap[Base] = BaseTags
  /\ \A p \in ToSet(taskQueue) : HasOwnTags(p.owner, p.metrics, heap[p.tags])
=============================================================================
