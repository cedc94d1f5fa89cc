--------------------------- MODULE CollectionProofs ---------------------------
(***************************************************************************)
(* Proof that each metric of a tick ends in one payload, and that the tags *)
(* of a payload are its own, for any containers, collectors, ticks and     *)
(* queue; then of the types of the whole collection.                       *)
(*                                                                         *)
(* OnePlace speaks of payloads that have been offered.  Until then a       *)
(* metric is among those that the loop has not reached or has been put     *)
(* aside: InOrder says that the former come later, Accounted that none is  *)
(* missing.  OwnTags needs that no map is written which somebody else      *)
(* reads: OwnMaps.                                                         *)
(***************************************************************************)
EXTENDS MCCollection, ContainerRatesProofs, TopProcessesProofs,
        SequenceTheorems

(* What has been put aside for a payload of an owner.                       *)
Aside(o) == IF o = Host THEN hostMetrics ELSE containerBatches[o]

(* The loop begins when all is collected, payloads are offered when it ends. *)
Phases ==
  /\ toCollect # {} => \A o \in Owner : Aside(o) = <<>>
  /\ toCollect # {} \/ metrics # <<>> => offered = {}

(* What the loop has not reached yet comes later, ...                       *)
InOrder ==
  /\ Ordered(metrics)
  /\ \A i \in DOMAIN metrics : metrics[i].by \notin toCollect
  /\ \A o \in Owner :
       /\ Ordered(Aside(o))
       /\ \A i \in DOMAIN Aside(o), j \in DOMAIN metrics :
            Aside(o)[i].by = metrics[j].by =>
              Aside(o)[i].place < metrics[j].place

(* ... and a metric that is not in a payload will be put there.             *)
Accounted ==
  /\ \A p \in offered : 
       /\ p.metrics # <<>> /\ Aside(p.owner) = <<>>
       /\ Ordered(p.metrics)
       /\ ToSet(p.metrics) = {m \in returned : m.owner = p.owner}
  /\ \A p, q \in offered : p.owner = q.owner => p = q
  /\ \A o \in Owner :
       (\A p \in offered : p.owner # o) =>
         ToSet(Aside(o)) \cup {m \in ToSet(metrics) : m.owner = o}
           = {m \in returned : m.owner = o}

(* The maps of tags are those of different payloads, made for them.         *)
OwnMaps ==
  /\ heap[Base] = BaseTags
  /\ \A id \in ContainerID :
       /\ containerMetas[id] = Nil => containerBatches[id] = <<>>
       /\ containerMetas[id] # Nil =>
            /\ containerMetas[id] # Base
            /\ HasOwnTags(id, containerBatches[id],
                          heap[containerMetas[id]])
            /\ \A other \in ContainerID \ {id} :
                 containerMetas[other] # containerMetas[id]
            /\ \A p \in ToSet(taskQueue) : p.tags # containerMetas[id]
  /\ \A p \in ToSet(taskQueue) :
       p.tags # Base /\ HasOwnTags(p.owner, p.metrics, heap[p.tags])

-----------------------------------------------------------------------------
(* What Append, Tail and \o do to the elements of a sequence.               *)
LEMMA AppendElements ==
  ASSUME NEW S, NEW s \in Seq(S), NEW m \in S
  PROVE  /\ Append(s, m) \in Seq(S) /\ Append(s, m) # <<>>
         /\ DOMAIN Append(s, m) = 1..Len(s) + 1 /\ DOMAIN s = 1..Len(s)
         /\ Len(s) \in Nat /\ Len(Append(s, m)) = Len(s) + 1
         /\ \A i \in 1..Len(s) : Append(s, m)[i] = s[i]
         /\ Append(s, m)[Len(s) + 1] = m
         /\ ToSet(Append(s, m)) = ToSet(s) \cup {m}
<1>1. /\ Append(s, m) \in Seq(S) /\ Append(s, m) # <<>>
      /\ Len(Append(s, m)) = Len(s) + 1
      /\ \A i \in 1..Len(s) : Append(s, m)[i] = s[i]
      /\ Append(s, m)[Len(s) + 1] = m
  BY AppendProperties
<1>2. /\ DOMAIN Append(s, m) = 1..Len(s) + 1 /\ DOMAIN s = 1..Len(s)
      /\ Len(s) \in Nat
  BY <1>1
<1>3. ToSet(Append(s, m)) = ToSet(s) \cup {m}
  BY <1>1, <1>2 DEF ToSet
<1> QED
  BY <1>1, <1>2, <1>3

(* ... the first and the rest,                                              *)
LEMMA TailElements ==
  ASSUME NEW S, NEW s \in Seq(S), s # <<>>
  PROVE  /\ Head(s) \in S /\ Head(s) = s[1] /\ Tail(s) \in Seq(S)
         /\ DOMAIN s = 1..Len(s) /\ Len(s) \in Nat \ {0}
         /\ DOMAIN Tail(s) = 1..Len(s) - 1 /\ Len(Tail(s)) = Len(s) - 1
         /\ \A i \in 1..Len(s) - 1 : Tail(s)[i] = s[i + 1]
         /\ ToSet(s) = {Head(s)} \cup ToSet(Tail(s))
<1>1. /\ Head(s) \in S /\ Head(s) = s[1] /\ Tail(s) \in Seq(S)
      /\ Len(Tail(s)) = Len(s) - 1
      /\ \A i \in 1..Len(s) - 1 : Tail(s)[i] = s[i + 1]
  BY HeadTailProperties
<1>2. /\ DOMAIN s = 1..Len(s) /\ Len(s) \in Nat \ {0}
      /\ DOMAIN Tail(s) = 1..Len(s) - 1
  <2>1. Len(s) \in Nat \ {0} /\ DOMAIN s = 1..Len(s)
    BY EmptySeq
  <2>2. DOMAIN Tail(s) = 1..Len(Tail(s))
    BY <1>1
  <2> QED
    BY <1>1, <2>1, <2>2
<1>3. ToSet(s) = {Head(s)} \cup ToSet(Tail(s))
  <2>1. ASSUME NEW x \in ToSet(s) PROVE x \in {Head(s)} \cup ToSet(Tail(s))
    <3>1. PICK i \in 1..Len(s) : x = s[i]
      BY <1>2 DEF ToSet
    <3>2. CASE i = 1
      BY <1>1, <3>1, <3>2
    <3>3. CASE i # 1
      <4>1. i - 1 \in 1..Len(s) - 1 /\ (i - 1) + 1 = i
        BY <1>2, <3>1, <3>3
      <4>2. x = Tail(s)[i - 1]
        BY <1>1, <3>1, <4>1
      <4> QED
        BY <1>2, <4>1, <4>2 DEF ToSet
    <3> QED
      BY <3>2, <3>3
  <2>2. ASSUME NEW x \in {Head(s)} \cup ToSet(Tail(s)) PROVE x \in ToSet(s)
    <3>1. CASE x = Head(s)
      BY <1>1, <1>2, <3>1 DEF ToSet
    <3>2. CASE x \in ToSet(Tail(s))
      <4>1. PICK i \in 1..Len(s) - 1 : x = Tail(s)[i]
        BY <1>2, <3>2 DEF ToSet
      <4>2. i + 1 \in 1..Len(s) /\ x = s[i + 1]
        BY <1>1, <1>2, <4>1
      <4> QED
        BY <1>2, <4>2 DEF ToSet
    <3> QED
      BY <2>2, <3>1, <3>2
  <2> QED
    BY <2>1, <2>2
<1> QED
  BY <1>1, <1>2, <1>3

(* ... and one sequence after another.                                      *)
LEMMA ConcatElements ==
  ASSUME NEW S, NEW s \in Seq(S), NEW t \in Seq(S)
  PROVE  /\ s \o t \in Seq(S)
         /\ DOMAIN s = 1..Len(s) /\ DOMAIN t = 1..Len(t)
         /\ Len(s) \in Nat /\ Len(t) \in Nat
         /\ DOMAIN (s \o t) = 1..Len(s) + Len(t)
         /\ \A i \in 1..Len(s) + Len(t) :
              (s \o t)[i] = IF i <= Len(s) THEN s[i] ELSE t[i - Len(s)]
         /\ ToSet(s \o t) = ToSet(s) \cup ToSet(t)
<1>1. /\ s \o t \in Seq(S) /\ Len(s \o t) = Len(s) + Len(t)
      /\ \A i \in 1..Len(s) + Len(t) :
           (s \o t)[i] = IF i <= Len(s) THEN s[i] ELSE t[i - Len(s)]
  BY ConcatProperties
<1>2. /\ DOMAIN s = 1..Len(s) /\ DOMAIN t = 1..Len(t)
      /\ Len(s) \in Nat /\ Len(t) \in Nat
      /\ DOMAIN (s \o t) = 1..Len(s) + Len(t)
  BY <1>1
<1>3. ASSUME NEW x \in ToSet(s \o t) PROVE x \in ToSet(s) \cup ToSet(t)
  <2>1. PICK i \in 1..Len(s) + Len(t) : x = (s \o t)[i]
    BY <1>2, <1>3 DEF ToSet
  <2>2. CASE i <= Len(s)
    <3>1. i \in 1..Len(s) /\ x = s[i]
      BY <1>1, <1>2, <2>1, <2>2
    <3> QED
      BY <1>2, <3>1 DEF ToSet
  <2>3. CASE ~(i <= Len(s))
    <3>1. i - Len(s) \in 1..Len(t) /\ x = t[i - Len(s)]
      BY <1>1, <1>2, <2>1, <2>3
    <3> QED
      BY <1>2, <3>1 DEF ToSet
  <2> QED
    BY <2>2, <2>3
<1>4. ASSUME NEW x \in ToSet(s) \cup ToSet(t) PROVE x \in ToSet(s \o t)
  <2>1. CASE x \in ToSet(s)
    <3>1. PICK i \in 1..Len(s) : x = s[i]
      BY <1>2, <2>1 DEF ToSet
    <3>2. i \in 1..Len(s) + Len(t) /\ x = (s \o t)[i]
      BY <1>1, <1>2, <3>1
    <3> QED
      BY <1>2, <3>2 DEF ToSet
  <2>2. CASE x \in ToSet(t)
    <3>1. PICK i \in 1..Len(t) : x = t[i]
      BY <1>2, <2>2 DEF ToSet
    <3>2. /\ Len(s) + i \in 1..Len(s) + Len(t) /\ ~(Len(s) + i <= Len(s))
          /\ (Len(s) + i) - Len(s) = i
      BY <1>2, <3>1
    <3>3. x = (s \o t)[Len(s) + i]
      BY <1>1, <3>1, <3>2
    <3> QED
      BY <1>2, <3>2, <3>3 DEF ToSet
  <2> QED
    BY <1>4, <2>1, <2>2
<1> QED
  BY <1>1, <1>2, <1>3, <1>4

-----------------------------------------------------------------------------
(* What a collector returns are metrics, each at its place.                 *)
LEMMA OutputReads ==
  ASSUME NEW k \in Collector, NEW output \in Output(k)
  PROVE  /\ output \in Seq(Metric)
         /\ \A i \in DOMAIN output : output[i].by = k /\ output[i].place = i
<1>1. PICK s \in BoundedSeq(Reading(k), MaxMetrics) : output = Labelled(k, s)
  BY DEF Output
<1>2. PICK n \in Nat : s \in [1..n -> Reading(k)]
  BY BatchNumbersAssumption DEF BoundedSeq, SeqOf
<1>3. \A i \in 1..n : /\ output[i].by = k /\ output[i].place = i
                      /\ output[i] \in Metric
  <2> SUFFICES ASSUME NEW i \in 1..n
               PROVE  /\ output[i].by = k /\ output[i].place = i
                      /\ output[i] \in Metric
    OBVIOUS
  <2>1. output[i] = [by |-> k, place |-> i, owner |-> s[i].owner,
                     name |-> s[i].name, value |-> s[i].value]
    BY <1>1, <1>2 DEF Labelled
  <2>2. s[i] \in Reading(k)
    BY <1>2
  <2>3. CASE k \in HostCollector
    BY <2>1, <2>2, <2>3 DEF Reading, Metric, Owner
  <2>4. CASE k \notin HostCollector
    BY <2>1, <2>2, <2>4, HostAssumption DEF Reading, Metric, Owner
  <2> QED
    BY <2>1, <2>3, <2>4
<1>4. output \in [1..n -> Metric]
  BY <1>1, <1>2, <1>3 DEF Labelled
<1>5. output \in Seq(Metric) /\ DOMAIN output = 1..n
  BY <1>4
<1> QED
  BY <1>3, <1>5

(* The tags stay the four that there are.                                   *)
LEMMA TagsTyped ==
  ASSUME NEW tags \in Tags, NEW owner \in Owner, NEW m \in Metric
  PROVE  /\ BuildStandardTags(tags, owner) \in Tags
         /\ BuildStandardTags(WithStatus(tags, m), owner) \in Tags
         /\ BaseTags \in Tags
<1>1. WithStatus(tags, m) \in Tags
  BY DEF WithStatus, Status, Tags
<1>2. ASSUME NEW t \in Tags PROVE BuildStandardTags(t, owner) \in Tags
  BY DEF BuildStandardTags, Tags
<1>3. BaseTags \in Tags
  BY DEF BaseTags, Tags
<1> QED
  BY <1>1, <1>2, <1>3

-----------------------------------------------------------------------------
(* Every action keeps the types.  That a map is there when it is written    *)
(* is known from OwnMaps.                                                   *)
Payload == [owner : Owner, metrics : Seq(Metric), tags : Ref]

(* What the queue holds are payloads.                                       *)
LEMMA QueueTyped ==
  ASSUME BatchTypeOK
  PROVE  /\ taskQueue \in Seq(Payload)
         /\ \A p \in ToSet(taskQueue) : p \in Payload
<1>1. taskQueue \in Seq(Payload)
  BY DEF BatchTypeOK, Payload
<1> QED
  BY <1>1 DEF ToSet

(* Maps are unused or hold tags.                                            *)
LEMMA SweptTyped ==
  ASSUME NEW maps \in [Ref -> Tags \cup {Nil}]
  PROVE  Swept(maps) \in [Ref -> Tags \cup {Nil}]
BY DEF Swept

(* A payload is offered, and perhaps dropped.                               *)
LEMMA OfferTyped ==
  ASSUME BatchTypeOK, NEW owner \in Owner, NEW batch \in Seq(Metric),
         NEW r \in Ref, Offer(owner, batch, r)
  PROVE  /\ taskQueue' \in Seq(Payload) /\ Len(taskQueue') <= TaskQueueCap
         /\ offered' \subseteq [owner : Owner, metrics : Seq(Metric)]
<1> DEFINE p == [owner |-> owner, metrics |-> batch, tags |-> r]
<1>1. p \in Payload /\ taskQueue \in Seq(Payload)
  BY DEF Payload, BatchTypeOK
<1>2. taskQueue' = IF Len(taskQueue) < TaskQueueCap THEN Append(taskQueue, p)
                   ELSE taskQueue
  BY DEF Offer
<1>3. Len(taskQueue) \in Nat /\ Len(taskQueue) <= TaskQueueCap
  BY <1>1 DEF BatchTypeOK
<1>4. taskQueue' \in Seq(Payload) /\ Len(taskQueue') <= TaskQueueCap
  <2> HIDE DEF p
  <2>1. CASE Len(taskQueue) < TaskQueueCap
    BY <1>1, <1>2, <1>3, <2>1, AppendElements, BatchNumbersAssumption
  <2>2. CASE ~(Len(taskQueue) < TaskQueueCap)
    BY <1>1, <1>2, <1>3, <2>2
  <2> QED
    BY <2>1, <2>2
<1> QED
  BY <1>4 DEF Offer, BatchTypeOK

LEMMA TypesKept ==
  ASSUME BatchTypeOK, OwnMaps, [BatchNext]_batchVars
  PROVE  BatchTypeOK'
<1>0. /\ heap[Base] = BaseTags /\ BaseTags \in Tags /\ Base \in Ref
      /\ Host \in Owner /\ ContainerID \subseteq Owner
  BY BatchNumbersAssumption DEF OwnMaps, BaseTags, Tags, Base, Ref, Owner
<1>1. CASE Ticks
  BY <1>1 DEF Ticks, BatchTypeOK, loopVars
<1>2. ASSUME NEW k \in Collector, CollectorReturns(k) PROVE BatchTypeOK'
  <2>1. PICK output \in Output(k) \cup {Nil} :
          /\ metrics' = Appended(metrics, output)
          /\ returned' = returned \cup
                           IF output = Nil THEN {} ELSE ToSet(output)
    BY <1>2 DEF CollectorReturns
  <2>2. CASE output = Nil
    BY <1>2, <2>1, <2>2 DEF CollectorReturns, Appended, BatchTypeOK
  <2>3. CASE output # Nil
    <3>1. output \in Seq(Metric)
      BY <2>3, OutputReads
    <3>2. metrics \o output \in Seq(Metric) /\ ToSet(output) \subseteq Metric
      BY <3>1, ConcatElements DEF BatchTypeOK, ToSet
    <3> QED
      BY <1>2, <2>1, <2>3, <3>2 DEF CollectorReturns, Appended, BatchTypeOK
  <2> QED
    BY <2>2, <2>3
<1>3. CASE AddContainerMetric
  <2> DEFINE m == Head(metrics)
             id == m.owner
  <2>1. metrics \in Seq(Metric) /\ metrics # <<>>
    BY <1>3 DEF AddContainerMetric, BatchTypeOK
  <2>2. m \in Metric /\ Tail(metrics) \in Seq(Metric)
    BY <2>1, TailElements
  <2>3. id \in ContainerID
    BY <1>3, <2>2 DEF AddContainerMetric, Metric, Owner
  <2>4. PICK r \in Ref :
          LET known == containerMetas[id] # Nil
              tags == IF known THEN heap[r] ELSE heap[Base]
          IN /\ known => r = containerMetas[id]
             /\ heap' = [heap EXCEPT ![r] =
                           BuildStandardTags(WithStatus(tags, m), id)]
             /\ containerMetas' = [containerMetas EXCEPT ![id] = r]
    BY <1>3 DEF AddContainerMetric
  <2> DEFINE tags == IF containerMetas[id] # Nil THEN heap[r] ELSE heap[Base]
  <2>5. tags \in Tags
    <3>1. CASE containerMetas[id] # Nil
      <4>1. heap[r] # Nil
        BY <2>3, <2>4, <3>1 DEF OwnMaps, HasOwnTags
      <4> QED
        BY <3>1, <4>1 DEF BatchTypeOK
    <3>2. CASE containerMetas[id] = Nil
      BY <1>0, <3>2
    <3> QED
      BY <3>1, <3>2
  <2>6. BuildStandardTags(WithStatus(tags, m), id) \in Tags
    <3> HIDE DEF m, tags
    <3> QED
      BY <1>0, <2>2, <2>3, <2>5, TagsTyped
  <2>7. heap' \in [Ref -> Tags \cup {Nil}]
    BY <2>4, <2>6 DEF BatchTypeOK
  <2>8. containerBatches' \in [ContainerID -> Seq(Metric)]
    <3>1. containerBatches' =
            [containerBatches EXCEPT ![id] = Append(containerBatches[id], m)]
      BY <1>3 DEF AddContainerMetric
    <3>2. Append(containerBatches[id], m) \in Seq(Metric)
      BY <2>2, <2>3, AppendElements DEF BatchTypeOK
    <3> HIDE DEF m
    <3> QED
      BY <2>3, <3>1, <3>2 DEF BatchTypeOK
  <2>9. containerMetas' \in [ContainerID -> Ref \cup {Nil}]
    BY <2>3, <2>4 DEF BatchTypeOK
  <2> QED
    BY <1>3, <2>2, <2>7, <2>8, <2>9 DEF AddContainerMetric, BatchTypeOK
<1>4. CASE AddHostMetric
  <2>1. Head(metrics) \in Metric /\ Tail(metrics) \in Seq(Metric)
    BY <1>4, TailElements DEF AddHostMetric, BatchTypeOK
  <2>2. Append(hostMetrics, Head(metrics)) \in Seq(Metric)
    BY <2>1, AppendElements DEF BatchTypeOK
  <2> QED
    BY <1>4, <2>1, <2>2 DEF AddHostMetric, BatchTypeOK
<1>5. CASE OfferHost
  <2>1. PICK r \in Ref :
          /\ Offer(Host, hostMetrics, r)
          /\ heap' = Swept([heap EXCEPT ![r] =
                              BuildStandardTags(heap[Base], Host)])
    BY <1>5 DEF OfferHost
  <2> DEFINE maps == [heap EXCEPT ![r] = BuildStandardTags(heap[Base], Host)]
  <2>2. BuildStandardTags(heap[Base], Host) \in Tags
    BY <1>0 DEF BuildStandardTags, Tags
  <2>3. maps \in [Ref -> Tags \cup {Nil}]
    BY <2>2 DEF BatchTypeOK
  <2>4. heap' \in [Ref -> Tags \cup {Nil}]
    <3> HIDE DEF maps
    <3>1. Swept(maps) \in [Ref -> Tags \cup {Nil}]
      BY <2>3, SweptTyped
    <3> QED
      BY <2>1, <3>1 DEF maps
  <2>5. hostMetrics \in Seq(Metric)
    BY DEF BatchTypeOK
  <2>6. /\ taskQueue' \in Seq(Payload) /\ Len(taskQueue') <= TaskQueueCap
        /\ offered' \subseteq [owner : Owner, metrics : Seq(Metric)]
    BY <1>0, <2>1, <2>5, OfferTyped
  <2>7. /\ hostMetrics' \in Seq(Metric)
        /\ UNCHANGED <<toCollect, metrics, containerBatches, containerMetas,
                       returned>>
    BY <1>5 DEF OfferHost
  <2> QED
    BY <2>4, <2>6, <2>7 DEF BatchTypeOK, Payload
<1>6. ASSUME NEW id \in ContainerID, OfferContainer(id) PROVE BatchTypeOK'
  <2>1. containerBatches[id] \in Seq(Metric) /\ containerMetas[id] \in Ref
    BY <1>6 DEF OfferContainer, OwnMaps, BatchTypeOK
  <2>2. heap' \in [Ref -> Tags \cup {Nil}]
    BY <1>6, SweptTyped DEF OfferContainer, BatchTypeOK
  <2>3. /\ taskQueue' \in Seq(Payload) /\ Len(taskQueue') <= TaskQueueCap
        /\ offered' \subseteq [owner : Owner, metrics : Seq(Metric)]
    BY <1>0, <1>6, <2>1, OfferTyped DEF OfferContainer
  <2> QED
    BY <1>6, <2>2, <2>3 DEF OfferContainer, BatchTypeOK, Payload
<1>7. CASE WorkerReads
  <2>1. heap' \in [Ref -> Tags \cup {Nil}]
    BY <1>7, SweptTyped DEF WorkerReads, BatchTypeOK
  <2>2. taskQueue' \in Seq(Payload) /\ Len(taskQueue') <= TaskQueueCap
    <3>1. taskQueue \in Seq(Payload) /\ taskQueue # <<>>
      BY <1>7 DEF WorkerReads, BatchTypeOK, Payload
    <3>2. /\ Tail(taskQueue) \in Seq(Payload)
          /\ Len(taskQueue) \in Nat
          /\ Len(Tail(taskQueue)) = Len(taskQueue) - 1
      BY <3>1, TailElements
    <3> QED
      BY <1>7, <3>2, BatchNumbersAssumption DEF WorkerReads, BatchTypeOK
  <2> QED
    BY <1>7, <2>1, <2>2 DEF WorkerReads, loopVars, BatchTypeOK, Payload
<1>8. CASE UNCHANGED batchVars
  BY <1>8 DEF batchVars, loopVars, BatchTypeOK
<1> QED
  BY <1>1, <1>2, <1>3, <1>4, <1>5, <1>6, <1>7, <1>8 DEF BatchNext

-----------------------------------------------------------------------------
(* What a step does to the metrics is one of a few things: the loop puts    *)
(* one aside, or a payload is offered.                                      *)
Moves ==
  /\ toCollect = {} /\ metrics # <<>>
  /\ metrics' = Tail(metrics)
  /\ \A o \in Owner :
       Aside(o)' = IF o = Head(metrics).owner
                   THEN Append(Aside(o), Head(metrics)) ELSE Aside(o)
  /\ UNCHANGED <<toCollect, returned, offered>>

Offers(o) ==
  /\ LoopEnded /\ Aside(o) # <<>>
  /\ \A q \in Owner : Aside(q)' = IF q = o THEN <<>> ELSE Aside(q)
  /\ offered' = offered \cup {[owner |-> o, metrics |-> Aside(o)]}
  /\ UNCHANGED <<toCollect, metrics, returned>>

Rests ==
  /\ \A o \in Owner : Aside(o)' = Aside(o)
  /\ UNCHANGED <<toCollect, metrics, returned, offered>>

(* What is put aside are metrics.                                           *)
LEMMA AsideTyped ==
  ASSUME BatchTypeOK
  PROVE  /\ \A o \in Owner : Aside(o) \in Seq(Metric)
         /\ metrics \in Seq(Metric)
BY DEF BatchTypeOK, Aside, Owner

(* Every step does one of these things to the metrics.                      *)
LEMMA StepCases ==
  ASSUME BatchTypeOK, [BatchNext]_batchVars
  PROVE  \/ Ticks
         \/ \E k \in Collector : CollectorReturns(k)
         \/ Moves
         \/ \E o \in Owner : Offers(o)
         \/ Rests
<1>1. CASE AddContainerMetric
  <2> DEFINE m == Head(metrics)
  <2>1. m \in Metric /\ m.owner # Host
    BY <1>1, TailElements DEF AddContainerMetric, BatchTypeOK
  <2>2. m.owner \in ContainerID
    BY <2>1 DEF Metric, Owner
  <2>3. /\ containerBatches' = [containerBatches EXCEPT ![m.owner] =
                                  Append(containerBatches[m.owner], m)]
        /\ hostMetrics' = hostMetrics
    BY <1>1 DEF AddContainerMetric
  <2> HIDE DEF m
  <2>4. \A o \in Owner :
          Aside(o)' = IF o = m.owner THEN Append(Aside(o), m) ELSE Aside(o)
    BY <2>1, <2>2, <2>3 DEF Aside, Owner, BatchTypeOK
  <2>5. Moves
    BY <1>1, <2>4 DEF AddContainerMetric, Moves, m
  <2> QED
    BY <2>5
<1>2. CASE AddHostMetric
  <2>1. \A o \in Owner :
          Aside(o)' = IF o = Head(metrics).owner
                      THEN Append(Aside(o), Head(metrics)) ELSE Aside(o)
    BY <1>2 DEF AddHostMetric, Aside, Owner
  <2>2. Moves
    BY <1>2, <2>1 DEF AddHostMetric, Moves
  <2> QED
    BY <2>2
<1>3. CASE OfferHost
  <2>1. Offers(Host)
    BY <1>3, HostAssumption DEF OfferHost, Offers, Offer, Aside, Owner
  <2> QED
    BY <2>1 DEF Owner
<1>4. ASSUME NEW id \in ContainerID, OfferContainer(id)
      PROVE  \E o \in Owner : Offers(o)
  <2>1. id # Host
    BY HostAssumption
  <2>2. \A q \in Owner : Aside(q)' = IF q = id THEN <<>> ELSE Aside(q)
    BY <1>4, <2>1 DEF OfferContainer, Aside, Owner, BatchTypeOK
  <2>3. Offers(id)
    BY <1>4, <2>1, <2>2 DEF OfferContainer, Offers, Offer, Aside
  <2> QED
    BY <2>3 DEF Owner
<1>5. CASE WorkerReads
  BY <1>5 DEF WorkerReads, loopVars, Rests, Aside
<1>6. CASE UNCHANGED batchVars
  BY <1>6 DEF batchVars, loopVars, Rests, Aside
<1> QED
  BY <1>1, <1>2, <1>3, <1>4, <1>5, <1>6 DEF BatchNext

-----------------------------------------------------------------------------
(* Each kind of step keeps the three invariants about the metrics.          *)
MetricInv == Phases /\ InOrder /\ Accounted

(* A tick begins with nothing.                                              *)
LEMMA TickKeepsMetrics ==
  ASSUME BatchTypeOK, MetricInv, Ticks
  PROVE  MetricInv'
<1>1. /\ \A o \in Owner : Aside(o) = <<>> /\ Aside(o)' = <<>>
      /\ metrics = <<>> /\ metrics' = <<>>
      /\ returned' = {} /\ offered' = {}
  BY DEF Ticks, TickEnded, LoopEnded, loopVars, Aside, Owner
<1>2. Phases'
  BY <1>1 DEF Phases
<1>3. InOrder'
  BY <1>1 DEF InOrder, Ordered
<1>4. Accounted'
  BY <1>1 DEF Accounted, ToSet
<1> QED
  BY <1>2, <1>3, <1>4 DEF MetricInv

(* What one more collector returns comes after the rest, if it returns.     *)
LEMMA ReturnKeepsMetrics ==
  ASSUME BatchTypeOK, MetricInv, NEW k \in Collector, CollectorReturns(k)
  PROVE  MetricInv'
<1>1. PICK output \in Output(k) \cup {Nil} :
        /\ metrics' = Appended(metrics, output)
        /\ returned' = returned \cup
                         IF output = Nil THEN {} ELSE ToSet(output)
  BY DEF CollectorReturns
<1>2. /\ k \in toCollect /\ toCollect' = toCollect \ {k}
      /\ \A o \in Owner : Aside(o) = <<>> /\ Aside(o)' = <<>>
      /\ offered = {} /\ offered' = {}
  BY DEF CollectorReturns, MetricInv, Phases, Aside
<1>3. Phases'
  BY <1>2 DEF Phases
<1>4. CASE output = Nil
  <2>1. UNCHANGED <<metrics, returned>>
    BY <1>1, <1>4 DEF Appended
  <2>2. InOrder'
    BY <1>2, <2>1 DEF MetricInv, InOrder, Ordered
  <2>3. Accounted'
    BY <1>2, <2>1 DEF MetricInv, Accounted
  <2> QED
    BY <1>3, <2>2, <2>3 DEF MetricInv
<1>5. CASE output # Nil
  <2>1. /\ output \in Seq(Metric) /\ metrics \in Seq(Metric)
        /\ \A i \in DOMAIN output : output[i].by = k /\ output[i].place = i
    BY <1>5, OutputReads DEF BatchTypeOK
  <2> DEFINE joined == metrics \o output
             n == Len(metrics)
  <2>2. metrics' = joined /\ returned' = returned \cup ToSet(output)
    BY <1>1, <1>5 DEF Appended
  <2>3. /\ DOMAIN metrics = 1..n /\ DOMAIN output = 1..Len(output)
        /\ n \in Nat /\ Len(output) \in Nat
        /\ DOMAIN joined = 1..n + Len(output)
        /\ \A i \in 1..n + Len(output) :
             joined[i] = IF i <= n THEN metrics[i] ELSE output[i - n]
        /\ ToSet(joined) = ToSet(metrics) \cup ToSet(output)
    BY <2>1, ConcatElements
  <2> HIDE DEF joined, n
  <2>4. \A i \in DOMAIN joined :
          \/ /\ i \in DOMAIN metrics /\ joined[i] = metrics[i]
             /\ joined[i].by \notin toCollect
          \/ /\ i > n /\ joined[i].by = k /\ joined[i].place = i - n
    <3> SUFFICES ASSUME NEW i \in DOMAIN joined
                 PROVE  \/ /\ i \in DOMAIN metrics /\ joined[i] = metrics[i]
                           /\ joined[i].by \notin toCollect
                        \/ /\ i > n /\ joined[i].by = k /\ joined[i].place = i - n
      OBVIOUS
    <3>1. CASE i <= n
      <4>1. i \in DOMAIN metrics /\ joined[i] = metrics[i]
        BY <2>3, <3>1
      <4> QED
        BY <4>1 DEF MetricInv, InOrder
    <3>2. CASE ~(i <= n)
      <4>1. i - n \in DOMAIN output /\ joined[i] = output[i - n] /\ i > n
        BY <2>3, <3>2
      <4> QED
        BY <2>1, <4>1
    <3> QED
      BY <3>1, <3>2
  <2>5. Ordered(joined)
    <3> SUFFICES ASSUME NEW i \in DOMAIN joined, NEW j \in DOMAIN joined, i < j,
                        joined[i].by = joined[j].by
                 PROVE  joined[i].place < joined[j].place
      BY DEF Ordered
    <3>1. i \in Nat /\ j \in Nat /\ n \in Nat
      BY <2>3
    <3>2. CASE i \in DOMAIN metrics /\ j \in DOMAIN metrics
      <4>1. joined[i] = metrics[i] /\ joined[j] = metrics[j]
        BY <2>3, <3>2
      <4> QED
        BY <3>2, <4>1 DEF MetricInv, InOrder, Ordered
    <3>3. CASE i \notin DOMAIN metrics \/ j \notin DOMAIN metrics
      <4>1. joined[j].by = k /\ joined[j].place = j - n
        BY <1>2, <2>3, <2>4, <3>1, <3>3
      <4>2. joined[i].by = k /\ joined[i].place = i - n
        BY <1>2, <2>4, <4>1
      <4> QED
        BY <3>1, <4>1, <4>2
    <3> QED
      BY <3>2, <3>3
  <2>6. InOrder'
    <3>1. \A i \in DOMAIN joined : joined[i].by \notin toCollect \ {k}
      BY <2>4
    <3>2. \A o \in Owner :
            /\ Ordered(Aside(o))'
            /\ \A i \in DOMAIN Aside(o)', j \in DOMAIN metrics' :
                 Aside(o)'[i].by = metrics'[j].by =>
                   Aside(o)'[i].place < metrics'[j].place
      BY <1>2 DEF Ordered
    <3> QED
      BY <1>2, <2>2, <2>5, <3>1, <3>2 DEF InOrder, Ordered
  <2>7. Accounted'
    <3>1. \A o \in Owner : {m \in ToSet(metrics) : m.owner = o} =
                             {m \in returned : m.owner = o}
      <4>1. ToSet(<<>>) = {}
        BY DEF ToSet
      <4> QED
        BY <1>2, <4>1 DEF MetricInv, Accounted
    <3>2. \A o \in Owner : {m \in ToSet(joined) : m.owner = o} =
                             {m \in returned' : m.owner = o}
      BY <2>2, <2>3, <3>1
    <3>3. ToSet(<<>>) = {}
      BY DEF ToSet
    <3> QED
      BY <1>2, <2>2, <3>2, <3>3 DEF Accounted
  <2> QED
    BY <1>3, <2>6, <2>7 DEF MetricInv
<1> QED
  BY <1>4, <1>5

(* The first metric comes after all that its owner has, before the others.  *)
LEMMA MoveKeepsMetrics ==
  ASSUME BatchTypeOK, MetricInv, Moves
  PROVE  MetricInv'
<1> DEFINE m == Head(metrics)
           n == Len(metrics)
<1>1. /\ m \in Metric /\ m = metrics[1] /\ DOMAIN metrics = 1..n
      /\ n \in Nat \ {0} /\ DOMAIN metrics' = 1..n - 1
      /\ \A i \in 1..n - 1 : metrics'[i] = metrics[i + 1]
      /\ ToSet(metrics) = {m} \cup ToSet(metrics')
  BY TailElements DEF Moves, BatchTypeOK
<1>2. /\ toCollect = {} /\ toCollect' = {} /\ returned' = returned
      /\ offered = {} /\ offered' = {}
  BY DEF Moves, MetricInv, Phases
<1>3. \A o \in Owner :
        Aside(o)' = IF o = m.owner THEN Append(Aside(o), m) ELSE Aside(o)
  BY DEF Moves
<1>4. \A o \in Owner : Aside(o) \in Seq(Metric)
  BY AsideTyped
<1> HIDE DEF m, n
<1>5. Phases'
  BY <1>2 DEF Phases
<1>6. \A i \in 1..n - 1 : i + 1 \in 1..n /\ i + 1 > 1
  BY <1>1
<1>7. Ordered(metrics')
  <2> SUFFICES ASSUME NEW i \in 1..n - 1, NEW j \in 1..n - 1, i < j,
                      metrics'[i].by = metrics'[j].by
               PROVE  metrics'[i].place < metrics'[j].place
    BY <1>1 DEF Ordered
  <2>1. i + 1 < j + 1
    BY <1>1
  <2> QED
    BY <1>1, <1>6, <2>1 DEF MetricInv, InOrder, Ordered
<1>8. ASSUME NEW o \in Owner
      PROVE  /\ Ordered(Aside(o)')
             /\ \A i \in DOMAIN Aside(o)', j \in DOMAIN metrics' :
                  Aside(o)'[i].by = metrics'[j].by =>
                    Aside(o)'[i].place < metrics'[j].place
             /\ ToSet(Aside(o)') \cup {x \in ToSet(metrics') : x.owner = o}
                  = {x \in returned : x.owner = o}
  <2> DEFINE old == Aside(o)
             new == Aside(o)'
  <2>1. /\ old \in Seq(Metric) /\ Ordered(old)
        /\ \A i \in DOMAIN old, j \in 1..n :
             old[i].by = metrics[j].by => old[i].place < metrics[j].place
        /\ ToSet(old) \cup {x \in ToSet(metrics) : x.owner = o}
             = {x \in returned : x.owner = o}
    BY <1>1, <1>2, <1>4 DEF MetricInv, InOrder, Accounted
  <2>2. CASE o # m.owner
    <3>1. new = old
      BY <1>3, <2>2
    <3> HIDE DEF old, new
    <3>2. \A i \in DOMAIN new, j \in 1..n - 1 :
            new[i].by = metrics'[j].by => new[i].place < metrics'[j].place
      BY <1>1, <1>6, <2>1, <3>1
    <3>3. ToSet(new) \cup {x \in ToSet(metrics') : x.owner = o}
            = {x \in returned : x.owner = o}
      BY <1>1, <2>1, <2>2, <3>1
    <3>4. Ordered(new)
      BY <2>1, <3>1
    <3> QED
      BY <1>1, <3>2, <3>3, <3>4 DEF new
  <2>3. CASE o = m.owner
    <3>1. new = Append(old, m)
      BY <1>3, <2>3
    <3> HIDE DEF old, new
    <3>2. /\ DOMAIN new = 1..Len(old) + 1 /\ DOMAIN old = 1..Len(old)
          /\ Len(old) \in Nat
          /\ \A i \in 1..Len(old) : new[i] = old[i]
          /\ new[Len(old) + 1] = m
          /\ ToSet(new) = ToSet(old) \cup {m}
      BY <1>1, <2>1, <3>1, AppendElements
    <3>3. 1 \in 1..n
      BY <1>1
    <3>4. \A i \in DOMAIN new : \/ i \in DOMAIN old /\ new[i] = old[i]
                                \/ i = Len(old) + 1 /\ new[i] = m
      BY <3>2
    <3>5. Ordered(new)
      <4> SUFFICES ASSUME NEW i \in DOMAIN new, NEW j \in DOMAIN new, i < j,
                          new[i].by = new[j].by
                   PROVE  new[i].place < new[j].place
        BY DEF Ordered
      <4>1. i \in DOMAIN old /\ new[i] = old[i]
        BY <3>2
      <4>2. CASE j \in DOMAIN old /\ new[j] = old[j]
        BY <2>1, <4>1, <4>2 DEF Ordered
      <4>3. CASE new[j] = m
        BY <1>1, <2>1, <3>3, <4>1, <4>3
      <4> QED
        BY <3>4, <4>2, <4>3
    <3>6. \A i \in DOMAIN new, j \in 1..n - 1 :
            new[i].by = metrics'[j].by => new[i].place < metrics'[j].place
      <4> SUFFICES ASSUME NEW i \in DOMAIN new, NEW j \in 1..n - 1,
                          new[i].by = metrics'[j].by
                   PROVE  new[i].place < metrics'[j].place
        OBVIOUS
      <4>1. metrics'[j] = metrics[j + 1] /\ j + 1 \in 1..n /\ 1 < j + 1
        BY <1>1, <1>6
      <4>2. CASE i \in DOMAIN old /\ new[i] = old[i]
        BY <2>1, <4>1, <4>2
      <4>3. CASE new[i] = m
        BY <1>1, <3>3, <4>1, <4>3 DEF MetricInv, InOrder, Ordered
      <4> QED
        BY <3>4, <4>2, <4>3
    <3>7. ToSet(new) \cup {x \in ToSet(metrics') : x.owner = o}
            = {x \in returned : x.owner = o}
      BY <1>1, <2>1, <2>3, <3>2
    <3> QED
      BY <1>1, <3>5, <3>6, <3>7 DEF new
  <2> QED
    BY <2>2, <2>3
<1>9. InOrder'
  <2>1. \A i \in DOMAIN metrics' : metrics'[i].by \notin toCollect'
    BY <1>2
  <2> QED
    BY <1>7, <1>8, <2>1 DEF InOrder, Ordered
<1>10. Accounted'
  BY <1>2, <1>8 DEF Accounted
<1> QED
  BY <1>5, <1>9, <1>10 DEF MetricInv

(* What was put aside for an owner is the payload.                          *)
LEMMA OfferKeepsMetrics ==
  ASSUME BatchTypeOK, MetricInv, NEW o \in Owner, Offers(o)
  PROVE  MetricInv'
<1> DEFINE p == [owner |-> o, metrics |-> Aside(o)]
<1>1. /\ toCollect = {} /\ metrics = <<>> /\ Aside(o) # <<>>
      /\ \A q \in Owner : Aside(q)' = IF q = o THEN <<>> ELSE Aside(q)
      /\ offered' = offered \cup {p}
      /\ UNCHANGED <<toCollect, metrics, returned>>
  BY DEF Offers, LoopEnded
<1>2. ToSet(<<>>) = {} /\ Ordered(<<>>) /\ DOMAIN <<>> = {}
  BY DEF ToSet, Ordered
<1>3. Phases'
  BY <1>1 DEF Phases
<1>4. InOrder'
  <2>1. \A q \in Owner : Ordered(Aside(q)')
    BY <1>1, <1>2 DEF MetricInv, InOrder
  <2> QED
    BY <1>1, <1>2, <2>1 DEF InOrder, Ordered
<1>5. \A q \in offered : q.owner # o
  BY <1>1 DEF MetricInv, Accounted
<1>6. \A q \in offered : q.owner \in Owner
  BY DEF BatchTypeOK
<1>7. /\ p.owner = o /\ p.metrics = Aside(o)
      /\ Ordered(p.metrics)
      /\ ToSet(p.metrics) = {m \in returned : m.owner = o}
  <2>1. ToSet(Aside(o)) \cup {m \in ToSet(metrics) : m.owner = o}
          = {m \in returned : m.owner = o}
    BY <1>5 DEF MetricInv, Accounted
  <2> QED
    BY <1>1, <1>2, <2>1 DEF MetricInv, InOrder
<1> HIDE DEF p
<1>8. Accounted'
  <2>1. ASSUME NEW q \in offered'
        PROVE  /\ q.metrics # <<>> /\ Aside(q.owner)' = <<>>
               /\ Ordered(q.metrics)
               /\ ToSet(q.metrics) = {m \in returned' : m.owner = q.owner}
    <3>1. CASE q \in offered
      BY <1>1, <1>5, <1>6, <3>1 DEF MetricInv, Accounted
    <3>2. CASE q = p
      BY <1>1, <1>7, <3>2
    <3> QED
      BY <1>1, <2>1, <3>1, <3>2
  <2>2. \A q, r \in offered' : q.owner = r.owner => q = r
    BY <1>1, <1>5, <1>7 DEF MetricInv, Accounted
  <2>3. ASSUME NEW q \in Owner, \A r \in offered' : r.owner # q
        PROVE  ToSet(Aside(q)') \cup {m \in ToSet(metrics') : m.owner = q}
                 = {m \in returned' : m.owner = q}
    <3>1. q # o /\ \A r \in offered : r.owner # q
      BY <1>1, <1>7, <2>3
    <3> QED
      BY <1>1, <3>1 DEF MetricInv, Accounted
  <2> QED
    BY <2>1, <2>2, <2>3 DEF Accounted
<1> QED
  BY <1>3, <1>4, <1>8 DEF MetricInv

(* Steps of workers change no metric.                                       *)
LEMMA RestKeepsMetrics ==
  ASSUME BatchTypeOK, MetricInv, Rests
  PROVE  MetricInv'
<1>1. \A p \in offered : p.owner \in Owner
  BY DEF BatchTypeOK
<1>2. Phases'
  BY DEF Rests, MetricInv, Phases
<1>3. InOrder'
  BY DEF Rests, MetricInv, InOrder, Ordered
<1>4. Accounted'
  BY <1>1 DEF Rests, MetricInv, Accounted
<1> QED
  BY <1>2, <1>3, <1>4 DEF MetricInv

-----------------------------------------------------------------------------
(* The tags: what a sequence of metrics says, after one more ...            *)
LEMMA SaysOneMore ==
  ASSUME NEW s \in Seq(Metric), NEW m \in Metric, NEW status, Says(s, status)
  PROVE  Says(Append(s, m), IF m.name = "running" THEN Status(m) ELSE status)
<1> DEFINE t == Append(s, m)
           before == {i \in DOMAIN s : s[i].name = "running"}
           after == {i \in DOMAIN t : t[i].name = "running"}
<1>1. /\ DOMAIN t = 1..Len(s) + 1 /\ DOMAIN s = 1..Len(s) /\ Len(s) \in Nat
      /\ \A i \in 1..Len(s) : t[i] = s[i]
      /\ t[Len(s) + 1] = m
  BY AppendElements
<1> HIDE DEF t
<1>2. CASE m.name = "running"
  <2>1. Len(s) + 1 \in after /\ \A j \in after : j <= Len(s) + 1
    BY <1>1, <1>2
  <2>2. after # {} /\ Status(m) = Status(t[Len(s) + 1])
    BY <1>1, <2>1
  <2> HIDE DEF after
  <2>3. Says(t, Status(m))
    BY <2>1, <2>2 DEF Says, after
  <2> QED
    BY <1>2, <2>3 DEF t
<1>3. CASE m.name # "running"
  <2>1. after = before
    BY <1>1, <1>3
  <2>2. \A i \in before : t[i] = s[i]
    BY <1>1
  <2>3. Says(t, status)
    BY <2>1, <2>2 DEF Says
  <2> QED
    BY <1>3, <2>3 DEF t
<1> QED
  BY <1>2, <1>3

(* ... and the tags that the loop makes of it.                              *)
LEMMA OneMoreTag ==
  ASSUME NEW id \in ContainerID, NEW s \in Seq(Metric), NEW m \in Metric,
         NEW tags,
         \/ tags = BaseTags /\ s = <<>>
         \/ tags \in Tags /\ HasOwnTags(id, s, tags)
  PROVE  HasOwnTags(id, Append(s, m),
                    BuildStandardTags(WithStatus(tags, m), id))
<1> DEFINE new == BuildStandardTags(WithStatus(tags, m), id)
<1>1. Says(s, tags.status) /\ tags \in Tags
  <2>1. Says(<<>>, "none")
    BY DEF Says
  <2> QED
    BY <2>1, TagsTyped DEF HasOwnTags, BaseTags, Tags
<1>2. new \in Tags
  BY <1>1, TagsTyped DEF Owner
<1>3. new.status = IF m.name = "running" THEN Status(m) ELSE tags.status
  BY <1>1 DEF BuildStandardTags, WithStatus, Tags
<1>4. Says(Append(s, m), new.status)
  <2> HIDE DEF new
  <2> QED
    BY <1>1, <1>3, SaysOneMore
<1>5. new = [BuildStandardTags(BaseTags, id) EXCEPT !.status = new.status]
  <2> DEFINE plain == BuildStandardTags(BaseTags, id)
             with == [plain EXCEPT !.status = new.status]
  <2>1. plain \in Tags /\ with \in Tags
    <3>1. plain \in Tags
      <4>1. BaseTags \in Tags /\ id \in Owner
        BY DEF BaseTags, Tags, Owner
      <4> QED
        BY <4>1, TagsTyped
    <3>2. new.status \in {"none", "running", "stopped"}
      <4> HIDE DEF new
      <4> QED
        BY <1>2 DEF Tags
    <3> HIDE DEF plain, new
    <3>3. [plain EXCEPT !.status = new.status] \in Tags
      BY <3>1, <3>2 DEF Tags
    <3> QED
      BY <3>1, <3>3 DEF plain
  <2>2. /\ with.job = new.job /\ with.instance = new.instance
        /\ with.status = new.status
    BY <1>1 DEF BuildStandardTags, WithStatus, BaseTags, Tags
  <2> HIDE DEF new, with
  <2> QED
    BY <1>2, <2>1, <2>2 DEF Tags, with
<1> HIDE DEF new
<1>6. new # Nil
  BY <1>2, NilTagsAssumption
<1>7. HasOwnTags(id, Append(s, m), new)
  BY <1>4, <1>5, <1>6 DEF HasOwnTags
<1> QED
  BY <1>7 DEF new

(* A map that is referred to is not collected.                              *)
LEMMA SweptKeeps ==
  ASSUME NEW maps, NEW r \in Ref,
         \/ r = Base
         \/ \E id \in ContainerID : r = containerMetas'[id]
         \/ \E p \in ToSet(taskQueue') : r = p.tags
  PROVE  Swept(maps)[r] = maps[r]
BY DEF Swept

(* The map of the agent's Meta is there, and is no container's.             *)
LEMMA BaseFacts ==
  /\ BaseTags \in Tags /\ BaseTags # Nil /\ Base \in Ref
  /\ Nil \notin Ref
  /\ \A id \in ContainerID : id # Host
BY TagsTyped, NilTagsAssumption, NilAssumption, BatchNumbersAssumption,
   HostAssumption DEF Tags, BaseTags, Base, Ref

(* The map that is written is the container's own.                          *)
LEMMA AddKeepsMaps ==
  ASSUME BatchTypeOK, OwnMaps, AddContainerMetric
  PROVE  OwnMaps'
<1> DEFINE m == Head(metrics)
           id == m.owner
<1>1. m \in Metric /\ id \in ContainerID
  <2>1. m \in Metric
    BY TailElements DEF AddContainerMetric, BatchTypeOK
  <2> QED
    BY <2>1 DEF AddContainerMetric, Metric, Owner
<1>2. PICK r \in Ref :
        LET known == containerMetas[id] # Nil
            tags == IF known THEN heap[r] ELSE heap[Base]
        IN /\ IF known THEN r = containerMetas[id] ELSE CloneMetaWithTags(r)
           /\ heap' = [heap EXCEPT ![r] =
                         BuildStandardTags(WithStatus(tags, m), id)]
           /\ containerMetas' = [containerMetas EXCEPT ![id] = r]
  BY DEF AddContainerMetric
<1> DEFINE tags == IF containerMetas[id] # Nil THEN heap[r] ELSE heap[Base]
           new == BuildStandardTags(WithStatus(tags, m), id)
<1>3. /\ containerBatches' = [containerBatches EXCEPT ![id] =
                                Append(containerBatches[id], m)]
      /\ taskQueue' = taskQueue
  BY DEF AddContainerMetric
<1>4. /\ heap[Base] = BaseTags /\ BaseTags # Nil /\ Base \in Ref
      /\ Nil \notin Ref /\ BaseTags \in Tags
  BY BaseFacts DEF OwnMaps
<1>5. /\ containerBatches[id] \in Seq(Metric)
      /\ heap \in [Ref -> Tags \cup {Nil}]
      /\ containerMetas \in [ContainerID -> Ref \cup {Nil}]
      /\ containerBatches \in [ContainerID -> Seq(Metric)]
      /\ \A p \in ToSet(taskQueue) : p.tags \in Ref
  <2>1. \A p \in ToSet(taskQueue) : p.tags \in Ref
    BY QueueTyped DEF Payload
  <2> HIDE DEF m, id
  <2> QED
    BY <1>1, <2>1 DEF BatchTypeOK
<1>6. /\ r # Base
      /\ \A other \in ContainerID \ {id} : containerMetas[other] # r
      /\ \A p \in ToSet(taskQueue) : p.tags # r
  <2>1. CASE containerMetas[id] # Nil
    BY <1>1, <1>2, <2>1 DEF OwnMaps
  <2>2. CASE containerMetas[id] = Nil
    <3>1. heap[r] = Nil
      BY <1>2, <2>2 DEF CloneMetaWithTags
    <3> QED
      BY <1>2, <1>4, <3>1 DEF OwnMaps, HasOwnTags
  <2> QED
    BY <2>1, <2>2
<1>7. HasOwnTags(id, Append(containerBatches[id], m), new)
  <2>1. \/ tags = BaseTags /\ containerBatches[id] = <<>>
        \/ tags \in Tags /\ HasOwnTags(id, containerBatches[id], tags)
    <3>1. CASE containerMetas[id] = Nil
      BY <1>1, <1>4, <3>1 DEF OwnMaps
    <3>2. CASE containerMetas[id] # Nil
      <4>1. tags = heap[r] /\ r = containerMetas[id]
        BY <1>2, <3>2
      <4>2. HasOwnTags(id, containerBatches[id], tags)
        BY <1>1, <3>2, <4>1 DEF OwnMaps
      <4>3. tags \in Tags
        BY <1>5, <4>1, <4>2 DEF HasOwnTags
      <4> QED
        BY <4>2, <4>3
    <3> QED
      BY <3>1, <3>2
  <2> HIDE DEF tags, m
  <2> QED
    BY <1>1, <1>5, <2>1, OneMoreTag
<1>8. /\ heap'[r] = new
      /\ \A q \in Ref \ {r} : heap'[q] = heap[q]
      /\ containerMetas'[id] = r
      /\ \A other \in ContainerID \ {id} :
           /\ containerMetas'[other] = containerMetas[other]
           /\ containerBatches'[other] = containerBatches[other]
      /\ containerBatches'[id] = Append(containerBatches[id], m)
  BY <1>1, <1>2, <1>3, <1>5
<1> HIDE DEF new, m, id, tags
<1>9. ASSUME NEW other \in ContainerID
      PROVE  /\ containerMetas'[other] = Nil => containerBatches'[other] = <<>>
             /\ containerMetas'[other] # Nil =>
                  /\ containerMetas'[other] # Base
                  /\ HasOwnTags(other, containerBatches'[other],
                                heap'[containerMetas'[other]])
                  /\ \A third \in ContainerID \ {other} :
                       containerMetas'[third] # containerMetas'[other]
                  /\ \A p \in ToSet(taskQueue') :
                       p.tags # containerMetas'[other]
  <2>1. CASE other = id
    BY <1>3, <1>4, <1>6, <1>7, <1>8, <2>1
  <2>2. CASE other # id
    <3>1. /\ containerMetas'[other] = containerMetas[other]
          /\ containerBatches'[other] = containerBatches[other]
      BY <1>8, <2>2
    <3>2. CASE containerMetas[other] = Nil
      BY <3>1, <3>2 DEF OwnMaps
    <3>3. CASE containerMetas[other] # Nil
      <4>1. /\ containerMetas[other] \in Ref \ {r}
            /\ heap'[containerMetas[other]] = heap[containerMetas[other]]
        BY <1>5, <1>6, <1>8, <2>2, <3>3
      <4>2. \A third \in ContainerID \ {other} :
              containerMetas'[third] # containerMetas'[other]
        BY <1>8, <3>1, <3>3, <4>1 DEF OwnMaps
      <4> QED
        BY <1>3, <3>1, <3>3, <4>1, <4>2 DEF OwnMaps
    <3> QED
      BY <3>2, <3>3
  <2> QED
    BY <2>1, <2>2
<1>10. \A p \in ToSet(taskQueue') :
         p.tags # Base /\ HasOwnTags(p.owner, p.metrics, heap'[p.tags])
  BY <1>3, <1>5, <1>6, <1>8 DEF OwnMaps
<1>11. heap'[Base] = BaseTags
  BY <1>4, <1>6, <1>8
<1> QED
  BY <1>9, <1>10, <1>11 DEF OwnMaps

(* The other steps before the payloads are made write no map.               *)
LEMMA HostMetricKeepsMaps ==
  ASSUME OwnMaps, AddHostMetric \/ Ticks \/ UNCHANGED batchVars
  PROVE  OwnMaps'
BY DEF OwnMaps, AddHostMetric, Ticks, batchVars, loopVars

(* Neither does a collector.                                                *)
LEMMA ReturnKeepsMaps ==
  ASSUME OwnMaps, NEW k \in Collector, CollectorReturns(k)
  PROVE  OwnMaps'
BY DEF OwnMaps, CollectorReturns

(* A payload whose tags are its own may be offered, and the queue may be    *)
(* shorter: the maps that are still used stay as they are.                  *)
LEMMA SweptKeepsMaps ==
  ASSUME BatchTypeOK, OwnMaps, NEW maps, heap' = Swept(maps),
         \A r \in Ref : heap[r] # Nil => maps[r] = heap[r],
         \A id \in ContainerID :
           \/ /\ containerMetas'[id] = containerMetas[id]
              /\ containerBatches'[id] = containerBatches[id]
           \/ containerMetas'[id] = Nil /\ containerBatches'[id] = <<>>,
         \A p \in ToSet(taskQueue') :
           \/ p \in ToSet(taskQueue)
           \/ /\ p.tags \in Ref \ {Base}
              /\ HasOwnTags(p.owner, p.metrics, maps[p.tags])
              /\ \A id \in ContainerID : containerMetas'[id] # p.tags
  PROVE  OwnMaps'
<1>1. /\ heap[Base] = BaseTags /\ BaseTags # Nil /\ Base \in Ref
      /\ Nil \notin Ref
  BY BaseFacts DEF OwnMaps
<1>2. /\ \A p \in ToSet(taskQueue) : p.tags \in Ref
      /\ containerMetas \in [ContainerID -> Ref \cup {Nil}]
  BY QueueTyped DEF Payload, BatchTypeOK
<1>3. heap'[Base] = BaseTags
  <2>1. Swept(maps)[Base] = maps[Base]
    BY <1>1, SweptKeeps
  <2> QED
    BY <1>1, <2>1
<1>4. ASSUME NEW id \in ContainerID, containerMetas'[id] # Nil
      PROVE  /\ containerMetas'[id] # Base
             /\ HasOwnTags(id, containerBatches'[id], heap'[containerMetas'[id]])
             /\ \A other \in ContainerID \ {id} :
                  containerMetas'[other] # containerMetas'[id]
             /\ \A p \in ToSet(taskQueue') : p.tags # containerMetas'[id]
  <2>1. /\ containerMetas'[id] = containerMetas[id]
        /\ containerBatches'[id] = containerBatches[id]
    BY <1>4
  <2>2. /\ containerMetas[id] # Nil /\ containerMetas[id] \in Ref
        /\ containerMetas[id] # Base
        /\ HasOwnTags(id, containerBatches[id], heap[containerMetas[id]])
        /\ \A other \in ContainerID \ {id} :
             containerMetas[other] # containerMetas[id]
        /\ \A p \in ToSet(taskQueue) : p.tags # containerMetas[id]
    BY <1>2, <1>4, <2>1 DEF OwnMaps
  <2>3. maps[containerMetas[id]] = heap[containerMetas[id]]
    BY <2>2 DEF HasOwnTags
  <2>4. heap'[containerMetas[id]] = heap[containerMetas[id]]
    BY <2>1, <2>2, <2>3, SweptKeeps
  <2>5. \A other \in ContainerID \ {id} :
          containerMetas'[other] # containerMetas'[id]
    BY <1>4, <2>1, <2>2
  <2>6. \A p \in ToSet(taskQueue') : p.tags # containerMetas'[id]
    BY <2>1, <2>2
  <2> QED
    BY <2>1, <2>2, <2>4, <2>5, <2>6
<1>5. \A id \in ContainerID :
        containerMetas'[id] = Nil => containerBatches'[id] = <<>>
  BY DEF OwnMaps
<1>6. ASSUME NEW p \in ToSet(taskQueue')
      PROVE  p.tags # Base /\ HasOwnTags(p.owner, p.metrics, heap'[p.tags])
  <2>1. /\ p.tags \in Ref \ {Base}
        /\ HasOwnTags(p.owner, p.metrics, maps[p.tags])
    <3>1. CASE p \in ToSet(taskQueue)
      <4>1. /\ p.tags \in Ref \ {Base}
            /\ HasOwnTags(p.owner, p.metrics, heap[p.tags])
        BY <1>2, <3>1 DEF OwnMaps
      <4>2. maps[p.tags] = heap[p.tags]
        BY <4>1 DEF HasOwnTags
      <4> QED
        BY <4>1, <4>2
    <3>2. CASE p \notin ToSet(taskQueue)
      BY <1>6, <3>2
    <3> QED
      BY <3>1, <3>2
  <2>2. heap'[p.tags] = maps[p.tags]
    BY <1>6, <2>1, SweptKeeps
  <2> QED
    BY <2>1, <2>2
<1> QED
  BY <1>3, <1>4, <1>5, <1>6 DEF OwnMaps

(* What the queue holds after an offer.                                     *)
LEMMA OfferQueue ==
  ASSUME BatchTypeOK, NEW owner \in Owner, NEW batch \in Seq(Metric),
         NEW r \in Ref, Offer(owner, batch, r)
  PROVE  ToSet(taskQueue') \subseteq
           ToSet(taskQueue)
             \cup {[owner |-> owner, metrics |-> batch, tags |-> r]}
<1> DEFINE p == [owner |-> owner, metrics |-> batch, tags |-> r]
<1>1. taskQueue \in Seq(Payload) /\ p \in Payload
  BY QueueTyped DEF Payload
<1>2. taskQueue' = taskQueue \/ taskQueue' = Append(taskQueue, p)
  BY DEF Offer
<1> HIDE DEF p
<1>3. ToSet(taskQueue') \subseteq ToSet(taskQueue) \cup {p}
  <2>1. ToSet(Append(taskQueue, p)) = ToSet(taskQueue) \cup {p}
    BY <1>1, AppendElements
  <2>2. CASE taskQueue' = taskQueue
    BY <2>2
  <2>3. CASE taskQueue' = Append(taskQueue, p)
    BY <2>1, <2>3
  <2> QED
    BY <1>2, <2>2, <2>3
<1> QED
  BY <1>3 DEF p

(* The host's payload has a map made for it.                                *)
LEMMA OfferHostKeepsMaps ==
  ASSUME BatchTypeOK, MetricInv, OwnMaps, OfferHost
  PROVE  OwnMaps'
<1>1. PICK r \in Ref :
        /\ CloneMetaWithTags(r)
        /\ Offer(Host, hostMetrics, r)
        /\ heap' = Swept([heap EXCEPT ![r] =
                            BuildStandardTags(heap[Base], Host)])
  BY DEF OfferHost
<1> DEFINE tags == BuildStandardTags(heap[Base], Host)
           maps == [heap EXCEPT ![r] = tags]
           new == [owner |-> Host, metrics |-> hostMetrics, tags |-> r]
<1>2. /\ heap[Base] = BaseTags /\ BaseTags # Nil /\ BaseTags \in Tags
      /\ heap[r] = Nil /\ hostMetrics \in Seq(Metric) /\ Host \in Owner
      /\ heap \in [Ref -> Tags \cup {Nil}]
  BY <1>1, BaseFacts DEF OwnMaps, CloneMetaWithTags, BatchTypeOK, Owner
<1>3. Says(hostMetrics, "none")
  <2>1. /\ Aside(Host) = hostMetrics /\ hostMetrics # <<>>
        /\ \A p \in offered : p.owner # Host
    BY DEF OfferHost, Aside, MetricInv, Accounted
  <2>2. ToSet(hostMetrics) \subseteq {m \in returned : m.owner = Host}
    BY <1>2, <2>1 DEF MetricInv, Accounted
  <2>3. \A m \in returned : m.owner = Host => m.name = "cpu"
    BY DEF BatchTypeOK, Metric
  <2>4. \A i \in DOMAIN hostMetrics : hostMetrics[i].name = "cpu"
    BY <2>2, <2>3 DEF ToSet
  <2> QED
    BY <2>4 DEF Says
<1>4. HasOwnTags(Host, hostMetrics, tags)
  <2>1. tags \in Tags
    BY <1>2 DEF BuildStandardTags, Tags
  <2>2. tags.status = "none"
    BY <1>2 DEF BuildStandardTags, BaseTags
  <2>3. tags = BuildStandardTags(BaseTags, Host)
    BY <1>2
  <2> HIDE DEF tags
  <2>4. tags = [tags EXCEPT !.status = tags.status]
    BY <2>1 DEF Tags
  <2>5. tags # Nil
    BY <2>1, NilTagsAssumption
  <2> QED
    BY <1>3, <2>2, <2>3, <2>4, <2>5 DEF HasOwnTags
<1>5. ToSet(taskQueue') \subseteq ToSet(taskQueue) \cup {new}
  BY <1>1, <1>2, OfferQueue
<1>6. new.tags = r /\ new.owner = Host /\ new.metrics = hostMetrics
  OBVIOUS
<1>7. /\ maps[r] = tags
      /\ \A q \in Ref : heap[q] # Nil => maps[q] = heap[q]
  BY <1>2
<1>8. UNCHANGED <<containerMetas, containerBatches>> /\ heap' = Swept(maps)
  BY <1>1 DEF OfferHost
<1>9. r # Base /\ \A id \in ContainerID : containerMetas[id] # r
  <2>1. r # Nil
    BY BaseFacts
  <2> QED
    BY <1>2, <2>1 DEF OwnMaps, HasOwnTags
<1> HIDE DEF maps, new, tags
<1>10. \A p \in ToSet(taskQueue') :
         \/ p \in ToSet(taskQueue)
         \/ /\ p.tags \in Ref \ {Base}
            /\ HasOwnTags(p.owner, p.metrics, maps[p.tags])
            /\ \A id \in ContainerID : containerMetas'[id] # p.tags
  BY <1>4, <1>5, <1>6, <1>7, <1>8, <1>9
<1> QED
  BY <1>7, <1>8, <1>10, SweptKeepsMaps

(* A container's map goes to its payload.                                   *)
LEMMA OfferContainerKeepsMaps ==
  ASSUME BatchTypeOK, OwnMaps, NEW id \in ContainerID, OfferContainer(id)
  PROVE  OwnMaps'
<1> DEFINE r == containerMetas[id]
           new == [owner |-> id, metrics |-> containerBatches[id], tags |-> r]
<1>1. /\ r \in Ref \ {Base}
      /\ HasOwnTags(id, containerBatches[id], heap[r])
      /\ \A other \in ContainerID \ {id} : containerMetas[other] # r
      /\ containerBatches[id] \in Seq(Metric) /\ id \in Owner
  BY DEF OfferContainer, OwnMaps, BatchTypeOK, Owner
<1>2. ToSet(taskQueue') \subseteq ToSet(taskQueue) \cup {new}
  <2>1. Offer(id, containerBatches[id], r)
    BY DEF OfferContainer
  <2> HIDE DEF r
  <2> QED
    BY <1>1, <2>1, OfferQueue
<1>3. /\ containerMetas'[id] = Nil /\ containerBatches'[id] = <<>>
      /\ \A other \in ContainerID \ {id} :
           /\ containerMetas'[other] = containerMetas[other]
           /\ containerBatches'[other] = containerBatches[other]
      /\ heap' = Swept(heap)
  BY DEF OfferContainer, BatchTypeOK
<1>4. new.tags = r /\ new.owner = id /\ new.metrics = containerBatches[id]
  OBVIOUS
<1> HIDE DEF r, new
<1>5. \A other \in ContainerID : containerMetas'[other] # r
  BY <1>1, <1>3, BaseFacts
<1>6. \A p \in ToSet(taskQueue') :
        \/ p \in ToSet(taskQueue)
        \/ /\ p.tags \in Ref \ {Base}
           /\ HasOwnTags(p.owner, p.metrics, heap[p.tags])
           /\ \A other \in ContainerID : containerMetas'[other] # p.tags
  BY <1>1, <1>2, <1>4, <1>5
<1>7. \A other \in ContainerID :
        \/ /\ containerMetas'[other] = containerMetas[other]
           /\ containerBatches'[other] = containerBatches[other]
        \/ containerMetas'[other] = Nil /\ containerBatches'[other] = <<>>
  BY <1>3
<1> QED
  BY <1>3, <1>6, <1>7, SweptKeepsMaps

(* A worker leaves the queue shorter.                                       *)
LEMMA ReadKeepsMaps ==
  ASSUME BatchTypeOK, OwnMaps, WorkerReads
  PROVE  OwnMaps'
<1>1. taskQueue \in Seq(Payload) /\ taskQueue # <<>>
  BY QueueTyped DEF WorkerReads
<1>2. ToSet(Tail(taskQueue)) \subseteq ToSet(taskQueue)
  BY <1>1, TailElements
<1>3. /\ taskQueue' = Tail(taskQueue) /\ heap' = Swept(heap)
      /\ UNCHANGED <<containerMetas, containerBatches>>
  BY DEF WorkerReads, loopVars
<1> QED
  BY <1>2, <1>3, SweptKeepsMaps

-----------------------------------------------------------------------------
(* Together they are inductive.                                             *)
BatchInv == BatchTypeOK /\ MetricInv /\ OwnMaps

(* They hold when nothing has been collected, ...                           *)
LEMMA BatchInvInit == BatchInit => BatchInv
<1> SUFFICES ASSUME BatchInit PROVE BatchInv
  OBVIOUS
<1>1. ToSet(<<>>) = {} /\ Ordered(<<>>) /\ DOMAIN <<>> = {}
  BY DEF ToSet, Ordered
<1>2. \A o \in Owner : Aside(o) = <<>>
  BY DEF BatchInit, Aside, Owner
<1>3. BatchTypeOK
  BY BaseFacts, BatchNumbersAssumption DEF BatchInit, BatchTypeOK
<1>4. MetricInv
  BY <1>1, <1>2 DEF BatchInit, MetricInv, Phases, InOrder, Accounted
<1>5. OwnMaps
  BY <1>1, BaseFacts DEF BatchInit, OwnMaps
<1> QED
  BY <1>3, <1>4, <1>5 DEF BatchInv

(* ... and each step keeps them.                                            *)
LEMMA BatchInvStep == BatchInv /\ [BatchNext]_batchVars => BatchInv'
<1> SUFFICES ASSUME BatchInv, [BatchNext]_batchVars PROVE BatchInv'
  OBVIOUS
<1>1. BatchTypeOK /\ MetricInv /\ OwnMaps
  BY DEF BatchInv
<1>2. BatchTypeOK'
  BY <1>1, TypesKept
<1>3. MetricInv'
  BY <1>1, StepCases, TickKeepsMetrics, ReturnKeepsMetrics, MoveKeepsMetrics,
     OfferKeepsMetrics, RestKeepsMetrics
<1>4. OwnMaps'
  BY <1>1, AddKeepsMaps, HostMetricKeepsMaps, ReturnKeepsMaps,
     OfferHostKeepsMaps, OfferContainerKeepsMaps, ReadKeepsMaps DEF BatchNext
<1> QED
  BY <1>2, <1>3, <1>4 DEF BatchInv

(* The invariant holds in every reachable state of the metric runner.       *)
THEOREM BatchInvariance == BatchSpec => []BatchInv
BY BatchInvInit, BatchInvStep, PTL DEF BatchSpec

(* The runner's maps, slices and payloads are well typed.                   *)
THEOREM BatchTypeCorrect == BatchSpec => []BatchTypeOK
<1>1. BatchInv => BatchTypeOK
  BY DEF BatchInv
<1> QED
  BY <1>1, BatchInvariance, PTL

(* When the tick has ended, nothing is put aside any more.                  *)
LEMMA InvOnePlace == BatchInv => OnePlace
<1> SUFFICES ASSUME BatchInv PROVE OnePlace
  OBVIOUS
<1>1. BatchTypeOK /\ Accounted
  BY DEF BatchInv, MetricInv
<1>2. ASSUME TickEnded
      PROVE  {p.owner : p \in offered} = {m.owner : m \in returned}
  <2>1. metrics = <<>> /\ \A o \in Owner : Aside(o) = <<>>
    BY <1>2 DEF TickEnded, LoopEnded, Aside, Owner
  <2>2. ASSUME NEW p \in offered PROVE \E m \in returned : m.owner = p.owner
    <3>1. /\ p.metrics # <<>> /\ p.metrics \in Seq(Metric)
          /\ ToSet(p.metrics) = {m \in returned : m.owner = p.owner}
      BY <1>1, <2>2 DEF Accounted, BatchTypeOK
    <3>2. Head(p.metrics) \in ToSet(p.metrics)
      BY <3>1, TailElements
    <3> QED
      BY <3>1, <3>2
  <2>3. ASSUME NEW m \in returned PROVE \E p \in offered : p.owner = m.owner
    <3>1. m.owner \in Owner
      BY <1>1 DEF BatchTypeOK, Metric
    <3>2. ToSet(<<>>) = {}
      BY DEF ToSet
    <3> QED
      BY <1>1, <2>1, <3>1, <3>2 DEF Accounted
  <2> QED
    BY <2>2, <2>3
<1> QED
  BY <1>1, <1>2 DEF OnePlace, Accounted

(* Run of metricrunner loses, doubles and confuses no metric of a tick.     *)
THEOREM MetricsInOnePlace == BatchSpec => []OnePlace
BY BatchInvariance, InvOnePlace, PTL

(* No tick changes the tags of a payload that waits, or the agent's own.    *)
THEOREM TagsAreOwn == BatchSpec => []OwnTags
<1>1. BatchInv => OwnTags
  BY DEF BatchInv, OwnMaps, OwnTags
<1> QED
  BY <1>1, BatchInvariance, PTL

-----------------------------------------------------------------------------
(* The parts of MCCollection: each moves by itself.                         *)
MCInv == RateInv /\ TopInv /\ TopTypeOK /\ BatchInv

(* Whichever part goes on, all start well.                                  *)
LEMMA InitMCInv == MCInit => MCInv
<1> SUFFICES ASSUME MCInit PROVE MCInv
  OBVIOUS
<1>1. RateInv /\ BatchInv
  BY InitRateInv, BatchInvInit DEF MCInit
<1>2. CASE TopIdle
  <2>1. all = <<>> /\ snapshot = {} /\ pc = "done" /\ DOMAIN <<>> = {}
    BY <1>2 DEF TopIdle
  <2>2. <<>> \in [1..0 -> Info] /\ 0 \in Nat /\ 0 <= MaxProcesses
    BY TopAssumption
  <2>3. all \in BoundedSeq(Info, MaxProcesses) /\ AllTyped
    BY <2>1, <2>2, TopAssumption DEF AllTyped, BoundedSeq, SeqOf
  <2>4. Cardinality(snapshot) = 0 /\ 0 <= 2 * topN
    BY <2>1, FS_EmptySet, TopAssumption
  <2>5. TopCPUSent /\ MemoryDecidesNothing
    BY <2>1, <2>4 DEF TopCPUSent, MemoryDecidesNothing
  <2> QED
    BY <1>1, <2>1, <2>3, <2>5 DEF MCInv, TopInv, TopTypeOK
<1>3. CASE TopInit
  BY <1>1, <1>3, InitTopInv DEF MCInv
<1> QED
  BY <1>2, <1>3 DEF MCInit

(* One step keeps what is known of each.                                    *)
LEMMA NextMCInv ==
  MCInv /\ [MCNext]_<<part, vars, topVars, batchVars>> => MCInv'
<1> SUFFICES ASSUME MCInv, [MCNext]_<<part, vars, topVars, batchVars>>
             PROVE  MCInv'
  OBVIOUS
<1>1. [Next]_vars /\ [CollectProcesses]_topVars /\ [BatchNext]_batchVars
  BY DEF MCNext
<1> QED
  BY <1>1, NextRateInv, NextTopInv, BatchInvStep DEF MCInv

(* The invariant holds in every reachable state of the collection.          *)
THEOREM MCInvariance == MCSpec => []MCInv
BY InitMCInv, NextMCInv, PTL DEF MCSpec

(* The states of the collection are well typed in all parts.                *)
THEOREM CollectionTypeCorrect == MCSpec => []MCTypeOK
<1>1. MCInv => MCTypeOK
  BY DEF MCInv, MCTypeOK, RateInv, BatchInv
<1> QED
  BY <1>1, MCInvariance, PTL
=============================================================================
