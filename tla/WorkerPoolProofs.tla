-------------------------- MODULE WorkerPoolProofs --------------------------
(***************************************************************************)
(* Proofs about the three pipelines, for any number of workers, any queue  *)
(* and any number of payloads: every payload is accounted for, process and *)
(* log senders leave no Send behind, few payloads are refused, and each    *)
(* pipeline is a LossyChannel.                                             *)
(*                                                                         *)
(* The properties are not inductive.  PoolInv adds what a worker in each   *)
(* place has in its hands (Hands), that the queue holds the payloads       *)
(* marked as queued, and that whatever a worker has is older than all of   *)
(* the queue (Queued); for the refused payloads, that without a stream     *)
(* only workers already past the check can be refused (AtRisk).            *)
(***************************************************************************)
EXTENDS WorkerPool, SequenceTheorems, FiniteSetTheorems, TLAPS

Offering == rpc = "offer" => left >= 1 /\ last + left <= MaxPayload

Hands ==
  \A w \in Worker :
    /\ wpc[w] = "held" => item[w] \in Payload /\ phase[item[w]] = "held"
    /\ wpc[w] = "await" => /\ item[w] \in Payload
                           /\ phase[item[w]] \in InFlight \cup {"delivered", "failed"}
    /\ wpc[w] \notin {"held", "await"} => item[w] = 0

Distinct == \A v, w \in Worker : item[v] = item[w] /\ item[v] # 0 => v = w

Held ==
  \A p \in Payload : phase[p] = "held" =>
    \E w \in Worker : item[w] = p /\ wpc[w] = "held"

Queued ==
  /\ \A p \in Payload : phase[p] = "new" <=> p > last
  /\ \A i \in 1..Len(queue) : phase[queue[i]] = "queued"
  /\ \A p \in Payload : phase[p] = "queued" =>
       \E i \in 1..Len(queue) : queue[i] = p
  /\ \A i, j \in 1..Len(queue) : i < j => queue[i] < queue[j]
  /\ \A w \in Worker, i \in 1..Len(queue) : item[w] # 0 => item[w] < queue[i]

Refused == PayloadsIn({"refused"})
AtRisk == {w \in Worker : wpc[w] \in {"pull", "held"}}

Owned == Hands /\ Distinct /\ Held /\ Queued /\ NoOrphanSend

FewRefused ==
  /\ RefusedBounded
  /\ streamNil => Cardinality(Refused) + Cardinality(AtRisk)
                    <= clears * Cardinality(Worker)

PoolInv ==
  /\ TypeOK /\ Offering
  /\ Owned
  /\ FewRefused

WorkerPC == {"check", "nap", "pull", "held", "await", "exit"}

(* Steps by what they do to the payloads: a worker moves without one, takes *)
(* one from the queue, gets rid of one that Send is done with, or payloads  *)
(* inside stream.Send make progress (with the manager's moves).             *)
WorkerFrame ==
  UNCHANGED <<kind, cell, clears, ctxDone, crashed, rpc, left, last, received>>

Moves(w) ==
  /\ wpc[w] \in {"check", "nap", "pull"}
  /\ \E to \in {"check", "nap", "pull", "exit"} :
       /\ to = "pull" => ~streamNil
       /\ wpc' = [wpc EXCEPT ![w] = to]
  /\ UNCHANGED <<item, phase, queue>>

Takes(w) ==
  /\ wpc[w] = "pull" /\ queue # <<>>
  /\ wpc' = [wpc EXCEPT ![w] = "held"]
  /\ item' = [item EXCEPT ![w] = Head(queue)]
  /\ phase' = [phase EXCEPT ![Head(queue)] = "held"]
  /\ queue' = Tail(queue)

Leaves(w) ==
  /\ wpc[w] = "await"
  /\ kind # "metric" => phase[item[w]] \in {"delivered", "failed"}
  /\ wpc' = [wpc EXCEPT ![w] = "check"]
  /\ item' = [item EXCEPT ![w] = 0]
  /\ UNCHANGED <<phase, queue>>

Flight ==
  /\ UNCHANGED <<kind, rpc, left, last, queue, wpc, item>>
  /\ phase' \in [Payload -> Phase]
  /\ \A p \in Payload :
       \/ phase'[p] = phase[p]
       \/ phase[p] \in InFlight /\ phase'[p] \in InFlight \cup {"delivered", "failed"}
  /\ \/ UNCHANGED clears /\ (streamNil' => streamNil)
     \/ ~streamNil /\ clears' = clears + 1

-----------------------------------------------------------------------------
(* Types.                                                                   *)

(* Types of the parts of the state, in the form in which the steps use them.*)
LEMMA Types ==
  ASSUME TypeOK
  PROVE  /\ queue \in Seq(Payload) /\ Len(queue) \in Nat
         /\ queue \in [1..Len(queue) -> Payload]
         /\ phase \in [Payload -> Phase] /\ Payload \subseteq Nat
         /\ wpc \in [Worker -> WorkerPC]
         /\ item \in [Worker -> {0} \cup Payload]
         /\ last \in 0..MaxPayload /\ MaxPayload \in Nat /\ 0 \notin Payload
         /\ kind \in Kinds
         /\ cell \in [Kinds -> {"nil", "live", "dead"}]
BY LenProperties, MaxPayloadAssumption
DEF TypeOK, Payload, WorkerPC, Cell!CellTypeOK

(* Taking the first payload, or adding one, gives a queue again.            *)
LEMMA QueueSteps ==
  ASSUME TypeOK
  PROVE  /\ queue # <<>> =>
              /\ Head(queue) \in Payload /\ Tail(queue) \in Seq(Payload)
              /\ Len(Tail(queue)) = Len(queue) - 1 /\ Len(queue) >= 1
              /\ Head(queue) = queue[1]
              /\ \A i \in 1..Len(queue) - 1 : Tail(queue)[i] = queue[i + 1]
         /\ \A p \in Payload :
              /\ Append(queue, p) \in Seq(Payload)
              /\ Len(Append(queue, p)) = Len(queue) + 1
              /\ Append(queue, p)[Len(queue) + 1] = p
              /\ \A i \in 1..Len(queue) : Append(queue, p)[i] = queue[i]
<1>1. queue \in Seq(Payload) /\ Len(queue) \in Nat
  BY Types
<1>2. ASSUME queue # <<>>
      PROVE  /\ Head(queue) \in Payload /\ Tail(queue) \in Seq(Payload)
             /\ Len(Tail(queue)) = Len(queue) - 1 /\ Len(queue) >= 1
             /\ Head(queue) = queue[1]
             /\ \A i \in 1..Len(queue) - 1 : Tail(queue)[i] = queue[i + 1]
  BY <1>1, <1>2, HeadTailProperties, EmptySeq
<1>3. ASSUME NEW p \in Payload
      PROVE  /\ Append(queue, p) \in Seq(Payload)
             /\ Len(Append(queue, p)) = Len(queue) + 1
             /\ Append(queue, p)[Len(queue) + 1] = p
             /\ \A i \in 1..Len(queue) : Append(queue, p)[i] = queue[i]
  BY <1>1, <1>3, AppendProperties
<1> QED
  BY <1>2, <1>3

(* The runner never offers more payloads than there are.                    *)
LEMMA OfferNumber ==
  ASSUME TypeOK, Offering, rpc = "offer"
  PROVE  /\ last + 1 \in Payload /\ left - 1 \in 0..MaxBatch
         /\ left # 1 => left - 1 >= 1
BY MaxBatchAssumption, MaxPayloadAssumption DEF TypeOK, Offering, Payload

(* Steps of the runner keep the types.                                      *)
LEMMA RunnerTyped ==
  ASSUME TypeOK, Offering, MetricRunner \/ ProcessRunner \/ LogRunner
  PROVE  (TypeOK /\ Offering)'
<1>1. ASSUME RunnerStops("select") \/ RunnerStops("offer")
      PROVE  (TypeOK /\ Offering)'
  BY <1>1 DEF RunnerStops, TypeOK, Offering, workerVars, Cell!CellTypeOK
<1>2. ASSUME RunnerTick(1..MaxBatch) \/ RunnerTick({1})
      PROVE  (TypeOK /\ Offering)'
  <2>1. left' \in 1..MaxBatch
    BY <1>2, MaxBatchAssumption DEF RunnerTick
  <2>2. left' \in 0..MaxBatch /\ left' >= 1
    BY <2>1, MaxBatchAssumption
  <2> QED
    BY <1>2, <2>2
    DEF RunnerTick, TypeOK, Offering, workerVars, Cell!CellTypeOK
<1>3. ASSUME Offer PROVE (TypeOK /\ Offering)'
  <2>1. /\ last + 1 \in Payload /\ left - 1 \in 0..MaxBatch
        /\ left # 1 => left - 1 >= 1
    BY <1>3, OfferNumber DEF Offer
  <2>2. queue' \in Seq(Payload) /\ Len(queue') <= QueueCap
    <3>1. CASE Len(queue) < QueueCap /\ queue' = Append(queue, last + 1)
      <4>1. Append(queue, last + 1) \in Seq(Payload)
            /\ Len(Append(queue, last + 1)) = Len(queue) + 1
        BY <2>1, QueueSteps
      <4> QED
        BY <3>1, <4>1, Types, QueueCapAssumption
    <3>2. CASE queue' = queue
      BY <3>2 DEF TypeOK
    <3> QED
      BY <1>3, <3>1, <3>2 DEF Offer
  <2>3. phase' \in [Payload -> Phase]
    BY <1>3, <2>1 DEF Offer, TypeOK, Phase
  <2>4. last' \in 0..MaxPayload
    BY <1>3, <2>1 DEF Offer, Payload
  <2>5. rpc' = "offer" => left' >= 1 /\ last' + left' <= MaxPayload
    BY <1>3, <2>1, Types DEF Offer, Offering, TypeOK
  <2> QED
    BY <1>3, <2>1, <2>2, <2>3, <2>4, <2>5
    DEF Offer, TypeOK, Offering, workerVars, Cell!CellTypeOK
<1> QED
  BY <1>1, <1>2, <1>3 DEF MetricRunner, ProcessRunner, LogRunner

(* What a step of a worker can be.                                          *)
LEMMA WorkerCases ==
  ASSUME NEW w \in Worker, WorkerStep(w)
  PROVE  /\ WorkerFrame
         /\ \/ Moves(w) \/ Takes(w) \/ SendRefused(w) \/ SendConverts(w)
            \/ Leaves(w)
<1> USE DEF WorkerFrame, Goto, runnerVars
<1>1. ASSUME WorkerCheck(w) PROVE WorkerFrame /\ Moves(w)
  BY <1>1 DEF WorkerCheck, Moves
<1>2. ASSUME WorkerNap(w) PROVE WorkerFrame /\ Moves(w)
  BY <1>2 DEF WorkerNap, Moves
<1>3. ASSUME WorkerPull(w) PROVE WorkerFrame /\ (Takes(w) \/ Moves(w))
  BY <1>3 DEF WorkerPull, Moves, Takes
<1>4. ASSUME SendRefused(w) \/ SendConverts(w) PROVE WorkerFrame
  BY <1>4 DEF SendRefused, SendConverts
<1>5. ASSUME SendReturns(w) PROVE WorkerFrame /\ Leaves(w)
  BY <1>5 DEF SendReturns, Leaves
<1>6. ASSUME kind = "metric", SendTimesOut(w) PROVE WorkerFrame /\ Leaves(w)
  BY <1>6 DEF SendTimesOut, Leaves
<1> QED
  BY <1>1, <1>2, <1>3, <1>4, <1>5, <1>6
  DEF WorkerStep, MetricWorker, ProcessWorker, LogWorker, WorkerLoop,
    SendMetrics, SendSnapshot, SendLogs, Send

(* Steps of a worker keep the types.                                        *)
LEMMA WorkerTyped ==
  ASSUME TypeOK, Offering, Hands, NEW w \in Worker, WorkerStep(w)
  PROVE  (TypeOK /\ Offering)'
<1> DEFINE Typed == /\ wpc' \in [Worker -> WorkerPC]
                    /\ item' \in [Worker -> {0} \cup Payload]
                    /\ phase' \in [Payload -> Phase]
                    /\ queue' \in Seq(Payload) /\ Len(queue') <= QueueCap
<1>1. ASSUME Moves(w) PROVE Typed
  BY <1>1, Types DEF Moves, WorkerPC, TypeOK
<1>2. ASSUME Takes(w) PROVE Typed
  <2>1. /\ Head(queue) \in Payload /\ Tail(queue) \in Seq(Payload)
        /\ Len(Tail(queue)) = Len(queue) - 1 /\ Len(queue) \in Nat
    BY <1>2, Types, QueueSteps DEF Takes
  <2>2. Len(Tail(queue)) <= QueueCap
    BY <2>1, QueueCapAssumption DEF TypeOK
  <2>3. item' \in [Worker -> {0} \cup Payload]
    BY <1>2, <2>1, Types DEF Takes
  <2>4. phase' \in [Payload -> Phase]
    BY <1>2, <2>1, Types DEF Takes, Phase
  <2>5. wpc' \in [Worker -> WorkerPC]
    BY <1>2, Types DEF Takes, WorkerPC
  <2> QED
    BY <1>2, <2>1, <2>2, <2>3, <2>4, <2>5 DEF Takes
<1>3. ASSUME SendRefused(w) PROVE Typed
  BY <1>3, Types DEF SendRefused, Goto, WorkerPC, Phase, TypeOK
<1>4. ASSUME SendConverts(w) PROVE Typed
  BY <1>4, Types DEF SendConverts, Goto, WorkerPC, Phase, TypeOK
<1>5. ASSUME Leaves(w) PROVE Typed
  BY <1>5, Types DEF Leaves, WorkerPC, TypeOK
<1> QED
  BY <1>1, <1>2, <1>3, <1>4, <1>5, WorkerCases
  DEF TypeOK, Offering, WorkerPC, WorkerFrame, Cell!CellTypeOK

(* What the steps of the others can be.                                     *)
LEMMA OtherCases ==
  ASSUME TypeOK,
         \/ \E p \in Payload : SendStep(p)
         \/ ManagerMoves \/ StreamDies
  PROVE  Flight
<1> USE DEF Flight, Phase, InFlight, streamNil, runnerVars, workerVars
<1>1. ASSUME NEW p \in Payload, SendReadsStream(p) PROVE Flight
  BY Types, <1>1 DEF SendReadsStream
<1>2. ASSUME NEW p \in Payload, SendDelivers(p) PROVE Flight
  BY Types, <1>2 DEF SendDelivers
<1>3. ASSUME NEW p \in Payload, SendFails(p) PROVE Flight
  BY Types, <1>3 DEF SendFails
<1>4. ASSUME ManagerMoves PROVE Flight
  BY Types, <1>4 DEF ManagerMoves, Ended, Cell!Open
<1>5. ASSUME StreamDies PROVE Flight
  BY Types, <1>5 DEF StreamDies, Ended, Cell!Die
<1> QED
  BY <1>1, <1>2, <1>3, <1>4, <1>5 DEF SendStep

(* Steps of the others keep the types.                                      *)
LEMMA OthersTyped ==
  ASSUME TypeOK, Offering,
         \/ \E p \in Payload : SendStep(p)
         \/ ManagerMoves \/ StreamDies \/ Cancel
  PROVE  (TypeOK /\ Offering)'
<1> USE DEF runnerVars, workerVars
<1>1. ASSUME NEW p \in Payload, SendStep(p) PROVE (TypeOK /\ Offering)'
  <2>1. received' \in Seq(Payload)
    <3>1. ASSUME received' = Append(received, p) PROVE received' \in Seq(Payload)
      BY <3>1, AppendProperties DEF TypeOK
    <3> QED
      BY <1>1, <3>1 DEF TypeOK, SendStep, SendReadsStream, SendDelivers, SendFails
  <2>2. phase' \in [Payload -> Phase] /\ crashed' \in BOOLEAN
    BY <1>1, OtherCases DEF TypeOK, Flight, SendStep, SendReadsStream,
      SendDelivers, SendFails
  <2> QED
    BY <1>1, <2>1, <2>2 DEF TypeOK, Offering, SendStep, SendReadsStream,
      SendDelivers, SendFails, Cell!CellTypeOK
<1>2. ASSUME ManagerMoves \/ StreamDies PROVE (TypeOK /\ Offering)'
  <2>1. phase' \in [Payload -> Phase]
    BY <1>2, OtherCases DEF Flight
  <2>2. cell' \in [Kinds -> {"nil", "live", "dead"}]
    BY <1>2, Types DEF ManagerMoves, StreamDies, Cell!Open, Cell!Clear, Cell!Die
  <2>3. clears' \in 0..MaxClears
    BY <1>2, MaxClearsAssumption DEF ManagerMoves, StreamDies, TypeOK
  <2>4. UNCHANGED <<kind, ctxDone, crashed, rpc, left, last, queue, wpc, item, received>>
    BY <1>2 DEF ManagerMoves, StreamDies
  <2> QED
    BY <2>1, <2>2, <2>3, <2>4 DEF TypeOK, Offering, Cell!CellTypeOK
<1>3. ASSUME Cancel PROVE (TypeOK /\ Offering)'
  BY <1>3 DEF Cancel, TypeOK, Offering, Cell!CellTypeOK
<1> QED
  BY <1>1, <1>2, <1>3

-----------------------------------------------------------------------------
(* Who has which payload.                                                   *)

(* A payload that the runner offers is queued behind the others or dropped. *)
LEMMA OfferOwned ==
  ASSUME TypeOK, Offering, Owned, Offer
  PROVE  Owned'
<1> DEFINE n == last + 1
<1>1. n \in Payload /\ n > last /\ phase[n] = "new"
  BY OfferNumber, Types DEF Offer, Owned, Queued, Payload
<1>2. UNCHANGED <<kind, wpc, item>> /\ last' = n
  BY DEF Offer, workerVars
<1>3. /\ \A p \in Payload : p # n => phase'[p] = phase[p]
      /\ phase'[n] \in {"queued", "dropped"}
  BY <1>1, Types DEF Offer
<1>4. Hands' /\ Distinct' /\ Held' /\ NoOrphanSend'
  BY <1>1, <1>2, <1>3
  DEF Owned, Hands, Distinct, Held, NoOrphanSend, PayloadsIn, InFlight
<1>5. Queued'
  <2>1. \A p \in Payload : phase'[p] = "new" <=> p > last'
    BY <1>1, <1>2, <1>3, Types DEF Owned, Queued, Payload
  <2>2. \A w \in Worker : item[w] # 0 => item[w] < n
    <3>1. \A w \in Worker : item[w] # 0 => item[w] \in Payload /\ phase[item[w]] # "new"
      BY Types DEF Owned, Hands, InFlight
    <3> QED
      BY <3>1, <1>1, Types DEF Owned, Queued, Payload
  <2>3. \A i \in 1..Len(queue) : /\ queue[i] \in Payload
                                      /\ queue[i] < n /\ queue[i] # n
    BY <1>1, Types DEF Owned, Queued, Payload
  <2>4. CASE queue' = Append(queue, n) /\ phase'[n] = "queued"
    <3>1. /\ Len(queue') = Len(queue) + 1 /\ queue'[Len(queue) + 1] = n
          /\ \A i \in 1..Len(queue) : queue'[i] = queue[i]
          /\ Len(queue) \in Nat
      BY <2>4, <1>1, QueueSteps, Types
    <3>2. \A i \in 1..Len(queue') : i \in 1..Len(queue) \/ i = Len(queue) + 1
      BY <3>1
    <3>3. \A i \in 1..Len(queue') : phase'[queue'[i]] = "queued"
      BY <2>3, <2>4, <3>1, <3>2, <1>3 DEF Owned, Queued
    <3>4. \A p \in Payload : phase'[p] = "queued" =>
            \E i \in 1..Len(queue') : queue'[i] = p
      <4> SUFFICES ASSUME NEW p \in Payload, phase'[p] = "queued"
                   PROVE  \E i \in 1..Len(queue') : queue'[i] = p
        OBVIOUS
      <4>1. CASE p = n
        <5>1. Len(queue) + 1 \in 1..Len(queue')
          BY <3>1
        <5> QED
          BY <4>1, <5>1, <3>1
      <4>2. CASE p # n
        <5>1. PICK i \in 1..Len(queue) : queue[i] = p
          BY <4>2, <1>3 DEF Owned, Queued
        <5>2. i \in 1..Len(queue')
          BY <3>1
        <5> QED
          BY <5>1, <5>2, <3>1
      <4> QED
        BY <4>1, <4>2
    <3>5. \A i, j \in 1..Len(queue') : i < j => queue'[i] < queue'[j]
      <4> SUFFICES ASSUME NEW i \in 1..Len(queue'), NEW j \in 1..Len(queue'), i < j
                   PROVE  queue'[i] < queue'[j]
        OBVIOUS
      <4>1. i \in 1..Len(queue)
        BY <3>1
      <4>2. CASE j \in 1..Len(queue)
        BY <4>1, <4>2, <3>1 DEF Owned, Queued
      <4>3. CASE j = Len(queue) + 1
        BY <4>1, <4>3, <3>1, <2>3
      <4> QED
        BY <4>2, <4>3, <3>2
    <3>6. \A w \in Worker, i \in 1..Len(queue') : item[w] # 0 => item[w] < queue'[i]
      BY <2>2, <3>1, <3>2 DEF Owned, Queued
    <3> QED
      BY <2>1, <3>3, <3>4, <3>5, <3>6, <1>2 DEF Queued
  <2>5. CASE queue' = queue /\ phase'[n] = "dropped"
    <3>1. \A i \in 1..Len(queue) : phase'[queue[i]] = "queued"
      BY <1>3, <2>3 DEF Owned, Queued
    <3>2. \A p \in Payload : phase'[p] = "queued" =>
            \E i \in 1..Len(queue) : queue[i] = p
      BY <1>3, <2>5 DEF Owned, Queued
    <3> QED
      BY <2>1, <2>5, <3>1, <3>2, <1>2 DEF Owned, Queued
  <2> QED
    BY <2>4, <2>5, <1>1, Types DEF Offer
<1> QED
  BY <1>4, <1>5 DEF Owned

(* A worker takes the oldest queued payload; all others stay where they are.*)
LEMMA TakesOwned ==
  ASSUME TypeOK, Owned, NEW w \in Worker, WorkerFrame, Takes(w)
  PROVE  Owned'
<1> DEFINE h == Head(queue)
<1>1. /\ h \in Payload /\ h = queue[1] /\ Len(queue) \in Nat /\ Len(queue) >= 1
      /\ Len(queue') = Len(queue) - 1
      /\ \A i \in 1..Len(queue') : queue'[i] = queue[i + 1]
  BY QueueSteps, Types DEF Takes
<1>2. phase[h] = "queued" /\ (\A v \in Worker : item[v] # h) /\ item[w] = 0
  <2>1. 1 \in 1..Len(queue)
    BY <1>1
  <2>2. phase[h] = "queued"
    BY <1>1, <2>1 DEF Owned, Queued
  <2>3. \A v \in Worker : item[v] # h
    BY <1>1, <2>2, Types DEF Owned, Hands, InFlight
  <2> QED
    BY <2>2, <2>3 DEF Owned, Hands, Takes
<1>3. /\ \A p \in Payload : p # h => phase'[p] = phase[p]
      /\ phase'[h] = "held"
      /\ \A v \in Worker : v # w => item'[v] = item[v] /\ wpc'[v] = wpc[v]
      /\ item'[w] = h /\ wpc'[w] = "held"
  BY <1>1, Types DEF Takes
<1>4. Hands'
  BY <1>1, <1>2, <1>3 DEF Owned, Hands, InFlight
<1>5. Distinct'
  BY <1>2, <1>3 DEF Owned, Distinct
<1>6. Held'
  BY <1>2, <1>3, Types DEF Owned, Held, Takes
<1>7. NoOrphanSend'
  BY <1>2, <1>3, Types
  DEF Owned, NoOrphanSend, PayloadsIn, InFlight, Takes, WorkerFrame
<1>8. Queued'
  <2>1. \A i \in 1..Len(queue') : i \in 1..Len(queue) /\ i + 1 \in 1..Len(queue) /\ 1 < i + 1
    BY <1>1
  <2>2. \A i \in 1..Len(queue') : /\ queue'[i] \in Payload
                                /\ h < queue'[i] /\ h # queue'[i]
    <3> SUFFICES ASSUME NEW i \in 1..Len(queue')
                 PROVE  /\ queue'[i] \in Payload
                        /\ h < queue'[i] /\ h # queue'[i]
      OBVIOUS
    <3>1. /\ 1 \in 1..Len(queue) /\ i + 1 \in 1..Len(queue) /\ 1 < i + 1
          /\ queue'[i] = queue[i + 1]
      BY <2>1, <1>1
    <3>2. queue[1] < queue[i + 1]
      BY <3>1 DEF Owned, Queued
    <3>3. queue[1] \in Nat /\ queue[i + 1] \in Payload /\ queue[i + 1] \in Nat
      BY <3>1, Types
    <3> QED
      BY <3>1, <3>2, <3>3, <1>1
  <2>3. \A i \in 1..Len(queue') : \E k \in 1..Len(queue) : queue'[i] = queue[k]
    BY <2>1, <1>1
  <2>4. \A i \in 1..Len(queue') : phase'[queue'[i]] = "queued"
    BY <2>2, <2>3, <1>3 DEF Owned, Queued
  <2>5. \A p \in Payload : phase'[p] = "queued" =>
          \E i \in 1..Len(queue') : queue'[i] = p
    <3> SUFFICES ASSUME NEW p \in Payload, phase'[p] = "queued"
                 PROVE  \E i \in 1..Len(queue') : queue'[i] = p
      OBVIOUS
    <3>1. p # h /\ phase[p] = "queued"
      BY <1>3
    <3>2. PICK i \in 1..Len(queue) : queue[i] = p
      BY <3>1 DEF Owned, Queued
    <3>3. i # 1 /\ i - 1 \in 1..Len(queue') /\ (i - 1) + 1 = i
      BY <3>1, <3>2, <1>1
    <3> QED
      BY <3>2, <3>3, <1>1
  <2>6. \A i, j \in 1..Len(queue') : i < j => queue'[i] < queue'[j]
    <3> SUFFICES ASSUME NEW i \in 1..Len(queue'), NEW j \in 1..Len(queue'), i < j
                 PROVE  queue'[i] < queue'[j]
      OBVIOUS
    <3>1. i + 1 \in 1..Len(queue) /\ j + 1 \in 1..Len(queue) /\ i + 1 < j + 1
      BY <2>1, <1>1
    <3>2. queue[i + 1] < queue[j + 1]
      BY <3>1 DEF Owned, Queued
    <3> QED
      BY <3>2, <1>1
  <2>7. \A v \in Worker, i \in 1..Len(queue') : item'[v] # 0 => item'[v] < queue'[i]
    BY <2>2, <2>3, <1>3 DEF Owned, Queued
  <2>8. \A p \in Payload : phase'[p] = "new" <=> p > last'
    BY <1>2, <1>3 DEF Owned, Queued, WorkerFrame
  <2> QED
    BY <2>4, <2>5, <2>6, <2>7, <2>8 DEF Queued
<1> QED
  BY <1>4, <1>5, <1>6, <1>7, <1>8 DEF Owned

(* Steps that neither queue nor take a payload: those that are queued or    *)
(* new stay so, and a worker keeps its payload or lets go of it.            *)
LEMMA QueueStays ==
  ASSUME TypeOK, Owned, UNCHANGED <<queue, last>>,
         \A p \in Payload : \/ phase'[p] = phase[p]
                            \/ /\ phase[p] \notin {"new", "queued"}
                               /\ phase'[p] \notin {"new", "queued"},
         \A v \in Worker : item'[v] \in {item[v], 0}
  PROVE  Queued'
BY Types DEF Owned, Queued

(* A worker that moves without a payload changes nobody's payload.          *)
LEMMA MovesOwned ==
  ASSUME TypeOK, Owned, NEW w \in Worker, WorkerFrame, Moves(w)
  PROVE  Owned'
<1>1. /\ \A v \in Worker : v # w => wpc'[v] = wpc[v]
      /\ wpc[w] \notin {"held", "await"} /\ wpc'[w] \notin {"held", "await"}
      /\ UNCHANGED <<item, phase, queue, last, kind>>
  BY Types DEF Moves, WorkerFrame
<1>2. Hands' /\ Distinct'
  BY <1>1 DEF Owned, Hands, Distinct
<1>3. Held'
  BY <1>1 DEF Owned, Held
<1>4. NoOrphanSend'
  BY <1>1 DEF Owned, NoOrphanSend, PayloadsIn
<1>5. Queued'
  BY <1>1, QueueStays
<1> QED
  BY <1>2, <1>3, <1>4, <1>5 DEF Owned

(* A refused payload leaves its worker.                                     *)
LEMMA RefusedOwned ==
  ASSUME TypeOK, Owned, NEW w \in Worker, WorkerFrame, SendRefused(w)
  PROVE  Owned'
<1> DEFINE h == item[w]
<1>1. h \in Payload /\ h # 0 /\ phase[h] = "held"
  BY Types DEF SendRefused, Goto, Owned, Hands
<1>2. /\ \A p \in Payload : p # h => phase'[p] = phase[p]
      /\ phase'[h] = "refused"
      /\ \A v \in Worker : v # w => item'[v] = item[v] /\ wpc'[v] = wpc[v]
      /\ wpc[w] = "held" /\ item'[w] = 0 /\ wpc'[w] = "check"
      /\ UNCHANGED <<queue, last, kind>>
  BY <1>1, Types DEF SendRefused, Goto, WorkerFrame
<1>3. \A v \in Worker : v # w => item[v] # h
  BY <1>1 DEF Owned, Distinct
<1>4. Hands'
  BY <1>2, <1>3 DEF Owned, Hands, InFlight
<1>5. Distinct'
  BY <1>2 DEF Owned, Distinct
<1>6. Held'
  BY <1>1, <1>2 DEF Owned, Held
<1>7. NoOrphanSend'
  BY <1>1, <1>2 DEF Owned, NoOrphanSend, PayloadsIn, InFlight
<1>8. Queued'
  BY <1>1, <1>2, QueueStays
<1> QED
  BY <1>4, <1>5, <1>6, <1>7, <1>8 DEF Owned

(* A payload that is converted stays with its worker, which now awaits Send.*)
LEMMA ConvertsOwned ==
  ASSUME TypeOK, Owned, NEW w \in Worker, WorkerFrame, SendConverts(w)
  PROVE  Owned'
<1> DEFINE h == item[w]
<1>1. h \in Payload /\ phase[h] = "held"
  BY Types DEF SendConverts, Goto, Owned, Hands
<1>2. /\ \A p \in Payload : p # h => phase'[p] = phase[p]
      /\ phase'[h] = "sending"
      /\ \A v \in Worker : v # w => wpc'[v] = wpc[v]
      /\ wpc[w] = "held" /\ wpc'[w] = "await"
      /\ UNCHANGED <<item, queue, last, kind>>
  BY <1>1, Types DEF SendConverts, Goto, WorkerFrame
<1>3. \A v \in Worker : v # w => item[v] # h
  BY <1>1, Types DEF Owned, Distinct
<1>4. Hands' /\ Distinct'
  BY <1>1, <1>2, <1>3 DEF Owned, Hands, Distinct, InFlight
<1>5. Held'
  BY <1>2 DEF Owned, Held
<1>6. NoOrphanSend'
  BY <1>1, <1>2 DEF Owned, NoOrphanSend, PayloadsIn, InFlight
<1>7. Queued'
  BY <1>1, <1>2, QueueStays
<1> QED
  BY <1>4, <1>5, <1>6, <1>7 DEF Owned

(* A worker that leaves Send, with or without a result, lets go of its      *)
(* payload; a process or log worker only of one that is done.               *)
LEMMA LeavesOwned ==
  ASSUME TypeOK, Owned, NEW w \in Worker, WorkerFrame, Leaves(w)
  PROVE  Owned'
<1>1. /\ \A v \in Worker : v # w => item'[v] = item[v] /\ wpc'[v] = wpc[v]
      /\ wpc[w] = "await" /\ item'[w] = 0 /\ wpc'[w] = "check"
      /\ kind # "metric" => phase[item[w]] \in {"delivered", "failed"}
      /\ UNCHANGED <<queue, phase, last, kind>>
  BY Types DEF Leaves, WorkerFrame
<1>2. Hands' /\ Distinct'
  BY <1>1 DEF Owned, Hands, Distinct
<1>3. Held'
  BY <1>1 DEF Owned, Held
<1>4. NoOrphanSend'
  BY <1>1 DEF Owned, NoOrphanSend, PayloadsIn, InFlight
<1>5. Queued'
  BY <1>1, QueueStays
<1> QED
  BY <1>2, <1>3, <1>4, <1>5 DEF Owned

(* Progress inside stream.Send keeps every payload with its worker.         *)
LEMMA FlightOwned ==
  ASSUME TypeOK, Owned, Flight
  PROVE  Owned'
<1>1. /\ UNCHANGED <<kind, last, queue, wpc, item>>
      /\ \A p \in Payload :
           \/ phase'[p] = phase[p]
           \/ phase[p] \in InFlight /\ phase'[p] \in InFlight \cup {"delivered", "failed"}
  BY DEF Flight
<1>2. Hands'
  BY <1>1 DEF Owned, Hands, InFlight
<1>3. Distinct'
  BY <1>1 DEF Owned, Distinct
<1>4. Held'
  BY <1>1 DEF Owned, Held, InFlight
<1>5. NoOrphanSend'
  BY <1>1 DEF Owned, NoOrphanSend, PayloadsIn, InFlight
<1>6. Queued'
  BY <1>1, QueueStays DEF InFlight
<1> QED
  BY <1>2, <1>3, <1>4, <1>5, <1>6 DEF Owned

-----------------------------------------------------------------------------
(* How many payloads are refused.                                           *)

(* Refused payloads and workers past the check can be counted.              *)
LEMMA Counts ==
  ASSUME TypeOK
  PROVE  /\ IsFiniteSet(Refused) /\ IsFiniteSet(AtRisk)
         /\ Cardinality(Refused) \in Nat /\ Cardinality(AtRisk) \in Nat
         /\ Cardinality(Worker) \in Nat
         /\ Cardinality(AtRisk) <= Cardinality(Worker)
         /\ clears \in Nat
<1>1. IsFiniteSet(Payload)
  BY FS_Interval, MaxPayloadAssumption DEF Payload
<1>2. Refused \in SUBSET Payload /\ AtRisk \in SUBSET Worker
  BY DEF Refused, AtRisk, PayloadsIn
<1>3. /\ IsFiniteSet(Refused) /\ IsFiniteSet(AtRisk)
      /\ Cardinality(AtRisk) <= Cardinality(Worker)
  BY <1>1, <1>2, FS_Subset, WorkerAssumption
<1>4. clears \in Nat
  BY MaxClearsAssumption DEF TypeOK
<1> QED
  BY <1>3, <1>4, FS_CardinalityType, WorkerAssumption

(* One more clear allows for one more refused payload per worker.           *)
LEMMA OneMoreClear ==
  \A c, n \in Nat : c * n \in Nat /\ (c + 1) * n = c * n + n
OBVIOUS

(* No step but a refusal refuses, and without a stream no worker passes the *)
(* check.                                                                   *)
LEMMA FewerAtRisk ==
  ASSUME TypeOK, FewRefused, UNCHANGED clears, Refused' = Refused,
         streamNil' => streamNil /\ AtRisk' \subseteq AtRisk
  PROVE  FewRefused'
<1>1. RefusedBounded'
  BY DEF FewRefused, RefusedBounded, Refused
<1>2. ASSUME streamNil'
      PROVE  Cardinality(Refused') + Cardinality(AtRisk')
               <= clears' * Cardinality(Worker)
  <2>1. /\ Cardinality(AtRisk') <= Cardinality(AtRisk)
        /\ Cardinality(AtRisk') \in Nat
    BY <1>2, Counts, FS_Subset, FS_CardinalityType
  <2>2. Cardinality(Refused) + Cardinality(AtRisk) <= clears * Cardinality(Worker)
    BY <1>2 DEF FewRefused
  <2>3. clears * Cardinality(Worker) \in Nat
    BY Counts, OneMoreClear
  <2> QED
    BY <2>1, <2>2, <2>3, Counts
<1> QED
  BY <1>1, <1>2 DEF FewRefused

(* When the stream is cleared, each worker may lose the payload it is about *)
(* to take.                                                                 *)
LEMMA ClearFewRefused ==
  ASSUME TypeOK, FewRefused, ~streamNil, clears' = clears + 1,
         UNCHANGED <<phase, wpc>> \/ (Refused' = Refused /\ AtRisk' = AtRisk)
  PROVE  FewRefused'
<1>1. Refused' = Refused /\ AtRisk' = AtRisk
  BY DEF Refused, AtRisk, PayloadsIn
<1>2. /\ clears * Cardinality(Worker) \in Nat
      /\ clears' * Cardinality(Worker)
           = clears * Cardinality(Worker) + Cardinality(Worker)
  BY Counts, OneMoreClear
<1>3. Cardinality(Refused) <= clears * Cardinality(Worker)
  BY DEF FewRefused, RefusedBounded, Refused
<1>4. Cardinality(Refused') + Cardinality(AtRisk') <= clears' * Cardinality(Worker)
  BY <1>1, <1>2, <1>3, Counts
<1>5. Cardinality(Refused') <= clears' * Cardinality(Worker)
  BY <1>1, <1>2, <1>3, Counts
<1> QED
  BY <1>4, <1>5 DEF FewRefused, RefusedBounded, Refused

(* A worker whose payload is refused is past the check no more.             *)
LEMMA RefusalFewRefused ==
  ASSUME TypeOK, Owned, FewRefused, NEW w \in Worker, WorkerFrame, SendRefused(w)
  PROVE  FewRefused'
<1> DEFINE h == item[w]
<1>1. h \in Payload /\ phase[h] = "held" /\ wpc[w] = "held" /\ streamNil
  BY Types DEF SendRefused, Goto, Owned, Hands
<1>2. Refused' = Refused \cup {h} /\ h \notin Refused
  BY <1>1, Types DEF SendRefused, Refused, PayloadsIn
<1>3. AtRisk' = AtRisk \ {w} /\ w \in AtRisk
  BY <1>1, Types DEF SendRefused, Goto, AtRisk
<1>4. /\ Cardinality(Refused') = Cardinality(Refused) + 1
      /\ Cardinality(AtRisk') = Cardinality(AtRisk) - 1
  BY <1>2, <1>3, Counts, FS_AddElement, FS_RemoveElement
<1>5. Cardinality(Refused) + Cardinality(AtRisk) <= clears * Cardinality(Worker)
  BY <1>1 DEF FewRefused
<1>6. Cardinality(AtRisk') \in Nat
  BY <1>3, Counts, FS_RemoveElement, FS_CardinalityType
<1>7. clears * Cardinality(Worker) \in Nat
  BY Counts, OneMoreClear
<1>8. /\ Cardinality(Refused') + Cardinality(AtRisk')
           <= clears * Cardinality(Worker)
      /\ Cardinality(Refused') <= clears * Cardinality(Worker)
  BY <1>4, <1>5, <1>6, <1>7, Counts
<1> QED
  BY <1>8 DEF FewRefused, RefusedBounded, Refused, WorkerFrame

(* All steps of a worker.                                                   *)
LEMMA WorkerFewRefused ==
  ASSUME TypeOK, Owned, FewRefused, NEW w \in Worker, WorkerStep(w)
  PROVE  FewRefused'
<1> USE DEF Goto
<1>1. WorkerFrame /\ streamNil' = streamNil
  BY WorkerCases DEF WorkerFrame, streamNil
<1>2. ASSUME Moves(w) PROVE FewRefused'
  <2>1. Refused' = Refused
    BY <1>2 DEF Moves, Refused, PayloadsIn
  <2>2. streamNil' => AtRisk' \subseteq AtRisk
    BY <1>1, <1>2, Types DEF Moves, AtRisk
  <2> QED
    BY <1>1, <2>1, <2>2, FewerAtRisk DEF WorkerFrame
<1>3. ASSUME Takes(w) PROVE FewRefused'
  <2>1. Head(queue) \in Payload /\ phase[Head(queue)] = "queued"
    <3>1. Head(queue) = queue[1] /\ 1 \in 1..Len(queue) /\ Head(queue) \in Payload
      BY <1>3, QueueSteps, Types DEF Takes
    <3> QED
      BY <3>1 DEF Owned, Queued
  <2>2. Refused' = Refused /\ AtRisk' = AtRisk
    BY <1>3, <2>1, Types DEF Takes, Refused, PayloadsIn, AtRisk
  <2> QED
    BY <1>1, <2>2, FewerAtRisk DEF WorkerFrame
<1>4. ASSUME SendConverts(w) PROVE FewRefused'
  <2>1. item[w] \in Payload /\ phase[item[w]] = "held"
    BY <1>4 DEF SendConverts, Owned, Hands
  <2>2. Refused' = Refused
    BY <1>4, <2>1, Types DEF SendConverts, Refused, PayloadsIn
  <2>3. ~streamNil
    BY <1>4 DEF SendConverts
  <2> QED
    BY <1>1, <2>2, <2>3, FewerAtRisk DEF WorkerFrame
<1>5. ASSUME Leaves(w) PROVE FewRefused'
  <2>1. Refused' = Refused /\ AtRisk' \subseteq AtRisk
    BY <1>5, Types DEF Leaves, Refused, PayloadsIn, AtRisk
  <2> QED
    BY <1>1, <2>1, FewerAtRisk DEF WorkerFrame
<1> QED
  BY <1>1, <1>2, <1>3, <1>4, <1>5, WorkerCases, RefusalFewRefused

(* Steps of the others: clearing the stream is the one that may cost.       *)
LEMMA FlightFewRefused ==
  ASSUME TypeOK, FewRefused, Flight
  PROVE  FewRefused'
<1>1. Refused' = Refused /\ AtRisk' = AtRisk
  BY Types DEF Flight, Refused, PayloadsIn, InFlight, AtRisk
<1>2. CASE UNCHANGED clears /\ (streamNil' => streamNil)
  BY <1>1, <1>2, FewerAtRisk
<1>3. CASE ~streamNil /\ clears' = clears + 1
  BY <1>1, <1>3, ClearFewRefused
<1> QED
  BY <1>2, <1>3 DEF Flight

-----------------------------------------------------------------------------
(* PoolInv is inductive.                                                    *)

(* It holds at the start.                                                   *)
LEMMA InitPool ==
  ASSUME Init
  PROVE  PoolInv
<1>1. TypeOK
  <2>1. queue \in Seq(Payload) /\ Len(queue) <= QueueCap /\ received \in Seq(Payload)
    BY EmptySeq, QueueCapAssumption DEF Init
  <2>2. clears \in 0..MaxClears /\ left \in 0..MaxBatch /\ last \in 0..MaxPayload
    BY MaxClearsAssumption, MaxBatchAssumption, MaxPayloadAssumption DEF Init
  <2>3. phase \in [Payload -> Phase] /\ Cell!CellTypeOK
    BY DEF Init, Phase, Cell!CellInit, Cell!CellTypeOK
  <2> QED
    BY <2>1, <2>2, <2>3 DEF Init, TypeOK
<1>2. Offering
  BY DEF Init, Offering
<1>3. Owned
  BY <1>1, EmptySeq DEF Init, Owned, Hands, Distinct, Held, Queued, NoOrphanSend,
    PayloadsIn, InFlight, Payload
<1>4. Refused = {} /\ AtRisk = {} /\ clears = 0
  BY DEF Init, Refused, PayloadsIn, AtRisk
<1>5. FewRefused
  BY <1>1, <1>4, Counts, FS_EmptySet DEF FewRefused, RefusedBounded, Refused
<1> QED
  BY <1>1, <1>2, <1>3, <1>5 DEF PoolInv

(* Every step of the runner keeps it.                                       *)
LEMMA RunnerKeepsPool ==
  ASSUME PoolInv, MetricRunner \/ ProcessRunner \/ LogRunner
  PROVE  PoolInv'
<1>1. (TypeOK /\ Offering)'
  BY RunnerTyped DEF PoolInv
<1>2. ASSUME Offer PROVE Owned' /\ FewRefused'
  <2>1. last + 1 \in Payload /\ phase[last + 1] = "new"
    BY <1>2, OfferNumber, Types DEF PoolInv, Offer, Owned, Queued, Payload
  <2>2. Refused' = Refused /\ AtRisk' = AtRisk
    BY <1>2, <2>1, Types DEF PoolInv, Offer, Refused, PayloadsIn, AtRisk, workerVars
  <2>3. FewRefused'
    BY <1>2, <2>2, FewerAtRisk DEF PoolInv, Offer, streamNil
  <2> QED
    BY <1>2, <2>3, OfferOwned DEF PoolInv
<1>3. ASSUME UNCHANGED <<kind, cell, clears, last, queue, phase, wpc, item>>
      PROVE  Owned' /\ FewRefused'
  BY <1>3 DEF PoolInv, Owned, Hands, Distinct, Held, Queued, NoOrphanSend,
    FewRefused, RefusedBounded, Refused, AtRisk, PayloadsIn, streamNil
<1> QED
  BY <1>1, <1>2, <1>3 DEF PoolInv, MetricRunner, ProcessRunner, LogRunner,
    RunnerStops, RunnerTick, workerVars

(* So does every step of a worker.                                          *)
LEMMA WorkerKeepsPool ==
  ASSUME PoolInv, NEW w \in Worker, WorkerStep(w)
  PROVE  PoolInv'
<1>1. (TypeOK /\ Offering)'
  BY WorkerTyped DEF PoolInv, Owned
<1>2. Owned'
  BY WorkerCases, MovesOwned, TakesOwned, RefusedOwned, ConvertsOwned,
    LeavesOwned DEF PoolInv
<1>3. FewRefused'
  BY WorkerFewRefused DEF PoolInv
<1> QED
  BY <1>1, <1>2, <1>3 DEF PoolInv

(* So do progress inside stream.Send, the manager and the signal handler.   *)
LEMMA OthersKeepPool ==
  ASSUME PoolInv,
         \/ \E p \in Payload : SendStep(p)
         \/ ManagerMoves \/ StreamDies \/ Cancel
  PROVE  PoolInv'
<1>1. (TypeOK /\ Offering)'
  BY OthersTyped DEF PoolInv
<1>2. ASSUME Flight PROVE Owned' /\ FewRefused'
  BY <1>2, FlightOwned, FlightFewRefused DEF PoolInv
<1>3. ASSUME Cancel PROVE Owned' /\ FewRefused'
  BY <1>3 DEF Cancel, PoolInv, Owned, Hands, Distinct, Held, Queued,
    NoOrphanSend, FewRefused, RefusedBounded, Refused, AtRisk, PayloadsIn,
    streamNil, runnerVars, workerVars
<1> QED
  BY <1>1, <1>2, <1>3, OtherCases DEF PoolInv

(* PoolInv holds in every state of every behaviour of the pipelines.        *)
THEOREM PoolInvariance == Spec => []PoolInv
<1>1. ASSUME PoolInv, [Next]_vars PROVE PoolInv'
  <2>1. CASE UNCHANGED vars
    BY <1>1, <2>1 DEF vars, runnerVars, workerVars, PoolInv, TypeOK, Offering,
      Owned, Hands, Distinct, Held, Queued, NoOrphanSend, FewRefused,
      RefusedBounded, Refused, AtRisk, PayloadsIn, streamNil, Cell!CellTypeOK
  <2>2. CASE Next
    BY <1>1, <2>2, RunnerKeepsPool, WorkerKeepsPool, OthersKeepPool
    DEF Next, Runner
  <2> QED
    BY <1>1, <2>1, <2>2
<1> QED
  BY <1>1, InitPool, PTL DEF Spec

(* The state keeps its types: the queue its capacity, every counter its     *)
(* bound.                                                                   *)
THEOREM PoolTypeCorrect == Spec => []TypeOK
<1>1. PoolInv => TypeOK
  BY DEF PoolInv
<1> QED
  BY <1>1, PoolInvariance, PTL

(* No payload is in two places or in none: whatever the runner, the workers *)
(* and the manager do, the queue holds the queued payloads in the order of  *)
(* collection and each payload in hand belongs to one worker.               *)
THEOREM NoneLostOrDoubled == Spec => []PayloadsAccounted
<1>1. PoolInv => PayloadsAccounted
  <2> SUFFICES ASSUME PoolInv PROVE PayloadsAccounted
    OBVIOUS
  <2>1. {queue[i] : i \in 1..Len(queue)} = PayloadsIn({"queued"})
    BY Types DEF PoolInv, Owned, Queued, PayloadsIn
  <2>2. \A p \in PayloadsIn({"held"}) :
          \E w \in Worker : item[w] = p /\ wpc[w] = "held"
    BY DEF PoolInv, Owned, Held, PayloadsIn
  <2> QED
    BY <2>1, <2>2 DEF PoolInv, Owned, Queued, Distinct, PayloadsAccounted
<1> QED
  BY <1>1, PoolInvariance, PTL

(* A process or log payload inside stream.Send has its worker waiting.      *)
THEOREM SendsAreAwaited == Spec => []NoOrphanSend
<1>1. PoolInv => NoOrphanSend
  BY DEF PoolInv, Owned
<1> QED
  BY <1>1, PoolInvariance, PTL

(* Clearing the stream k times refuses at most k payloads per worker.       *)
THEOREM FewAreRefused == Spec => []RefusedBounded
<1>1. PoolInv => RefusedBounded
  BY DEF PoolInv, FewRefused
<1> QED
  BY <1>1, PoolInvariance, PTL

-----------------------------------------------------------------------------
(* Each pipeline is a lossy channel.                                        *)

Pending == PayloadsIn({"queued", "held"} \cup InFlight)

(* A single process or log worker delivers the oldest pending payload.      *)
LEMMA OldestFirst ==
  ASSUME PoolInv, kind # "metric", Cardinality(Worker) = 1,
         NEW p \in Payload, phase[p] = "onLive",
         NEW q \in Pending
  PROVE  p <= q
<1>1. PICK w : Worker = {w}
  BY FS_Singleton, WorkerAssumption
<1>2. item[w] = p /\ p \in Nat /\ p # 0
  BY <1>1, Types DEF PoolInv, Owned, NoOrphanSend, PayloadsIn, InFlight
<1>3. CASE phase[q] = "queued"
  <2>1. PICK i \in 1..Len(queue) : queue[i] = q
    BY <1>3 DEF PoolInv, Owned, Queued, Pending, PayloadsIn
  <2>2. item[w] < queue[i]
    BY <1>1, <1>2 DEF PoolInv, Owned, Queued
  <2> QED
    BY <1>2, <2>1, <2>2, Types DEF PoolInv, Pending, PayloadsIn
<1>4. CASE phase[q] = "held"
  BY <1>1, <1>2, <1>4 DEF PoolInv, Owned, Held, Pending, PayloadsIn
<1>5. CASE phase[q] \in InFlight
  BY <1>1, <1>2, <1>5 DEF PoolInv, Owned, NoOrphanSend, Pending, PayloadsIn
<1> QED
  BY <1>3, <1>4, <1>5 DEF Pending, PayloadsIn

(* What the runner does to the channel: it accepts or drops the next        *)
(* payload, or does nothing.                                                *)
LEMMA RunnerOnChannel ==
  ASSUME PoolInv, Runner
  PROVE  [Channel!ChannelNext]_(Channel!channelVars)
<1> USE DEF Channel!ChannelNext, Channel!channelVars, runnerVars, workerVars
<1>1. ASSUME Offer PROVE Channel!ChannelNext
  <2>1. last + 1 \in Payload /\ phase[last + 1] = "new"
    BY <1>1, OfferNumber, Types DEF PoolInv, Offer, Owned, Queued, Payload
  <2>2. CASE phase' = [phase EXCEPT ![last + 1] = "queued"]
    <3>1. Pending' = Pending \cup {last + 1}
      BY <2>1, <2>2, Types DEF PoolInv, Pending, PayloadsIn, InFlight
    <3>2. Channel!Accept
      BY <1>1, <3>1 DEF Offer, Channel!Accept, Pending
    <3> QED
      BY <1>1, <3>2 DEF Offer
  <2>3. CASE phase' = [phase EXCEPT ![last + 1] = "dropped"]
    <3>1. Pending' = Pending
      BY <2>1, <2>3, Types DEF PoolInv, Pending, PayloadsIn, InFlight
    <3>2. Channel!Drop
      BY <1>1, <3>1 DEF Offer, Channel!Drop, Pending
    <3> QED
      BY <1>1, <3>2 DEF Offer
  <2> QED
    BY <1>1, <2>2, <2>3 DEF Offer
<1>2. ASSUME UNCHANGED <<kind, last, phase, received>>
      PROVE  UNCHANGED Channel!channelVars
  BY <1>2 DEF PayloadsIn
<1> QED
  BY <1>1, <1>2 DEF Runner, MetricRunner, ProcessRunner, LogRunner,
    RunnerStops, RunnerTick

(* What a worker does to it: it loses the payload that Send refuses.        *)
LEMMA WorkerOnChannel ==
  ASSUME PoolInv, NEW w \in Worker, WorkerStep(w)
  PROVE  [Channel!ChannelNext]_(Channel!channelVars)
<1> USE DEF Channel!ChannelNext, Channel!channelVars, WorkerFrame
<1>1. WorkerFrame
  BY WorkerCases
<1>2. ASSUME Pending' = Pending PROVE UNCHANGED Channel!channelVars
  BY <1>1, <1>2 DEF Pending
<1>3. ASSUME Moves(w) \/ Leaves(w) PROVE Pending' = Pending
  BY <1>3 DEF Moves, Leaves, Pending, PayloadsIn
<1>4. ASSUME Takes(w) PROVE Pending' = Pending
  <2>1. Head(queue) \in Payload /\ phase[Head(queue)] = "queued"
    <3>1. Head(queue) = queue[1] /\ 1 \in 1..Len(queue) /\ Head(queue) \in Payload
      BY <1>4, QueueSteps, Types DEF PoolInv, Takes
    <3> QED
      BY <3>1 DEF PoolInv, Owned, Queued
  <2> QED
    BY <1>4, <2>1, Types DEF PoolInv, Takes, Pending, PayloadsIn
<1>5. ASSUME wpc[w] = "held"
      PROVE  item[w] \in Payload /\ phase[item[w]] = "held" /\ item[w] \in Pending
  BY <1>5 DEF PoolInv, Owned, Hands, Pending, PayloadsIn
<1>6. ASSUME SendConverts(w) PROVE Pending' = Pending
  BY <1>5, <1>6, Types
  DEF PoolInv, SendConverts, Goto, Pending, PayloadsIn, InFlight
<1>7. ASSUME SendRefused(w) PROVE Channel!ChannelNext
  <2>1. Pending' = Pending \ {item[w]}
    BY <1>5, <1>7, Types
    DEF PoolInv, SendRefused, Goto, Pending, PayloadsIn, InFlight
  <2>2. item[w] \in Pending /\ Channel!Lose(item[w])
    BY <1>1, <1>5, <1>7, <2>1 DEF SendRefused, Goto, Channel!Lose, Pending
  <2> QED
    BY <1>1, <2>2 DEF Pending
<1> QED
  BY <1>2, <1>3, <1>4, <1>6, <1>7, WorkerCases

(* What stream.Send does to it: it delivers a payload or loses it.          *)
LEMMA SendOnChannel ==
  ASSUME PoolInv, NEW p \in Payload, SendStep(p)
  PROVE  [Channel!ChannelNext]_(Channel!channelVars)
<1> USE DEF Channel!ChannelNext, Channel!channelVars, runnerVars, workerVars
<1>1. ASSUME SendReadsStream(p) PROVE UNCHANGED Channel!channelVars
  <2>1. PayloadsIn({"queued", "held"} \cup InFlight)'
          = PayloadsIn({"queued", "held"} \cup InFlight)
    BY <1>1, Types DEF PoolInv, SendReadsStream, PayloadsIn, InFlight
  <2> QED
    BY <1>1, <2>1 DEF SendReadsStream
<1>2. ASSUME SendDelivers(p) PROVE Channel!ChannelNext
  <2>1. p \in Pending /\ Pending' = Pending \ {p}
    BY <1>2, Types DEF PoolInv, SendDelivers, Pending, PayloadsIn, InFlight
  <2>2. kind # "metric" /\ Cardinality(Worker) = 1 => \A q \in Pending : p <= q
    BY <1>2, OldestFirst DEF SendDelivers
  <2>3. Channel!Deliver(p)
    BY <1>2, <2>1, <2>2 DEF SendDelivers, Channel!Deliver, Pending
  <2> QED
    BY <1>2, <2>1, <2>3 DEF SendDelivers, Pending
<1>3. ASSUME SendFails(p) PROVE Channel!ChannelNext
  <2>1. p \in Pending /\ Pending' = Pending \ {p}
    BY <1>3, Types DEF PoolInv, SendFails, Pending, PayloadsIn, InFlight
  <2>2. Channel!Lose(p)
    BY <1>3, <2>1 DEF SendFails, Channel!Lose, Pending
  <2> QED
    BY <1>3, <2>1, <2>2 DEF SendFails, Pending
<1> QED
  BY <1>1, <1>2, <1>3 DEF SendStep

(* The manager, the network and the signal handler do nothing to it.        *)
LEMMA OthersOnChannel ==
  ASSUME PoolInv, ManagerMoves \/ StreamDies \/ Cancel
  PROVE  UNCHANGED Channel!channelVars
<1> USE DEF Channel!channelVars, runnerVars
<1>1. ASSUME phase' = Ended PROVE Pending' = Pending
  BY <1>1, Types DEF PoolInv, Ended, Pending, PayloadsIn, InFlight
<1>2. ASSUME Cancel PROVE Pending' = Pending
  BY <1>2 DEF Cancel, Pending, PayloadsIn
<1> QED
  BY <1>1, <1>2 DEF ManagerMoves, StreamDies, Cancel, Pending

(* The runner, its queue, its workers and stream.Send together implement a  *)
(* LossyChannel: whatever the number of workers, at most once, and in the   *)
(* order of collection for a single process or log worker.                  *)
THEOREM PipelineIsLossyChannel == Spec => IsLossyChannel
<1>1. Init => Channel!ChannelInit
  BY DEF Init, Channel!ChannelInit, PayloadsIn, InFlight
<1>2. ASSUME PoolInv, [Next]_vars
      PROVE  [Channel!ChannelNext]_(Channel!channelVars)
  <2>1. CASE UNCHANGED vars
    BY <2>1 DEF vars, Channel!channelVars, runnerVars, PayloadsIn
  <2>2. CASE Next
    BY <1>2, <2>2, RunnerOnChannel, WorkerOnChannel, SendOnChannel,
      OthersOnChannel DEF Next
  <2> QED
    BY <1>2, <2>1, <2>2
<1> QED
  BY <1>1, <1>2, PoolInvariance, PTL
  DEF Spec, IsLossyChannel, Channel!ChannelSpec
=============================================================================
