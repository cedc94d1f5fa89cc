------------------------- MODULE LogCollectorsProofs -------------------------
(***************************************************************************)
(* Proofs about the log collectors, for any number of readers and callers  *)
(* of Close, any capacity of the channel and any number of entries.        *)
(*                                                                         *)
(* The invariant has four parts.  Flow says what the entries under way are *)
(* and that a reader about to send is alone in adding to them.  Handles    *)
(* ties the event handles to the loop over a batch.  Stops says when the   *)
(* stop channel can still be closed.  Released ties the end of Close, or   *)
(* of its sync.Once, to the ends of the readers.                           *)
(***************************************************************************)
EXTENDS LogCollectors, SequenceTheorems, TLAPS

SendsAlone ==
  /\ \A r \in Reader : rpc[r] = "send" =>
       last < MaxEntry /\ kind \in {"journald", "macos"}
  /\ kind # "eventviewer" =>
       \A q, r \in Reader : rpc[q] # "done" /\ rpc[r] # "done" => q = r

Numbered == \A i \in DOMAIN Entries : Entries[i] <= last

Handles ==
  \A r \in Reader : events[r] > 0 <=> rpc[r] \in {"event", "queue"}

Stops ==
  /\ kind # "security" /\ once = "no" => stop = "open"
  /\ \A c \in Closer : cpc[c] = "nil" => once # "no"

Finished(r) ==
  source[r] = "closed" /\ (kind # "eventviewer" => rpc[r] \in {"closing", "done"})

Released ==
  /\ \A r \in Reader :
       /\ rpc[r] \in {"closing", "done"} => source[r] = "closed"
       /\ kind = "security" /\ source[r] = "closed"
            => rpc[r] \in {"closing", "done"}
       /\ ~enabled => rpc[r] = "done"
       /\ rpc[r] = "start" => kind = "macos" /\ source[r] = "closed"
  /\ once = "done" \/ (\E c \in Closer : cpc[c] = "returned")
       => \A r \in Reader : Finished(r)

LogInv ==
  /\ TypeOK
  /\ SendsAlone
  /\ Numbered /\ InOrder /\ Lossless
  /\ Handles
  /\ Stops /\ OnceProtects
  /\ Released

-----------------------------------------------------------------------------
(* What a step does to the entries under way.                               *)

KeepsEntries == Entries' = Entries /\ last' = last
AddsEntry == Entries' = Append(Entries, last + 1) /\ last' = last + 1
SkipsEntry ==
  /\ Entries' = Entries /\ last' = last + 1
  /\ kind \notin {"journald", "macos"}
LosesEntries ==
  /\ \E n, k \in Nat :
       /\ Len(Entries) = Len(Entries') + n
       /\ \A i \in 1..Len(Entries') :
            Entries'[i] = IF i <= k THEN Entries[i] ELSE Entries[i + n]
  /\ last' = last
  /\ ctxDone

Flows == KeepsEntries \/ AddsEntry \/ SkipsEntry \/ LosesEntries

(* The entries that have not been lost are numbers of entries.              *)
LEMMA EntriesType ==
  ASSUME TypeOK
  PROVE  /\ Entries \in Seq(1..MaxEntry)
         /\ out \o fetched \in Seq(1..MaxEntry)
BY ConcatProperties DEF TypeOK, Entries

(* An entry at the end of the channel is one at the end of them all.        *)
LEMMA AppendLast ==
  ASSUME NEW S, NEW s \in Seq(S), NEW t \in Seq(S), NEW e \in S
  PROVE  s \o Append(t, e) = Append(s \o t, e)
<1>1. s \o Append(t, e) \in Seq(S) /\ Append(s \o t, e) \in Seq(S)
  BY AppendProperties, ConcatProperties
<1>2. s \o t \in Seq(S) /\ <<e>> \in Seq(S)
  BY ConcatProperties
<1>3. Append(t, e) = t \o <<e>> /\ Append(s \o t, e) = (s \o t) \o <<e>>
  BY <1>2, AppendIsConcat
<1> QED
  BY <1>2, <1>3, ConcatAssociative

(* The first entry of the channel is the next of those that were fetched.   *)
LEMMA HeadMoves ==
  ASSUME NEW S, NEW s \in Seq(S), NEW t \in Seq(S), t # <<>>
  PROVE  Append(s, Head(t)) \o Tail(t) = s \o t
<1>1. Head(t) \in S /\ Tail(t) \in Seq(S) /\ <<Head(t)>> \in Seq(S)
  BY HeadTailProperties
<1>2. Append(s, Head(t)) = s \o <<Head(t)>>
  BY <1>1, AppendIsConcat
<1>3. <<Head(t)>> \o Tail(t) = t
  BY <1>1
<1> QED
  BY <1>1, <1>2, <1>3, ConcatAssociative

(* Whatever a step does to the entries, they stay numbered in order, and    *)
(* complete where nothing may be lost.                                      *)
LEMMA FlowsInOrder ==
  ASSUME LogInv, Flows, TypeOK', kind' = kind, ctxDone => ctxDone'
  PROVE  (Numbered /\ InOrder /\ Lossless)'
<1>1. /\ Entries \in Seq(1..MaxEntry) /\ Entries' \in Seq(1..MaxEntry)
      /\ last \in Nat /\ last' \in Nat
  BY EntriesType DEF LogInv, TypeOK, Entries
<1>2. /\ \A i \in 1..Len(Entries) : Entries[i] <= last /\ Entries[i] \in Nat
      /\ \A i, j \in 1..Len(Entries) : i < j => Entries[i] < Entries[j]
      /\ kind \in {"journald", "macos"} /\ ~ctxDone =>
           Entries = [i \in 1..last |-> i]
  <2>1. DOMAIN Entries = 1..Len(Entries) /\ Entries \in [1..Len(Entries) -> 1..MaxEntry]
    BY <1>1, LenProperties
  <2>2. \A i \in 1..Len(Entries) : Entries[i] \in Nat
    BY <2>1, BoundsAssumption
  <2> QED
    BY <2>1, <2>2 DEF LogInv, Numbered, InOrder, Lossless
<1>3. SUFFICES
        /\ \A i \in 1..Len(Entries') : Entries'[i] <= last'
        /\ \A i, j \in 1..Len(Entries') : i < j => Entries'[i] < Entries'[j]
        /\ kind \in {"journald", "macos"} /\ ~ctxDone =>
             Entries' = [i \in 1..last' |-> i]
  BY <1>1, LenProperties DEF Numbered, InOrder, Lossless
<1> HIDE DEF Entries
<1>4. CASE KeepsEntries
  BY <1>2, <1>4 DEF KeepsEntries
<1>5. CASE AddsEntry
  <2>1. /\ Len(Entries') = Len(Entries) + 1 /\ Entries'[Len(Entries')] = last + 1
        /\ \A i \in 1..Len(Entries) : Entries'[i] = Entries[i]
        /\ Len(Entries) \in Nat
    BY <1>1, <1>5, AppendProperties DEF AddsEntry
  <2>2. /\ \A i \in 1..Len(Entries') : Entries'[i] <= last'
        /\ \A i, j \in 1..Len(Entries') : i < j => Entries'[i] < Entries'[j]
    BY <1>1, <1>2, <1>5, <2>1 DEF AddsEntry
  <2>3. ASSUME Entries = [i \in 1..last |-> i]
        PROVE  Entries' = [i \in 1..last' |-> i]
    <3>1. Len(Entries) = last /\ Len(Entries') = last'
      BY <1>1, <1>5, <2>1, <2>3, LenProperties DEF AddsEntry
    <3>2. Entries' = [i \in 1..last' |-> Entries'[i]]
      BY <1>1, <3>1, LenProperties
    <3>3. \A i \in 1..last' : Entries'[i] = i
      BY <1>1, <1>5, <2>1, <2>3, <3>1 DEF AddsEntry
    <3> QED
      BY <3>2, <3>3
  <2> QED
    BY <1>2, <2>2, <2>3
<1>6. CASE SkipsEntry
  BY <1>1, <1>2, <1>6 DEF SkipsEntry
<1>7. CASE LosesEntries
  <2>1. PICK n \in Nat, k \in Nat :
          /\ Len(Entries) = Len(Entries') + n
          /\ \A i \in 1..Len(Entries') :
               Entries'[i] = IF i <= k THEN Entries[i] ELSE Entries[i + n]
    BY <1>7 DEF LosesEntries
  <2>2. Len(Entries) \in Nat /\ Len(Entries') \in Nat /\ last' = last /\ ctxDone
    BY <1>1, <1>7, LenProperties DEF LosesEntries
  <2>3. \A i \in 1..Len(Entries') : Entries'[i] <= last'
    BY <1>2, <2>1, <2>2
  <2>4. ASSUME NEW i \in 1..Len(Entries'), NEW j \in 1..Len(Entries'), i < j
        PROVE  Entries'[i] < Entries'[j]
    <3> DEFINE Place(m) == IF m <= k THEN m ELSE m + n
    <3>1. Entries'[i] = Entries[Place(i)] /\ Entries'[j] = Entries[Place(j)]
      BY <2>1
    <3>2. /\ Place(i) \in 1..Len(Entries) /\ Place(j) \in 1..Len(Entries)
          /\ Place(i) < Place(j)
      BY <2>1, <2>2, <2>4
    <3> HIDE DEF Place
    <3> QED
      BY <1>2, <3>1, <3>2
  <2> QED
    BY <2>2, <2>3, <2>4
<1> QED
  BY <1>4, <1>5, <1>6, <1>7 DEF Flows

-----------------------------------------------------------------------------
(* The readers.                                                             *)

ReaderPC == {"start", "top", "read", "send", "next", "nap", "event", "queue",
             "cleanup", "closing", "done"}

(* What a step of a reader does to the channel.                             *)
LEMMA ReaderLines ==
  ASSUME LogInv, NEW r \in Reader, ReaderStep(r) \/ TailStep(r)
  PROVE  \/ UNCHANGED <<lines, last>>
         \/ /\ last' = last + 1 /\ last' \in 1..MaxEntry
            /\ lines' = Append(lines, last') /\ Len(lines) < LinesCap
         \/ /\ last' = last + 1 /\ last' \in 1..MaxEntry
            /\ lines' = lines /\ kind \notin {"journald", "macos"}
<1> USE DEF Goto, OnlyMoves, channelVars, readerVars
<1>1. /\ last \in 0..MaxEntry /\ MaxEntry \in Nat
      /\ rpc[r] = "send" => last < MaxEntry
  BY BoundsAssumption DEF LogInv, TypeOK, SendsAlone
<1>2. ASSUME Enqueue, last < MaxEntry
      PROVE  /\ last' = last + 1 /\ last' \in 1..MaxEntry
             /\ lines' = Append(lines, last') /\ Len(lines) < LinesCap
  BY <1>1, <1>2 DEF Enqueue
<1>3. ASSUME OfferEntry, kind \notin {"journald", "macos"}
      PROVE  \/ Enqueue /\ last < MaxEntry
             \/ /\ last' = last + 1 /\ last' \in 1..MaxEntry
                /\ lines' = lines /\ kind \notin {"journald", "macos"}
  BY <1>1, <1>3 DEF OfferEntry
<1>4. CASE SecurityReader(r)
  BY <1>4 DEF SecurityReader, SeesStop, SecurityCleanup
<1>5. CASE SecurityTail(r)
  BY <1>2, <1>3, <1>5 DEF SecurityTail, TailLine, TailEnds
<1>6. CASE JournaldReader(r)
  BY <1>1, <1>2, <1>6 DEF JournaldReader, SeesStop, GoesOn, Reads, SendsEntry,
    JournaldCleanup
<1>7. CASE MacOSReader(r)
  BY <1>1, <1>2, <1>7 DEF MacOSReader, SeesStop, GoesOn, Reads, SendsEntry,
    MacOSCleanup, StreamStarts
<1>8. CASE EventReader(r)
  BY <1>2, <1>3, <1>8 DEF EventReader, SeesStop, GoesOn, EvtNextFails,
    EvtNextOk, NapEnds, StopsInBatch, Renders, QueuesEvent, EventCleanup
<1> QED
  BY <1>4, <1>5, <1>6, <1>7, <1>8 DEF ReaderStep, TailStep

(* Where a step of a reader takes it, and what it does to its source and    *)
(* its handles.                                                             *)
ReaderGoes(r, to) ==
  /\ to \in ReaderPC
  /\ rpc[r] \notin {"done"} /\ rpc' = [rpc EXCEPT ![r] = to]
  /\ to # "start"
  /\ to = "send" => kind \in {"journald", "macos"} /\ last < MaxEntry /\ last' = last
  /\ rpc[r] = "closing" => to = "done"
  /\ \/ to \notin {"closing", "done"} /\ rpc[r] # "start" /\ UNCHANGED source
     \/ to \in {"closing", "done"} /\ source' = [source EXCEPT ![r] = "closed"]
     \/ to = "done" /\ rpc[r] \in {"start", "closing"} /\ UNCHANGED source
     \/ rpc[r] = "start" /\ to = "top" /\ source' = [source EXCEPT ![r] = "open"]
  /\ \E n \in 0..MaxFetch :
       /\ events' = [events EXCEPT ![r] = n]
       /\ n > 0 <=> to \in {"event", "queue"}
  /\ UNCHANGED <<kind, enabled, ctxDone, panicked, stop, collectVars, closeVars>>
  /\ linesClosed' \in BOOLEAN /\ hears' \in [Reader -> BOOLEAN]

(* What a step of a reader can be: it moves, or it queues an entry.         *)
LEMMA ReaderMoves ==
  ASSUME LogInv, NEW r \in Reader, ReaderStep(r) \/ TailStep(r)
  PROVE  \E to \in ReaderPC : ReaderGoes(r, to)
<1> USE DEF Goto, OnlyMoves, channelVars, readerVars
<1>1. /\ rpc \in [Reader -> ReaderPC] /\ events \in [Reader -> 0..MaxFetch]
      /\ source \in [Reader -> {"open", "closed"}] /\ linesClosed \in BOOLEAN
      /\ hears \in [Reader -> BOOLEAN] /\ MaxFetch \in Nat \ {0}
      /\ events[r] > 0 <=> rpc[r] \in {"event", "queue"}
      /\ stop \in {"open", "closed", "nil"}
  BY BoundsAssumption DEF LogInv, TypeOK, ReaderPC, Handles
<1>2. UNCHANGED <<kind, enabled, ctxDone, collectVars, closeVars>>
  BY DEF ReaderStep, TailStep
<1>3. ASSUME NEW to \in ReaderPC \ {"send", "event", "queue", "start", "closing", "done"},
             OnlyMoves(r, rpc[r], to), rpc[r] \notin {"start", "closing", "done", "event", "queue"}
      PROVE  ReaderGoes(r, to)
  BY <1>1, <1>2, <1>3 DEF ReaderGoes, ReaderPC
<1>4. CASE SecurityReader(r)
  BY <1>1, <1>2, <1>3, <1>4 DEF SecurityReader, SeesStop, SecurityCleanup, ReaderGoes, ReaderPC
<1>5. CASE SecurityTail(r)
  BY <1>1, <1>2, <1>3, <1>5 DEF SecurityTail, TailLine, TailEnds, ReaderGoes, ReaderPC, OfferEntry, Enqueue
<1>6. ASSUME SeesStop(r) \/ GoesOn(r, "read") \/ GoesOn(r, "next")
      PROVE  \E to \in ReaderPC : ReaderGoes(r, to)
  BY <1>3, <1>6 DEF SeesStop, GoesOn, ReaderPC
<1>7. ASSUME Reads(r) \/ SendsEntry(r), kind \in {"journald", "macos"}
      PROVE  \E to \in ReaderPC : ReaderGoes(r, to)
  <2>1. CASE OnlyMoves(r, "read", "top")
    BY <1>3, <2>1 DEF ReaderPC
  <2>2. CASE last < MaxEntry /\ OnlyMoves(r, "read", "send")
    <3>1. ReaderGoes(r, "send")
      BY <1>1, <1>2, <1>7, <2>2 DEF ReaderGoes, ReaderPC
    <3> QED
      BY <3>1 DEF ReaderPC
  <2>3. CASE SendsEntry(r)
    <3>1. ReaderGoes(r, "top")
      BY <1>1, <1>2, <2>3 DEF SendsEntry, Enqueue, ReaderGoes, ReaderPC
    <3> QED
      BY <3>1 DEF ReaderPC
  <2> QED
    BY <1>7, <2>1, <2>2, <2>3 DEF Reads
<1>8. CASE JournaldReader(r)
  <2>1. ASSUME JournaldCleanup(r) PROVE ReaderGoes(r, "done")
    BY <1>1, <1>2, <2>1 DEF JournaldCleanup, ReaderGoes, ReaderPC
  <2> QED
    BY <1>6, <1>7, <1>8, <2>1 DEF JournaldReader, ReaderPC
<1>9. CASE MacOSReader(r)
  <2>1. ASSUME MacOSCleanup(r) PROVE ReaderGoes(r, "done")
    BY <1>1, <1>2, <2>1 DEF MacOSCleanup, ReaderGoes, ReaderPC
  <2>2. ASSUME StreamStarts(r) PROVE ReaderGoes(r, "top") \/ ReaderGoes(r, "done")
    BY <1>1, <1>2, <2>2 DEF StreamStarts, ReaderGoes, ReaderPC
  <2> QED
    BY <1>6, <1>7, <1>9, <2>1, <2>2 DEF MacOSReader, ReaderPC
<1>10. CASE EventReader(r)
  <2>1. ASSUME EvtNextFails(r) PROVE ReaderGoes(r, "nap")
    BY <1>1, <1>2, <2>1 DEF EvtNextFails, ReaderGoes, ReaderPC
  <2>2. ASSUME NapEnds(r) PROVE ReaderGoes(r, "top") \/ ReaderGoes(r, "cleanup")
    BY <1>3, <2>2 DEF NapEnds, ReaderPC
  <2>3. ASSUME EvtNextOk(r) PROVE ReaderGoes(r, "event")
    <3>1. PICK n \in 1..MaxFetch : events' = [events EXCEPT ![r] = n]
      BY <2>3 DEF EvtNextOk
    <3>2. n \in 0..MaxFetch /\ n > 0
      BY <1>1
    <3>3. \E k \in 0..MaxFetch : events' = [events EXCEPT ![r] = k] /\ k > 0
      BY <3>1, <3>2
    <3> QED
      BY <1>1, <1>2, <2>3, <3>3 DEF EvtNextOk, ReaderGoes, ReaderPC
  <2>4. ASSUME StopsInBatch(r, "event") \/ StopsInBatch(r, "queue")
        PROVE  ReaderGoes(r, "cleanup")
    BY <1>1, <1>2, <2>4 DEF StopsInBatch, ReaderGoes, ReaderPC
  <2>5. ASSUME NextEvent(r), rpc[r] \in {"event", "queue"}, UNCHANGED linesClosed
        PROVE  ReaderGoes(r, "top") \/ ReaderGoes(r, "event")
    <3>1. events[r] \in 1..MaxFetch
      BY <1>1, <2>5
    <3>2. events' = [events EXCEPT ![r] = events[r] - 1]
      BY <2>5 DEF NextEvent
    <3>3. CASE events[r] = 1
      <4>1. events[r] - 1 \in 0..MaxFetch /\ ~(events[r] - 1 > 0)
        BY <1>1, <3>1, <3>3
      <4>2. \E k \in 0..MaxFetch : events' = [events EXCEPT ![r] = k] /\ ~(k > 0)
        BY <3>2, <4>1
      <4> QED
        BY <1>1, <1>2, <2>5, <3>3, <4>2 DEF NextEvent, ReaderGoes, ReaderPC
    <3>4. CASE events[r] # 1
      <4>1. events[r] - 1 \in 0..MaxFetch /\ events[r] - 1 > 0
        BY <1>1, <3>1, <3>4
      <4>2. \E k \in 0..MaxFetch : events' = [events EXCEPT ![r] = k] /\ k > 0
        BY <3>2, <4>1
      <4> QED
        BY <1>1, <1>2, <2>5, <3>4, <4>2 DEF NextEvent, ReaderGoes, ReaderPC
    <3> QED
      BY <3>3, <3>4
  <2>6. ASSUME Renders(r)
        PROVE  \E to \in ReaderPC : ReaderGoes(r, to)
    <3>1. ASSUME OnlyMoves(r, "event", "queue") PROVE ReaderGoes(r, "queue")
      BY <1>1, <1>2, <3>1 DEF ReaderGoes, ReaderPC
    <3> QED
      BY <2>5, <2>6, <3>1 DEF Renders, ReaderPC
  <2>7. ASSUME QueuesEvent(r)
        PROVE  ReaderGoes(r, "top") \/ ReaderGoes(r, "event")
    BY <2>5, <2>7 DEF QueuesEvent, OfferEntry, Enqueue
  <2>8. ASSUME EventCleanup(r) PROVE ReaderGoes(r, "done")
    BY <1>1, <1>2, <2>8 DEF EventCleanup, ReaderGoes, ReaderPC
  <2> QED
    BY <1>6, <1>10, <2>1, <2>2, <2>3, <2>4, <2>6, <2>7, <2>8
    DEF EventReader, ReaderPC
<1> QED
  BY <1>4, <1>5, <1>8, <1>9, <1>10 DEF ReaderStep, TailStep

(* Every step of a reader keeps LogInv.                                     *)
LEMMA ReaderKeepsInv ==
  ASSUME LogInv, NEW r \in Reader, ReaderStep(r) \/ TailStep(r)
  PROVE  LogInv'
<1>1. PICK to \in ReaderPC : ReaderGoes(r, to)
  BY ReaderMoves
<1>2. /\ UNCHANGED <<kind, enabled, ctxDone, panicked, stop, run, fetched, out, cpc, once>>
      /\ rpc' = [rpc EXCEPT ![r] = to]
  BY <1>1 DEF ReaderGoes, collectVars, closeVars
<1>3. /\ rpc \in [Reader -> ReaderPC] /\ events \in [Reader -> 0..MaxFetch]
      /\ source \in [Reader -> {"open", "closed"}]
      /\ lines \in Seq(1..MaxEntry) /\ Len(lines) \in 0..LinesCap
      /\ last \in 0..MaxEntry /\ MaxEntry \in Nat /\ LinesCap \in Nat
      /\ kind \in Kinds
  BY LenProperties, BoundsAssumption DEF LogInv, TypeOK, ReaderPC
<1>4. lines' \in Seq(1..MaxEntry) /\ Len(lines') <= LinesCap /\ last' \in 0..MaxEntry
  <2>1. CASE UNCHANGED <<lines, last>>
    BY <1>3, <2>1
  <2>2. CASE /\ last' = last + 1 /\ last' \in 1..MaxEntry
             /\ lines' = Append(lines, last') /\ Len(lines) < LinesCap
    <3>1. lines' \in Seq(1..MaxEntry) /\ Len(lines') = Len(lines) + 1
      BY <1>3, <2>2, AppendProperties
    <3> QED
      BY <1>3, <2>2, <3>1
  <2>3. CASE last' \in 1..MaxEntry /\ lines' = lines
    BY <1>3, <2>3
  <2> QED
    BY <2>1, <2>2, <2>3, ReaderLines
<1>5. rpc' \in [Reader -> ReaderPC] /\ source' \in [Reader -> {"open", "closed"}]
      /\ events' \in [Reader -> 0..MaxFetch]
  BY <1>1, <1>3 DEF ReaderGoes
<1>6. TypeOK'
  BY <1>1, <1>2, <1>4, <1>5 DEF LogInv, TypeOK, ReaderGoes, ReaderPC
<1>7. Flows
  <2>1. Entries \in Seq(1..MaxEntry) /\ out \o fetched \in Seq(1..MaxEntry)
    BY EntriesType DEF LogInv
  <2>2. ASSUME last' = last + 1, last' \in 1..MaxEntry, lines' = Append(lines, last')
        PROVE  AddsEntry
    <3>1. Entries' = (out \o fetched) \o Append(lines, last')
      BY <1>2, <2>2 DEF Entries
    <3>2. (out \o fetched) \o Append(lines, last')
            = Append((out \o fetched) \o lines, last')
      <4> DEFINE s == out \o fetched
                 S == 1..MaxEntry
      <4>1. lines \in Seq(S) /\ s \in Seq(S) /\ last' \in S
        BY <1>3, <2>1, <2>2
      <4> HIDE DEF s, S
      <4>2. s \o Append(lines, last') = Append(s \o lines, last')
        BY <4>1, AppendLast
      <4> QED
        BY <4>2 DEF s
    <3> QED
      BY <2>2, <3>1, <3>2 DEF AddsEntry, Entries
  <2> QED
    BY <1>2, <2>2, ReaderLines DEF Flows, KeepsEntries, SkipsEntry, Entries
<1>8. (Numbered /\ InOrder /\ Lossless)'
  BY <1>2, <1>6, <1>7, FlowsInOrder
<1>9. SendsAlone'
  <2>1. ASSUME NEW q \in Reader, rpc'[q] = "send"
        PROVE  last' < MaxEntry /\ kind' \in {"journald", "macos"}
    <3>1. CASE q = r
      BY <1>1, <1>2, <1>3, <2>1, <3>1 DEF ReaderGoes
    <3>2. CASE q # r
      <4>1. rpc[q] = "send" /\ rpc[r] # "done"
        BY <1>1, <1>3, <2>1, <3>2 DEF ReaderGoes
      <4> QED
        BY <3>2, <4>1 DEF LogInv, SendsAlone
    <3> QED
      BY <3>1, <3>2
  <2>2. ASSUME kind' # "eventviewer", NEW p \in Reader, NEW q \in Reader,
               rpc'[p] # "done", rpc'[q] # "done"
        PROVE  p = q
    BY <1>1, <1>2, <1>3, <2>2 DEF ReaderGoes, LogInv, SendsAlone
  <2> QED
    BY <2>1, <2>2 DEF SendsAlone
<1>10. Handles'
  <2>1. ASSUME NEW q \in Reader PROVE events'[q] > 0 <=> rpc'[q] \in {"event", "queue"}
    BY <1>1, <1>3 DEF ReaderGoes, LogInv, Handles
  <2> QED
    BY <2>1 DEF Handles
<1>11. (Stops /\ OnceProtects)'
  BY <1>2 DEF LogInv, Stops, OnceProtects
<1>12. ASSUME NEW q \in Reader
       PROVE  /\ rpc'[q] \in {"closing", "done"} => source'[q] = "closed"
              /\ kind = "security" /\ source'[q] = "closed"
                   => rpc'[q] \in {"closing", "done"}
              /\ ~enabled => rpc'[q] = "done"
              /\ rpc'[q] = "start" => kind = "macos" /\ source'[q] = "closed"
              /\ Finished(q) => Finished(q)'
  <2>1. CASE q # r
    BY <1>1, <1>2, <1>3, <2>1 DEF ReaderGoes, LogInv, Released, Finished
  <2>2. CASE q = r
    BY <1>1, <1>2, <1>3, <2>2 DEF ReaderGoes, LogInv, Released, Finished, ReaderPC
  <2> QED
    BY <2>1, <2>2
<1>13. Released'
  BY <1>2, <1>12 DEF LogInv, Released
<1> QED
  BY <1>6, <1>8, <1>9, <1>10, <1>11, <1>13 DEF LogInv

-----------------------------------------------------------------------------
(* The runner.                                                              *)

(* Steps that leave readers, closers and the sync.Once alone.               *)
LEMMA OthersKeepInv ==
  ASSUME LogInv, TypeOK', Flows,
         UNCHANGED <<kind, enabled, last, stop, readerVars, once>>,
         ctxDone => ctxDone', OnceProtects',
         \A c \in Closer : cpc'[c] \in {"nil", "returned"} => cpc'[c] = cpc[c]
  PROVE  LogInv'
<1>1. (Numbered /\ InOrder /\ Lossless)'
  BY FlowsInOrder
<1>2. (SendsAlone /\ Handles /\ Stops)'
  BY DEF LogInv, SendsAlone, Handles, Stops, readerVars
<1>3. Released'
  BY DEF LogInv, Released, Finished, readerVars
<1> QED
  BY <1>1, <1>2, <1>3 DEF LogInv

(* Collect, taking an entry from the channel, keeps it.                     *)
LEMMA DrainKeepsInv == LogInv /\ DrainEntry => LogInv'
<1> SUFFICES ASSUME LogInv, DrainEntry PROVE LogInv'
  OBVIOUS
<1>1. /\ lines \in Seq(1..MaxEntry) /\ lines # <<>> /\ Len(lines) <= LinesCap
      /\ fetched \in Seq(1..MaxEntry) /\ out \in Seq(1..MaxEntry)
  BY DEF LogInv, TypeOK, DrainEntry
<1>2. /\ Head(lines) \in 1..MaxEntry /\ Tail(lines) \in Seq(1..MaxEntry)
      /\ Len(Tail(lines)) <= LinesCap
  BY <1>1, HeadTailProperties, LenProperties, BoundsAssumption
<1>3. Append(fetched, Head(lines)) \in Seq(1..MaxEntry)
  BY <1>1, <1>2, AppendProperties
<1>4. TypeOK'
  BY <1>2, <1>3 DEF LogInv, TypeOK, DrainEntry, readerVars, closeVars
<1>5. Entries' = (out \o Append(fetched, Head(lines))) \o Tail(lines)
  BY DEF DrainEntry, Entries
<1>6. out \o Append(fetched, Head(lines)) = Append(out \o fetched, Head(lines))
  BY <1>1, <1>2, AppendLast
<1>7. out \o fetched \in Seq(1..MaxEntry)
  BY EntriesType DEF LogInv
<1>8. Append(out \o fetched, Head(lines)) \o Tail(lines) = (out \o fetched) \o lines
  <2> DEFINE s == out \o fetched
             S == 1..MaxEntry
  <2>1. lines \in Seq(S) /\ s \in Seq(S)
    BY <1>1, <1>7
  <2> HIDE DEF s, S
  <2>2. Append(s, Head(lines)) \o Tail(lines) = s \o lines
    BY <1>1, <2>1, HeadMoves
  <2> QED
    BY <2>2 DEF s
<1>9. Flows
  BY <1>5, <1>6, <1>8 DEF Flows, KeepsEntries, Entries, DrainEntry
<1> QED
  BY <1>4, <1>9, OthersKeepInv
  DEF DrainEntry, LogInv, OnceProtects, readerVars, closeVars

(* Collect returns what it has fetched, or, once the context is cancelled,  *)
(* it may be discarded.                                                     *)
LEMMA EndCollectKeepsInv == LogInv /\ EndCollect => LogInv'
<1> SUFFICES ASSUME LogInv, EndCollect PROVE LogInv'
  OBVIOUS
<1> DEFINE S == 1..MaxEntry
<1>1. /\ lines \in Seq(S) /\ fetched \in Seq(S) /\ out \in Seq(S)
      /\ fetched' = <<>> /\ UNCHANGED <<lines, last>> /\ run' = "select"
  BY DEF LogInv, TypeOK, EndCollect, channelVars
<1>2. out' = out \o fetched \/ (ctxDone /\ out' = out)
  BY DEF EndCollect
<1> HIDE DEF S
<1>3. <<>> \in Seq(S) /\ out \o fetched \in Seq(S)
  BY <1>1, ConcatProperties, EmptySeq
<1>4. out' \in Seq(S)
  BY <1>1, <1>2, <1>3
<1>5. TypeOK'
  BY <1>1, <1>3, <1>4
  DEF S, LogInv, TypeOK, EndCollect, channelVars, readerVars, closeVars
<1>6. Entries' = out' \o lines
  <2>1. out' \o <<>> = out'
    BY <1>4, ConcatEmptySeq
  <2> QED
    BY <1>1, <2>1 DEF Entries
<1>7. ASSUME out' = out \o fetched PROVE Flows
  BY <1>1, <1>6, <1>7 DEF Flows, KeepsEntries, Entries
<1>8. ASSUME ctxDone, out' = out PROVE Flows
  <2>1. /\ Len(out) \in Nat /\ Len(fetched) \in Nat /\ Len(lines) \in Nat
        /\ Len(out \o fetched) = Len(out) + Len(fetched)
        /\ \A i \in 1..Len(out) + Len(fetched) :
             (out \o fetched)[i] = IF i <= Len(out) THEN out[i]
                                   ELSE fetched[i - Len(out)]
    BY <1>1, LenProperties, ConcatProperties
  <2>2. /\ Len(Entries) = Len(out \o fetched) + Len(lines)
        /\ \A i \in 1..Len(out \o fetched) + Len(lines) :
             Entries[i] = IF i <= Len(out \o fetched) THEN (out \o fetched)[i]
                          ELSE lines[i - Len(out \o fetched)]
    BY <1>1, <1>3, ConcatProperties DEF Entries
  <2>3. /\ Len(Entries') = Len(out) + Len(lines)
        /\ \A i \in 1..Len(out) + Len(lines) :
             Entries'[i] = IF i <= Len(out) THEN out[i] ELSE lines[i - Len(out)]
    BY <1>1, <1>6, <1>8, ConcatProperties
  <2> HIDE DEF Entries
  <2>4. Len(Entries) = Len(Entries') + Len(fetched)
    BY <2>1, <2>2, <2>3
  <2>5. ASSUME NEW i \in 1..Len(Entries')
        PROVE  Entries'[i] = IF i <= Len(out) THEN Entries[i]
                             ELSE Entries[i + Len(fetched)]
    <3>1. CASE i <= Len(out)
      BY <2>1, <2>2, <2>3, <3>1
    <3>2. CASE i > Len(out)
      <4>1. i + Len(fetched) - Len(out \o fetched) = i - Len(out)
        BY <2>1, <2>3, <3>2
      <4> QED
        BY <2>1, <2>2, <2>3, <3>2, <4>1
    <3> QED
      BY <2>1, <2>3, <3>1, <3>2
  <2> QED
    BY <1>1, <1>8, <2>1, <2>4, <2>5 DEF Flows, LosesEntries
<1>9. Flows
  BY <1>2, <1>7, <1>8
<1> QED
  BY <1>1, <1>5, <1>9, OthersKeepInv
  DEF EndCollect, LogInv, OnceProtects, readerVars, closeVars

(* Every step of the log runner keeps it.                                   *)
LEMMA RunnerKeepsInv ==
  LogInv /\ (Cancel \/ Tick \/ BeginCollect \/ Leave) => LogInv'
<1> SUFFICES ASSUME LogInv, Cancel \/ Tick \/ BeginCollect \/ Leave
             PROVE  LogInv'
  OBVIOUS
<1> USE DEF channelVars, readerVars, collectVars, closeVars
<1>1. /\ Flows
      /\ UNCHANGED <<kind, enabled, last, stop, readerVars, once>>
      /\ ctxDone => ctxDone'
  BY DEF Cancel, Tick, BeginCollect, Leave, Flows, KeepsEntries, Entries
<1>2. TypeOK'
  BY DEF Cancel, Tick, BeginCollect, Leave, LogInv, TypeOK
<1>3. OnceProtects'
  BY DEF Cancel, Tick, BeginCollect, Leave, LogInv, OnceProtects
<1>4. \A c \in Closer : cpc'[c] \in {"nil", "returned"} => cpc'[c] = cpc[c]
  BY DEF Cancel, Tick, BeginCollect, Leave, LogInv, TypeOK
<1> QED
  BY <1>1, <1>2, <1>3, <1>4, OthersKeepInv

-----------------------------------------------------------------------------
(* Calls of Close.                                                          *)

(* Every step of Close keeps it.                                            *)
LEMMA CloserKeepsInv ==
  ASSUME LogInv, NEW c \in Closer, CallsClose(c) \/ CloserStep(c)
  PROVE  LogInv'
<1> USE DEF Moves
<1>1. UNCHANGED <<kind, enabled, ctxDone, lines, last, rpc, events, hears, run,
                  fetched, out>>
  BY DEF CallsClose, CloserStep, collectVars
<1>2. /\ cpc \in [Closer -> {"away", "call", "nil", "wait", "returned"}]
      /\ source \in [Reader -> {"open", "closed"}]
      /\ stop \in {"open", "closed", "nil"} /\ once \in {"no", "running", "done"}
      /\ panicked \in BOOLEAN /\ linesClosed \in BOOLEAN
  BY DEF LogInv, TypeOK
<1>3. TypeOK'
  <2>1. cpc' \in [Closer -> {"away", "call", "nil", "wait", "returned"}]
    BY <1>2 DEF CallsClose, OtherCall, CloserStep, LaterCall, CloseDisabled,
      CloseNil, JournaldClose, MacOSClose, SecurityClose, EventClose,
      ReturnsFromClose
  <2>2. source' \in [Reader -> {"open", "closed"}]
    BY <1>2 DEF CallsClose, OtherCall, CloserStep, LaterCall, CloseDisabled,
      CloseNil, JournaldClose, MacOSClose, SecurityClose, EventClose,
      ReturnsFromClose
  <2>3. /\ stop' \in {"open", "closed", "nil"} /\ once' \in {"no", "running", "done"}
        /\ panicked' \in BOOLEAN /\ linesClosed' \in BOOLEAN
    BY <1>2 DEF CallsClose, OtherCall, CloserStep, LaterCall, CloseDisabled,
      CloseNil, JournaldClose, MacOSClose, SecurityClose, EventClose,
      ReturnsFromClose, ClosesStop
  <2> QED
    BY <1>1, <2>1, <2>2, <2>3 DEF LogInv, TypeOK
<1>4. Flows
  BY <1>1 DEF Flows, KeepsEntries, Entries
<1>5. (Numbered /\ InOrder /\ Lossless)'
  BY <1>1, <1>3, <1>4, FlowsInOrder
<1>6. (SendsAlone /\ Handles)'
  BY <1>1 DEF LogInv, SendsAlone, Handles
<1>7. (Stops /\ OnceProtects)'
  <2>1. OnceProtects'
    BY <1>1, <1>2 DEF LogInv, Stops, OnceProtects, CallsClose, OtherCall,
      CloserStep, LaterCall, CloseDisabled, CloseNil, JournaldClose,
      MacOSClose, SecurityClose, EventClose, ReturnsFromClose, ClosesStop
  <2>2. kind' # "security" /\ once' = "no" => stop' = "open"
    BY <1>1, <1>2 DEF LogInv, Stops, CallsClose, OtherCall, CloserStep,
      LaterCall, CloseDisabled, CloseNil, JournaldClose, MacOSClose,
      SecurityClose, EventClose, ReturnsFromClose
  <2>3. ASSUME NEW d \in Closer, cpc'[d] = "nil" PROVE once' # "no"
    BY <1>1, <1>2, <2>3 DEF LogInv, Stops, CallsClose, OtherCall, CloserStep,
      LaterCall, CloseDisabled, CloseNil, JournaldClose, MacOSClose,
      SecurityClose, EventClose, ReturnsFromClose
  <2> QED
    BY <2>1, <2>2, <2>3 DEF Stops
<1>8. \A r \in Reader : source'[r] = "closed" \/ source'[r] = source[r]
  BY <1>2 DEF CallsClose, OtherCall, CloserStep, LaterCall, CloseDisabled,
    CloseNil, JournaldClose, MacOSClose, SecurityClose, EventClose,
    ReturnsFromClose
<1>9. kind = "security" => source' = source
  BY DEF CallsClose, OtherCall, CloserStep, LaterCall, CloseDisabled,
    CloseNil, JournaldClose, MacOSClose, SecurityClose, EventClose,
    ReturnsFromClose
<1>10. ASSUME \A r \in Reader : Finished(r)
       PROVE  \A r \in Reader : Finished(r)'
  BY <1>1, <1>8, <1>10 DEF Finished
<1>11. ASSUME (once = "done" \/ \E d \in Closer : cpc[d] = "returned")'
       PROVE  (\A r \in Reader : Finished(r))'
  <2>1. CASE once = "done" \/ \E d \in Closer : cpc[d] = "returned"
    BY <1>10, <2>1 DEF LogInv, Released
  <2>2. CASE CloseDisabled(c)
    BY <1>1, <1>8, <2>2 DEF CloseDisabled, Finished, LogInv, Released
  <2>3. CASE SecurityClose(c) /\ cpc'[c] = "returned"
    BY <1>1, <1>2, <1>8, <2>3 DEF SecurityClose, Finished, LogInv, Released
  <2>4. CASE ReturnsFromClose(c)
    BY <1>1, <1>8, <2>4
    DEF ReturnsFromClose, WaitEnds, ReadersDone, Finished, LogInv, Released
  <2>5. CASE LaterCall(c)
    BY <2>1, <2>5 DEF LaterCall
  <2> QED
    BY <1>2, <1>11, <2>1, <2>2, <2>3, <2>4, <2>5 DEF CallsClose, OtherCall,
      CloserStep, CloseNil, JournaldClose, MacOSClose, SecurityClose, EventClose
<1>12. Released'
  BY <1>1, <1>8, <1>9, <1>11 DEF LogInv, Released
<1> QED
  BY <1>3, <1>5, <1>6, <1>7, <1>12 DEF LogInv

-----------------------------------------------------------------------------
(* LogInv holds for a collector that has just been created.                 *)
LEMMA InitLogInv == Init => LogInv
<1> SUFFICES ASSUME Init PROVE LogInv
  OBVIOUS
<1> DEFINE first == CHOOSE r \in Reader : TRUE
           used == IF ~enabled THEN {}
                   ELSE IF kind = "eventviewer" THEN Reader ELSE {first}
<1>1. /\ rpc = [r \in Reader |-> IF r \notin used THEN "done"
                                 ELSE IF kind = "macos" THEN "start" ELSE "top"]
      /\ source = [r \in Reader |-> IF r \in used /\ kind # "macos"
                                    THEN "open" ELSE "closed"]
  BY DEF Init
<1>2. kind # "eventviewer" => \A q, r \in used : q = r
  OBVIOUS
<1>3. ~enabled => used = {}
  OBVIOUS
<1> HIDE DEF used, first
<1>4. /\ <<>> \in Seq(1..MaxEntry) /\ Len(<<>>) = 0
      /\ 0 \in 0..MaxEntry /\ 0 \in 0..MaxFetch /\ 0 <= LinesCap
  BY BoundsAssumption, EmptySeq
<1>5. TypeOK
  <2>1. /\ rpc \in [Reader -> {"start", "top", "read", "send", "next", "nap",
                               "event", "queue", "cleanup", "closing", "done"}]
        /\ source \in [Reader -> {"open", "closed"}]
    BY <1>1
  <2> QED
    BY <1>4, <2>1 DEF Init, TypeOK
<1>6. SendsAlone /\ Handles
  BY <1>1, <1>2 DEF Init, SendsAlone, Handles
<1>7. Entries = <<>> /\ last = 0
  BY <1>4, ConcatEmptySeq DEF Init, Entries
<1>8. Numbered /\ InOrder /\ Lossless
  BY <1>7 DEF Numbered, InOrder, Lossless
<1>9. Stops /\ OnceProtects /\ Released
  BY <1>1, <1>3 DEF Init, Stops, OnceProtects, Released, Finished
<1> QED
  BY <1>5, <1>6, <1>8, <1>9 DEF LogInv

(* Every step keeps LogInv.                                                 *)
LEMMA NextLogInv == LogInv /\ [Next]_vars => LogInv'
<1> SUFFICES ASSUME LogInv, [Next]_vars PROVE LogInv'
  OBVIOUS
<1>1. CASE UNCHANGED vars
  <2> USE DEF vars, channelVars, readerVars, collectVars, closeVars
  <2>1. TypeOK' /\ OnceProtects'
    BY <1>1 DEF LogInv, TypeOK, OnceProtects
  <2> QED
    BY <1>1, <2>1, OthersKeepInv DEF Flows, KeepsEntries, Entries
<1>2. CASE Next
  BY <1>2, ReaderKeepsInv, CloserKeepsInv, DrainKeepsInv, EndCollectKeepsInv,
    RunnerKeepsInv DEF Next, RunnerStep
<1> QED
  BY <1>1, <1>2

(* The invariant holds in every reachable state.                            *)
THEOREM LogInvariance == Spec => []LogInv
BY InitLogInv, NextLogInv, PTL DEF Spec

(* The collectors are well typed: the channel never holds more than it has  *)
(* room for, however many readers send to it.                               *)
THEOREM LogTypeCorrect == Spec => []TypeOK
<1>1. LogInv => TypeOK
  BY DEF LogInv
<1> QED
  BY <1>1, LogInvariance, PTL

(* Entries reach the runner in the order in which they were offered.        *)
THEOREM EntriesInOrder == Spec => []InOrder
<1>1. LogInv => InOrder
  BY DEF LogInv
<1> QED
  BY <1>1, LogInvariance, PTL

(* journald and macos lose no entry before the context is cancelled.        *)
THEOREM NothingLost == Spec => []Lossless
<1>1. LogInv => Lossless
  BY DEF LogInv
<1> QED
  BY <1>1, LogInvariance, PTL

(* No number of calls of Close makes journald or the event viewer panic.    *)
THEOREM CloseTwiceSafe == Spec => []OnceProtects
<1>1. LogInv => OnceProtects
  BY DEF LogInv
<1> QED
  BY <1>1, LogInvariance, PTL

(* When a call of Close has returned, what the readers opened is closed.    *)
THEOREM CloseReleasesAll == Spec => []CloseReleases
<1>1. LogInv => CloseReleases
  BY DEF LogInv, Released, Finished, Handles, CloseReleases
<1> QED
  BY <1>1, LogInvariance, PTL

-----------------------------------------------------------------------------
(* A reader for which nobody makes room.                                    *)

(* A reader that waits for room in a full channel is alone, and waits on.   *)
LEMMA BlockedReader ==
  ASSUME LogInv, NEW r \in Reader, rpc[r] = "send", Len(lines) = LinesCap,
         NEW q \in Reader, ReaderStep(q) \/ TailStep(q)
  PROVE  FALSE
<1>1. PICK to \in ReaderPC : ReaderGoes(q, to)
  BY ReaderMoves
<1>2. q = r
  BY <1>1 DEF ReaderGoes, LogInv, SendsAlone
<1>3. ~Enqueue
  BY BoundsAssumption DEF Enqueue
<1> QED
  BY <1>2, <1>3
  DEF ReaderStep, TailStep, JournaldReader, MacOSReader, SecurityReader,
      SecurityTail, EventReader, SeesStop, GoesOn, Reads, SendsEntry,
      JournaldCleanup, StreamStarts, MacOSCleanup, SecurityCleanup, TailLine,
      TailEnds, EvtNextFails, NapEnds, EvtNextOk, StopsInBatch, Renders,
      NextEvent, QueuesEvent, EventCleanup, OnlyMoves, Goto

(* The runner calls Close when it has left, and no sooner.                  *)
RunnerAway == run # "left" => cpc[Runner] = "away"

(* No step but Leave makes the runner call Close.                           *)
LEMMA NextRunnerAway == LogInv /\ RunnerAway /\ [Next]_vars => RunnerAway'
<1> SUFFICES ASSUME LogInv, RunnerAway, [Next]_vars PROVE RunnerAway'
  OBVIOUS
<1> USE DEF collectVars, closeVars
<1>1. /\ cpc \in [Closer -> {"away", "call", "nil", "wait", "returned"}]
      /\ Runner \in Closer
  BY DEF LogInv, TypeOK, Closer
<1>2. CASE UNCHANGED vars
  BY <1>2 DEF RunnerAway, vars
<1>3. ASSUME NEW r \in Reader, ReaderStep(r) \/ TailStep(r) PROVE RunnerAway'
  BY <1>3 DEF ReaderStep, TailStep, RunnerAway
<1>4. ASSUME NEW c \in Closer, CallsClose(c) \/ CloserStep(c)
      PROVE  RunnerAway'
  <2>1. UNCHANGED run
    BY <1>4 DEF CallsClose, CloserStep
  <2>2. cpc[Runner] = "away" => cpc'[Runner] = "away"
    BY <1>1, <1>4, GoroutinesAssumption
    DEF CallsClose, CloserStep, OtherCall, LaterCall, CloseDisabled, CloseNil,
        JournaldClose, MacOSClose, SecurityClose, EventClose,
        ReturnsFromClose, Moves
  <2> QED
    BY <2>1, <2>2 DEF RunnerAway
<1>5. CASE Cancel \/ Tick \/ BeginCollect \/ DrainEntry \/ EndCollect \/ Leave
  BY <1>1, <1>5
  DEF Cancel, Tick, BeginCollect, DrainEntry, EndCollect, Leave, RunnerAway
<1> QED
  BY <1>2, <1>3, <1>4, <1>5 DEF Next, RunnerStep

(* What CloseReturns excepts is a deadlock: a reader for which no Collect   *)
(* will make room stays where it is, and so does a Close that waits for it. *)
THEOREM StuckReadersStay == Spec => StuckForGood
<1> DEFINE Stays ==
      ReaderStuck =>
        /\ ReaderStuck'
        /\ \A c \in Closer : cpc[c] = "wait" => cpc'[c] = "wait"
<1>1. ASSUME LogInv, RunnerAway, Next, ReaderStuck PROVE Stays
  <2>1. PICK r \in Reader : rpc[r] = "send" /\ Len(lines) = LinesCap
    BY <1>1 DEF ReaderStuck
  <2>2. kind \in {"journald", "macos"}
    BY <1>1, <2>1 DEF LogInv, SendsAlone
  <2> DEFINE Same ==
        /\ UNCHANGED <<kind, lines, rpc>>
        /\ run = "left" => run' = "left"
        /\ MutexHeld /\ run # "collect" => MutexHeld' /\ run' # "collect"
        /\ \A c \in Closer : cpc[c] = "wait" => cpc'[c] = "wait"
  <2>3. ASSUME NEW q \in Reader, ReaderStep(q) \/ TailStep(q) PROVE Same
    BY <1>1, <2>1, <2>3, BlockedReader
  <2>4. ASSUME Cancel \/ Tick \/ BeginCollect \/ EndCollect PROVE Same
    BY <2>4
    DEF Cancel, Tick, BeginCollect, EndCollect, MutexHeld, readerVars,
        channelVars, collectVars, closeVars
  <2>5. ASSUME DrainEntry PROVE Same
    BY <1>1, <2>5 DEF DrainEntry, ReaderStuck
  <2>6. ASSUME Leave PROVE Same
    <3>1. cpc[Runner] = "away" /\ cpc' = [cpc EXCEPT ![Runner] = "call"]
      BY <1>1, <2>6 DEF Leave, RunnerAway
    <3>2. \A c \in Closer : cpc[c] = "wait" => cpc'[c] = "wait"
      BY <1>1, <3>1 DEF LogInv, TypeOK
    <3> QED
      BY <2>6, <3>2 DEF Leave, MutexHeld, readerVars, channelVars
  <2>7. ASSUME NEW d \in Closer, CallsClose(d) \/ CloserStep(d) PROVE Same
    <3>1. ~ReadersDone /\ ~WaitEnds
      BY <2>1, <2>2 DEF ReadersDone, WaitEnds
    <3> QED
      BY <1>1, <2>2, <2>7, <3>1
      DEF CallsClose, CloserStep, OtherCall, LaterCall, CloseDisabled,
          CloseNil, JournaldClose, MacOSClose, SecurityClose, EventClose,
          ReturnsFromClose, Moves, MutexHeld, collectVars, LogInv, TypeOK
  <2>8. Same
    BY <1>1, <2>3, <2>4, <2>5, <2>6, <2>7 DEF Next, RunnerStep
  <2> QED
    BY <1>1, <2>1, <2>8 DEF ReaderStuck
<1>2. LogInv /\ RunnerAway /\ [Next]_vars => [Stays]_vars
  BY <1>1
<1>3. Init => RunnerAway
  BY DEF Init, RunnerAway, Closer
<1> QED
  BY <1>2, <1>3, NextRunnerAway, LogInvariance, PTL DEF Spec, StuckForGood
=============================================================================
