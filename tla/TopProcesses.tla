----------------------------- MODULE TopProcesses -----------------------------
(***************************************************************************)
(* CollectProcesses of processcollector/process.go: which processes are    *)
(* sent to the server.  A process is its place in the list of the process  *)
(* library; what cannot be read of it is 0.                                *)
(***************************************************************************)
EXTENDS Naturals, FiniteSets, SequencesExt

CONSTANTS
  topN,
  MaxProcesses,  \* bound on the number of processes
  MaxLoad        \* bound on their CPU and memory percentages

ASSUME TopAssumption ==
  topN \in Nat \ {0} /\ MaxProcesses \in Nat /\ MaxLoad \in Nat

VARIABLES
  all,       \* the processes
  snapshot,  \* the processes sent, a set of places in all
  pc

topVars == <<all, snapshot, pc>>

Info == [cpu : 0..MaxLoad, mem : 0..MaxLoad]

TopTypeOK ==
  /\ all \in BoundedSeq(Info, MaxProcesses)
  /\ snapshot \subseteq DOMAIN all
  /\ pc \in {"list", "done"}

TopIdle == all = <<>> /\ snapshot = {} /\ pc = "done"

TopInit ==
  /\ all \in BoundedSeq(Info, MaxProcesses)
  /\ snapshot = {}
  /\ pc = "list"

(* sort.SliceStable with the greatest first: the k-th has k - 1 ahead.      *)
Ahead(load, i, j) == load[i] > load[j] \/ (load[i] = load[j] /\ i < j)

HowManyAhead(load, i) == Cardinality({j \in DOMAIN load : Ahead(load, j, i)})

Sorted(load) ==
  [k \in DOMAIN load |->
     CHOOSE i \in DOMAIN load : HowManyAhead(load, i) = k - 1]

(* Mutant of Take: one process too many.                                    *)
Take_OneMore(selected, p) ==
  IF Cardinality(selected) <= 2 * topN THEN selected \cup {p} ELSE selected

(* What a loop that merges does with one process.                           *)
Take(selected, p) ==
  IF Cardinality(selected) < 2 * topN THEN selected \cup {p} ELSE selected

(* One of the two loops.                                                    *)
Fill(selected, order) ==
  LET after[k \in 0..Len(order)] ==
        IF k = 0 THEN selected ELSE Take(after[k - 1], order[k])
  IN after[Len(order)]

CollectProcesses ==
  /\ pc = "list"
  /\ pc' = "done"
  /\ snapshot' =
       LET byCPU == Sorted([i \in DOMAIN all |-> all[i].cpu])
           byMem == Sorted([i \in DOMAIN all |-> all[i].mem])
       IN Fill(Fill({}, byCPU), byMem)
  /\ UNCHANGED all

TopSpec == TopInit /\ [][CollectProcesses]_topVars

-----------------------------------------------------------------------------
(* "Sort by CPU to get top 20" (process.go:77): the topN processes that use *)
(* the CPU most are sent, ties broken by their order in the list; all are   *)
(* sent when there is room for all; and never more than there is room for.  *)
TopCPUSent ==
  pc = "done" =>
    /\ Cardinality(snapshot) <= 2 * topN
    /\ \A p \in DOMAIN all :
         HowManyAhead([i \in DOMAIN all |-> all[i].cpu], p) < topN => p \in snapshot
    /\ Len(all) <= 2 * topN => snapshot = DOMAIN all

(* There is no such promise for "Sort by MEM to get top 20" (process.go:85):*)
(* a process is left out only for 2 * topN others that use no less of the   *)
(* CPU, however much memory it uses.                                        *)
MemoryDecidesNothing ==
  pc = "done" =>
    \A p \in DOMAIN all \ snapshot :
      Cardinality({q \in snapshot : all[q].cpu >= all[p].cpu}) >= 2 * topN
=============================================================================
