-------------------------- MODULE TopProcessesProofs --------------------------
(***************************************************************************)
(* Proof that the processes which use the CPU most are sent, and that the  *)
(* memory they use has no say, for any number of processes and any         *)
(* percentages.                                                            *)
(*                                                                         *)
(* The order of sort.SliceStable is reached by counting: a process has its *)
(* place by how many are ahead of it (SortedProperties).  The loops are    *)
(* reached by induction over the processes they have seen, which is        *)
(* induction over a set of numbers (UpTo): the first loop has selected the *)
(* first of its order (FillTakesFirst), the second takes none away         *)
(* (FillFits).                                                             *)
(***************************************************************************)
EXTENDS TopProcesses, FiniteSetTheorems, FunctionTheorems,
        WellFoundedInduction, TLAPS

(* A set of numbers that is not empty has a least element.                  *)
LEMMA LeastElement ==
  ASSUME NEW T, T \subseteq Nat, T # {}
  PROVE  \E x \in T : \A y \in T : x <= y
<1> DEFINE R == OpToRel(<, Nat)
<1>1. \E x \in T : \A y \in T : <<y, x>> \notin R
  <2>1. IsWellFoundedOn(R, Nat)
    BY NatLessThanWellFounded
  <2> HIDE DEF R
  <2> QED
    BY <2>1, WFMin
<1>2. \A x, y \in Nat : y < x => <<y, x>> \in R
  BY DEF OpToRel
<1>3. PICK x \in T : \A y \in T : <<y, x>> \notin R
  BY <1>1
<1>4. \A y \in T : y \in Nat /\ x \in Nat /\ ~(y < x)
  <2> HIDE DEF R
  <2> QED
    BY <1>2, <1>3
<1> QED
  BY <1>4

(* Induction over 0..n, for a set of numbers.                               *)
LEMMA UpTo ==
  ASSUME NEW n \in Nat, NEW S, 0 \in S,
         \A k \in 1..n : k - 1 \in S => k \in S
  PROVE  0..n \subseteq S
<1> DEFINE T == {k \in 0..n : k \notin S}
<1> SUFFICES ASSUME T # {} PROVE FALSE
  OBVIOUS
<1>1. PICK x \in T : \A y \in T : x <= y
  <2>1. T \subseteq Nat
    OBVIOUS
  <2> HIDE DEF T
  <2> QED
    BY <2>1, LeastElement
<1>2. x \in 1..n /\ x - 1 \in 0..n
  BY <1>1
<1>3. x - 1 \notin T
  BY <1>1, <1>2
<1> QED
  BY <1>2, <1>3

(* The loop that merges: what is selected after each process.               *)
Loop(selected, order, after) ==
  after = [k \in 0..Len(order) |->
             IF k = 0 THEN selected ELSE Take(after[k - 1], order[k])]

(* Such a function exists, for any number of processes.                     *)
LEMMA LoopExists ==
  ASSUME NEW selected, NEW order, Len(order) \in Nat
  PROVE  \E after : Loop(selected, order, after)
<1> DEFINE n == Len(order)
           After(f, k) == IF k = 0 THEN selected ELSE Take(f[k - 1], order[k])
           Upto(m, f) == f = [k \in 0..m |-> After(f, k)]
           S == {m \in 0..n : \E f : Upto(m, f)}
<1>1. 0 \in S
  <2>1. Upto(0, [k \in 0..0 |-> selected])
    OBVIOUS
  <2>2. \E f : Upto(0, f)
    BY <2>1
  <2> QED
    BY <2>2
<1>2. ASSUME NEW m \in 1..n, m - 1 \in S PROVE m \in S
  <2>1. PICK f : Upto(m - 1, f)
    BY <1>2
  <2> DEFINE g == [k \in 0..m |->
                     IF k = m THEN Take(f[m - 1], order[m]) ELSE f[k]]
  <2>2. \A k \in 0..m - 1 : f[k] = After(f, k)
    BY <2>1
  <2>3. \A k \in 0..m : g[k] = After(g, k)
    <3> SUFFICES ASSUME NEW k \in 0..m
                 PROVE  g[k] = After(g, k)
      OBVIOUS
    <3>1. CASE k = m
      BY <3>1, <1>2
    <3>2. CASE k # m
      <4>1. k \in 0..m-1 /\ (k # 0 => k - 1 \in 0..m-1 /\ k - 1 # m)
        BY <3>2
      <4>2. g[k] = f[k] /\ (k # 0 => g[k-1] = f[k-1])
        BY <4>1
      <4> QED
        BY <2>2, <4>1, <4>2
    <3> QED
      BY <3>1, <3>2
  <2>4. Upto(m, g)
    BY <2>3
  <2>5. \E h : Upto(m, h)
    BY <2>4
  <2> QED
    BY <2>5
<1>3. n \in S
  <2>1. 0..n \subseteq S
    <3> HIDE DEF S
    <3> QED
      BY <1>1, <1>2, UpTo
  <2> HIDE DEF S
  <2> QED
    BY <2>1
<1> QED
  BY <1>3 DEF Loop

(* Fill is what the loop ends with.                                         *)
LEMMA FillIsLoop ==
  ASSUME NEW selected, NEW order, NEW n \in Nat, Len(order) = n
  PROVE  \E after : /\ Fill(selected, order) = after[n]
                    /\ after[0] = selected
                    /\ \A k \in 1..n : after[k] = Take(after[k - 1], order[k])
<1> DEFINE f == CHOOSE after : Loop(selected, order, after)
<1>1. Loop(selected, order, f)
  BY LoopExists
<1>2. Fill(selected, order) = f[n]
  BY DEF Fill, Loop
<1>3. /\ f[0] = selected
      /\ \A k \in 1..n : f[k] = Take(f[k - 1], order[k])
  <2> HIDE DEF f
  <2>1. \A k \in 0..n : f[k] = IF k = 0 THEN selected
                               ELSE Take(f[k - 1], order[k])
    BY <1>1 DEF Loop
  <2> QED
    BY <2>1
<1> QED
  BY <1>2, <1>3

-----------------------------------------------------------------------------
(* How many are ahead is a number.                                          *)
LEMMA HowManyInt ==
  ASSUME NEW n \in Nat, NEW load \in [1..n -> Nat], NEW i \in 1..n
  PROVE  HowManyAhead(load, i) \in Nat
<1> DEFINE Before == {q \in 1..n : Ahead(load, q, i)}
<1>1. IsFiniteSet(Before)
  BY FS_Interval, FS_Subset
<1>2. HowManyAhead(load, i) = Cardinality(Before)
  BY DEF HowManyAhead
<1> QED
  BY <1>1, <1>2, FS_CardinalityType

(* How many are ahead of a process says its place: nobody else's is the     *)
(* same, and every place is somebody's.                                     *)
LEMMA FewerAhead ==
  ASSUME NEW n \in Nat, NEW load \in [1..n -> Nat],
         NEW i \in 1..n, NEW j \in 1..n, Ahead(load, i, j)
  PROVE  HowManyAhead(load, i) < HowManyAhead(load, j)
<1> DEFINE Before(p) == {q \in 1..n : Ahead(load, q, p)}
<1>1. IsFiniteSet(1..n)
  BY FS_Interval
<1>2. \A p \in 1..n : /\ IsFiniteSet(Before(p))
                      /\ HowManyAhead(load, p) = Cardinality(Before(p))
                      /\ Cardinality(Before(p)) \in Nat
  <2> SUFFICES ASSUME NEW p \in 1..n
               PROVE  /\ IsFiniteSet(Before(p))
                      /\ HowManyAhead(load, p) = Cardinality(Before(p))
                      /\ Cardinality(Before(p)) \in Nat
    OBVIOUS
  <2>1. IsFiniteSet(Before(p))
    BY <1>1, FS_Subset
  <2>2. DOMAIN load = 1..n
    OBVIOUS
  <2> QED
    BY <2>1, <2>2, FS_CardinalityType DEF HowManyAhead
<1>3. i \notin Before(i)
  BY DEF Ahead
<1>4. Before(i) \cup {i} \subseteq Before(j)
  BY DEF Ahead
<1>5. /\ IsFiniteSet(Before(i) \cup {i})
      /\ Cardinality(Before(i) \cup {i}) = Cardinality(Before(i)) + 1
  <2> HIDE DEF Before
  <2> QED
    BY <1>2, <1>3, FS_AddElement
<1>6. Cardinality(Before(i) \cup {i}) <= Cardinality(Before(j))
  <2> HIDE DEF Before
  <2> QED
    BY <1>2, <1>4, FS_Subset
<1> HIDE DEF Before
<1> QED
  BY <1>2, <1>5, <1>6

(* Of two processes one is ahead.                                           *)
LEMMA AheadIsTotal ==
  ASSUME NEW n \in Nat, NEW load \in [1..n -> Nat],
         NEW i \in 1..n, NEW j \in 1..n, i # j
  PROVE  Ahead(load, i, j) \/ Ahead(load, j, i)
<1>1. load[i] \in Nat /\ load[j] \in Nat /\ i \in Nat /\ j \in Nat
  OBVIOUS
<1> QED
  BY <1>1 DEF Ahead

(* So each place is that of one process.                                    *)
LEMMA EveryPlaceTaken ==
  ASSUME NEW n \in Nat, NEW load \in [1..n -> Nat]
  PROVE  /\ \A k \in 1..n : \E i \in 1..n : HowManyAhead(load, i) = k - 1
         /\ \A i \in 1..n : HowManyAhead(load, i) + 1 \in 1..n
<1> DEFINE place == [i \in 1..n |-> HowManyAhead(load, i) + 1]
<1>0. \A i \in 1..n : HowManyAhead(load, i) \in Nat
  BY HowManyInt
<1>1. \A i \in 1..n : HowManyAhead(load, i) + 1 \in 1..n
  <2> SUFFICES ASSUME NEW i \in 1..n PROVE HowManyAhead(load, i) + 1 \in 1..n
    OBVIOUS
  <2> DEFINE Before == {q \in 1..n : Ahead(load, q, i)}
  <2>1. IsFiniteSet(1..n) /\ Cardinality(1..n) = n
    BY FS_Interval
  <2>2. Before \subseteq (1..n) \ {i}
    BY DEF Ahead
  <2>3. /\ IsFiniteSet((1..n) \ {i})
        /\ Cardinality((1..n) \ {i}) = n - 1
    BY <2>1, FS_RemoveElement
  <2>4. /\ Cardinality(Before) <= n - 1
        /\ Cardinality(Before) \in Nat
    <3> HIDE DEF Before
    <3>1. IsFiniteSet(Before) /\ Cardinality(Before) <= n - 1
      BY <2>2, <2>3, FS_Subset
    <3> QED
      BY <3>1, FS_CardinalityType
  <2>5. HowManyAhead(load, i) = Cardinality(Before)
    BY DEF HowManyAhead
  <2> HIDE DEF Before
  <2> QED
    BY <2>4, <2>5
<1>2. \A i, j \in 1..n : i # j => HowManyAhead(load, i) # HowManyAhead(load, j)
  <2> SUFFICES ASSUME NEW i \in 1..n, NEW j \in 1..n, i # j
               PROVE  HowManyAhead(load, i) # HowManyAhead(load, j)
    OBVIOUS
  <2>1. \/ HowManyAhead(load, i) < HowManyAhead(load, j)
        \/ HowManyAhead(load, j) < HowManyAhead(load, i)
    BY AheadIsTotal, FewerAhead
  <2>2. HowManyAhead(load, i) \in Int /\ HowManyAhead(load, j) \in Int
    BY <1>0
  <2> QED
    BY <2>1, <2>2
<1>3. place \in Injection(1..n, 1..n)
  <2>1. place \in [1..n -> 1..n]
    BY <1>1
  <2>2. \A i, j \in 1..n : i # j => place[i] # place[j]
    BY <1>0, <1>2
  <2> QED
    BY <2>1, <2>2 DEF Injection, IsInjective
<1>4. place \in Surjection(1..n, 1..n)
  <2>1. IsFiniteSet(1..n)
    BY FS_Interval
  <2> HIDE DEF place
  <2> QED
    BY <1>3, <2>1, FS_Injection
<1>5. ASSUME NEW k \in 1..n PROVE \E i \in 1..n : HowManyAhead(load, i) = k - 1
  <2>1. PICK i \in 1..n : place[i] = k
    <3> HIDE DEF place
    <3> QED
      BY <1>4 DEF Surjection
  <2>2. HowManyAhead(load, i) = k - 1
    BY <1>0, <2>1
  <2> QED
    BY <2>2
<1> QED
  BY <1>1, <1>5

(* SliceStable puts the greatest first and leaves nobody out.               *)
LEMMA SortedProperties ==
  ASSUME NEW n \in Nat, NEW load \in [1..n -> Nat]
  PROVE  /\ Sorted(load) \in [1..n -> 1..n]
         /\ Len(Sorted(load)) = n
         /\ \A p \in 1..n : \E k \in 1..n : Sorted(load)[k] = p
         /\ \A k \in 1..n : HowManyAhead(load, Sorted(load)[k]) = k - 1
         /\ \A k, l \in 1..n : k < l =>
              load[Sorted(load)[k]] >= load[Sorted(load)[l]]
<1> DEFINE order == Sorted(load)
<1>0. /\ \A i \in 1..n : HowManyAhead(load, i) \in Nat
      /\ \A i, j \in 1..n :
           Ahead(load, i, j) => HowManyAhead(load, i) < HowManyAhead(load, j)
      /\ \A i, j \in 1..n : i # j => Ahead(load, i, j) \/ Ahead(load, j, i)
  BY HowManyInt, FewerAhead, AheadIsTotal
<1>1. \A k \in 1..n : order[k] \in 1..n /\ HowManyAhead(load, order[k]) = k - 1
  <2> SUFFICES ASSUME NEW k \in 1..n
               PROVE order[k] \in 1..n /\ HowManyAhead(load, order[k]) = k - 1
    OBVIOUS
  <2>1. order[k] = CHOOSE i \in 1..n : HowManyAhead(load, i) = k - 1
    BY DEF Sorted
  <2>2. \E i \in 1..n : HowManyAhead(load, i) = k - 1
    BY EveryPlaceTaken
  <2> HIDE DEF order
  <2> QED
    BY <2>1, <2>2
<1>2. order \in [1..n -> 1..n]
  BY <1>1 DEF Sorted
<1>3. Len(order) = n
  <2> HIDE DEF order
  <2>1. order \in Seq(1..n)
    BY <1>2
  <2> QED
    BY <1>2, <2>1
<1>4. ASSUME NEW p \in 1..n PROVE \E k \in 1..n : order[k] = p
  <2> DEFINE k == HowManyAhead(load, p) + 1
  <2>1. k \in 1..n
    BY EveryPlaceTaken
  <2>2. HowManyAhead(load, order[k]) = HowManyAhead(load, p)
    <3>1. HowManyAhead(load, order[k]) = k - 1
      BY <1>1, <2>1
    <3> HIDE DEF order
    <3> QED
      BY <1>0, <3>1
  <2>3. order[k] = p
    <3> HIDE DEF order, k
    <3>1. order[k] \in 1..n
      BY <1>1, <2>1
    <3> QED
      BY <1>0, <2>2, <3>1
  <2> QED
    BY <2>1, <2>3
<1>5. ASSUME NEW k \in 1..n, NEW l \in 1..n, k < l
      PROVE  load[order[k]] >= load[order[l]]
  <2> HIDE DEF order
  <2>1. /\ order[k] \in 1..n /\ order[l] \in 1..n
        /\ HowManyAhead(load, order[k]) < HowManyAhead(load, order[l])
    BY <1>1, <1>5
  <2>2. ~Ahead(load, order[l], order[k])
    <3>1. /\ HowManyAhead(load, order[k]) \in Nat
          /\ HowManyAhead(load, order[l]) \in Nat
      BY <1>0, <2>1
    <3>2. Ahead(load, order[l], order[k]) =>
            HowManyAhead(load, order[l]) < HowManyAhead(load, order[k])
      BY <1>0, <2>1
    <3> QED
      BY <2>1, <3>1, <3>2
  <2>3. load[order[k]] \in Nat /\ load[order[l]] \in Nat
    BY <2>1
  <2> QED
    BY <2>2, <2>3 DEF Ahead
<1> QED
  BY <1>1, <1>2, <1>3, <1>4, <1>5

-----------------------------------------------------------------------------
(* A loop that starts with at most 2 * topN selected ends with no more, and *)
(* keeps those it started with.                                             *)
Fits(S, selected, sel) ==
  /\ sel \subseteq S /\ selected \subseteq sel
  /\ IsFiniteSet(sel) /\ Cardinality(sel) <= 2 * topN

(* One process more ...                                                     *)
LEMMA TakeFits ==
  ASSUME NEW S, NEW selected, NEW sel, Fits(S, selected, sel), NEW p \in S
  PROVE  Fits(S, selected, Take(sel, p))
<1>1. Cardinality(sel) \in Nat /\ 2 * topN \in Nat
  BY FS_CardinalityType, TopAssumption DEF Fits
<1>2. CASE Cardinality(sel) < 2 * topN
  <2>1. /\ IsFiniteSet(sel \cup {p})
        /\ Cardinality(sel \cup {p}) =
             IF p \in sel THEN Cardinality(sel) ELSE Cardinality(sel) + 1
    BY FS_AddElement DEF Fits
  <2>2. Cardinality(sel \cup {p}) <= 2 * topN
    BY <1>1, <1>2, <2>1
  <2> QED
    BY <1>2, <2>1, <2>2 DEF Fits, Take
<1>3. CASE ~(Cardinality(sel) < 2 * topN)
  BY <1>3 DEF Fits, Take
<1> QED
  BY <1>2, <1>3

(* ... and all of them.                                                     *)
LEMMA FillFits ==
  ASSUME NEW S, NEW selected, Fits(S, selected, selected),
         NEW n \in Nat, NEW order \in [1..n -> S], Len(order) = n
  PROVE  Fits(S, selected, Fill(selected, order))
<1>1. PICK after : /\ Fill(selected, order) = after[n]
                   /\ after[0] = selected
                   /\ \A k \in 1..n : after[k] = Take(after[k - 1], order[k])
  BY FillIsLoop
<1> DEFINE T == {k \in 0..n : Fits(S, selected, after[k])}
<1>2. 0 \in T
  BY <1>1
<1>3. ASSUME NEW k \in 1..n, k - 1 \in T PROVE k \in T
  <2>1. Fits(S, selected, after[k - 1]) /\ order[k] \in S
    BY <1>3
  <2>2. Fits(S, selected, after[k])
    BY <1>1, <2>1, TakeFits
  <2> QED
    BY <2>2
<1>4. 0..n \subseteq T
  <2> HIDE DEF T
  <2> QED
    BY <1>2, <1>3, UpTo
<1> QED
  BY <1>1, <1>4

(* The first loop selects the first of its order: all, or 2 * topN.         *)
FirstOf(order, m) == {order[l] : l \in 1..m}

TakesFirst(order, k, sel) ==
  \E m \in 0..k : /\ sel = FirstOf(order, m)
                  /\ m = k \/ Cardinality(sel) >= 2 * topN

(* One process more ...                                                     *)
LEMMA TakeTakesFirst ==
  ASSUME NEW n \in Nat, NEW order \in [1..n -> 1..n], NEW k \in 1..n,
         NEW sel, TakesFirst(order, k - 1, sel)
  PROVE  TakesFirst(order, k, Take(sel, order[k]))
<1>1. PICK m \in 0..k - 1 :
        /\ sel = FirstOf(order, m)
        /\ m = k - 1 \/ Cardinality(sel) >= 2 * topN
  BY DEF TakesFirst
<1>2. Cardinality(sel) \in Nat /\ 2 * topN \in Nat
  <2>1. sel \subseteq 1..n
    <3>1. \A l \in 1..m : l \in 1..n
      OBVIOUS
    <3> QED
      BY <1>1, <3>1 DEF FirstOf
  <2>2. IsFiniteSet(sel)
    <3>1. IsFiniteSet(1..n)
      BY FS_Interval
    <3> QED
      BY <2>1, <3>1, FS_Subset
  <2> QED
    BY <2>2, FS_CardinalityType, TopAssumption
<1>3. CASE Cardinality(sel) < 2 * topN
  <2>1. m = k - 1
    BY <1>1, <1>2, <1>3
  <2>2. FirstOf(order, k) = FirstOf(order, k - 1) \cup {order[k]}
    <3>1. 1..k = 1..k - 1 \cup {k}
      OBVIOUS
    <3> QED
      BY <3>1 DEF FirstOf
  <2>3. Take(sel, order[k]) = FirstOf(order, k)
    BY <1>1, <1>3, <2>1, <2>2 DEF Take
  <2>4. k \in 0..k
    OBVIOUS
  <2> QED
    BY <2>3, <2>4 DEF TakesFirst
<1>4. CASE ~(Cardinality(sel) < 2 * topN)
  <2>1. Take(sel, order[k]) = sel /\ Cardinality(sel) >= 2 * topN
    BY <1>2, <1>4 DEF Take
  <2>2. m \in 0..k
    OBVIOUS
  <2> QED
    BY <1>1, <2>1, <2>2 DEF TakesFirst
<1> QED
  BY <1>3, <1>4

(* ... in particular if nothing is selected before.                         *)
LEMMA FillFromNothing ==
  ASSUME NEW order, NEW n \in Nat, Len(order) = n
  PROVE  \E after : /\ Fill({}, order) = after[n]
                    /\ after[0] = {}
                    /\ \A k \in 1..n : after[k] = Take(after[k - 1], order[k])
<1> DEFINE none == {}
<1>1. \A filled : filled = Fill(none, order) =>
        \E after : /\ filled = after[n]
                   /\ after[0] = none
                   /\ \A k \in 1..n : after[k] = Take(after[k - 1], order[k])
  <2> HIDE DEF none
  <2> QED
    BY FillIsLoop
<1> QED
  BY <1>1

(* ... and all of them.                                                     *)
LEMMA FillTakesFirst ==
  ASSUME NEW n \in Nat, NEW order \in [1..n -> 1..n], Len(order) = n
  PROVE  TakesFirst(order, n, Fill({}, order))
<1>1. PICK after : /\ Fill({}, order) = after[n]
                   /\ after[0] = {}
                   /\ \A k \in 1..n : after[k] = Take(after[k - 1], order[k])
  BY FillFromNothing
<1> DEFINE T == {k \in 0..n : TakesFirst(order, k, after[k])}
<1>2. 0 \in T
  <2>1. FirstOf(order, 0) = {} /\ 0 \in 0..0
    BY DEF FirstOf
  <2>2. TakesFirst(order, 0, after[0])
    BY <1>1, <2>1 DEF TakesFirst
  <2> QED
    BY <2>2
<1>3. ASSUME NEW k \in 1..n, k - 1 \in T PROVE k \in T
  <2>1. TakesFirst(order, k - 1, after[k - 1])
    BY <1>3
  <2>2. TakesFirst(order, k, after[k])
    BY <1>1, <2>1, TakeTakesFirst
  <2> QED
    BY <2>2
<1>4. 0..n \subseteq T
  <2> HIDE DEF T
  <2> QED
    BY <1>2, <1>3, UpTo
<1> QED
  BY <1>1, <1>4

-----------------------------------------------------------------------------
(* The processes are a finite list of percentages.                          *)
AllTyped ==
  \E n \in Nat : all \in [1..n -> Info]

TopInv ==
  /\ AllTyped /\ snapshot \subseteq DOMAIN all
  /\ TopCPUSent /\ MemoryDecidesNothing

(* The first m of an order are at most m.                                   *)
LEMMA FirstAreFew ==
  ASSUME NEW n \in Nat, NEW order \in [1..n -> 1..n], NEW m \in 0..n
  PROVE  Cardinality(FirstOf(order, m)) \in Nat /\
         Cardinality(FirstOf(order, m)) <= m
<1> DEFINE T == FirstOf(order, m)
           f == [l \in 1..m |-> order[l]]
<1>1. f \in Surjection(1..m, T)
  BY DEF Surjection, FirstOf
<1>2. IsFiniteSet(1..m) /\ Cardinality(1..m) = m
  BY FS_Interval
<1> HIDE DEF T, f
<1>3. IsFiniteSet(T) /\ Cardinality(T) <= m
  BY <1>1, <1>2, FS_Surjection
<1> QED
  BY <1>3, FS_CardinalityType DEF T

(* A process left out of both loops comes after 2 * topN that are in.       *)
LEMMA CollectTakesTop ==
  ASSUME AllTyped, CollectProcesses
  PROVE  /\ TopCPUSent' /\ MemoryDecidesNothing'
         /\ snapshot' \subseteq DOMAIN all
<1> DEFINE cpu == [i \in DOMAIN all |-> all[i].cpu]
           mem == [i \in DOMAIN all |-> all[i].mem]
           byCPU == Sorted(cpu)
           byMem == Sorted(mem)
           first == Fill({}, byCPU)
<1>1. PICK n \in Nat : all \in [1..n -> Info]
  BY DEF AllTyped
<1>2. DOMAIN all = 1..n /\ cpu \in [1..n -> Nat] /\ mem \in [1..n -> Nat]
  BY <1>1, TopAssumption DEF Info
<1>3. snapshot' = Fill(first, byMem) /\ all' = all
  BY DEF CollectProcesses
<1>4. /\ byCPU \in [1..n -> 1..n] /\ Len(byCPU) = n
      /\ \A p \in 1..n : \E k \in 1..n : byCPU[k] = p
      /\ \A k, l \in 1..n : k < l => cpu[byCPU[k]] >= cpu[byCPU[l]]
      /\ byMem \in [1..n -> 1..n] /\ Len(byMem) = n
  <2> HIDE DEF cpu, mem
  <2> QED
    BY <1>2, SortedProperties
<1>5. 2 * topN \in Nat
  BY TopAssumption
<1>15. \A k \in 1..n : HowManyAhead(cpu, byCPU[k]) = k - 1
  <2> HIDE DEF cpu
  <2> QED
    BY <1>2, SortedProperties
<1> HIDE DEF byCPU, byMem
<1>6. Fits(1..n, {}, first)
  <2>1. Fits(1..n, {}, {})
    BY <1>5, FS_EmptySet DEF Fits
  <2> QED
    BY <1>4, <2>1, FillFits
<1>7. TakesFirst(byCPU, n, first)
  BY <1>4, FillTakesFirst
<1> HIDE DEF first
<1>8. Fits(1..n, first, snapshot')
  <2>1. Fits(1..n, first, first)
    BY <1>6 DEF Fits
  <2> QED
    BY <1>3, <1>4, <2>1, FillFits
<1>9. ASSUME NEW p \in 1..n, p \notin snapshot'
      PROVE  Cardinality({q \in snapshot' : all[q].cpu >= all[p].cpu})
               >= 2 * topN
  <2>1. PICK m \in 0..n : /\ first = FirstOf(byCPU, m)
                          /\ m = n \/ Cardinality(first) >= 2 * topN
    BY <1>7 DEF TakesFirst
  <2>2. PICK k \in 1..n : byCPU[k] = p
    BY <1>4
  <2>3. p \notin first
    BY <1>8, <1>9 DEF Fits
  <2>4. m < k
    BY <2>1, <2>2, <2>3 DEF FirstOf
  <2>5. Cardinality(first) >= 2 * topN
    BY <2>1, <2>4
  <2> DEFINE above == {q \in snapshot' : all[q].cpu >= all[p].cpu}
  <2>6. first \subseteq above
    <3> SUFFICES ASSUME NEW q \in first PROVE q \in above
      OBVIOUS
    <3>1. PICK l \in 1..m : q = byCPU[l]
      BY <2>1 DEF FirstOf
    <3>2. l \in 1..n /\ l < k /\ q \in 1..n
      BY <1>4, <2>4, <3>1
    <3>3. cpu[q] >= cpu[p]
      BY <1>4, <2>2, <3>1, <3>2
    <3>4. q \in snapshot'
      BY <1>8 DEF Fits
    <3> QED
      BY <1>2, <3>2, <3>3, <3>4
  <2>7. IsFiniteSet(above)
    BY <1>8, FS_Subset DEF Fits
  <2> HIDE DEF above
  <2>8. Cardinality(first) <= Cardinality(above)
    BY <2>6, <2>7, FS_Subset
  <2>9. Cardinality(first) \in Nat /\ Cardinality(above) \in Nat
    BY <1>6, <2>7, FS_CardinalityType DEF Fits
  <2>10. Cardinality(above) >= 2 * topN
    BY <1>5, <2>5, <2>8, <2>9
  <2> QED
    BY <2>10 DEF above
<1>10. snapshot' \subseteq 1..n /\ Cardinality(snapshot') <= 2 * topN
  BY <1>8 DEF Fits
<1>11. ASSUME NEW p \in 1..n, HowManyAhead(cpu, p) < topN PROVE p \in snapshot'
  <2>1. PICK m \in 0..n : /\ first = FirstOf(byCPU, m)
                          /\ m = n \/ Cardinality(first) >= 2 * topN
    BY <1>7 DEF TakesFirst
  <2>2. PICK k \in 1..n : byCPU[k] = p /\ k - 1 < topN
    BY <1>4, <1>11, <1>15
  <2>3. Cardinality(first) \in Nat /\ Cardinality(first) <= m
    BY <1>4, <2>1, FirstAreFew
  <2>4. k <= m
    BY <2>1, <2>2, <2>3, TopAssumption
  <2>5. p \in first
    BY <2>1, <2>2, <2>4 DEF FirstOf
  <2> QED
    BY <1>8, <2>5 DEF Fits
<1>12. ASSUME n <= 2 * topN PROVE snapshot' = 1..n
  <2> SUFFICES ASSUME NEW p \in 1..n, p \notin snapshot' PROVE FALSE
    BY <1>10
  <2> DEFINE above == {q \in snapshot' : all[q].cpu >= all[p].cpu}
  <2>1. Cardinality(above) >= 2 * topN
    BY <1>9
  <2> DEFINE others == (1..n) \ {p}
  <2>2. above \subseteq others
    BY <1>10
  <2>3. IsFiniteSet(others) /\ Cardinality(others) = n - 1
    <3>1. IsFiniteSet(1..n) /\ Cardinality(1..n) = n
      BY FS_Interval
    <3> QED
      BY <3>1, FS_RemoveElement
  <2> HIDE DEF above, others
  <2>4. IsFiniteSet(above) /\ Cardinality(above) <= n - 1
    BY <2>2, <2>3, FS_Subset
  <2>5. Cardinality(above) \in Nat
    BY <2>4, FS_CardinalityType
  <2> QED
    BY <1>5, <1>12, <2>1, <2>4, <2>5
<1>13. MemoryDecidesNothing'
  BY <1>2, <1>3, <1>9 DEF MemoryDecidesNothing
<1>14. TopCPUSent'
  <2>1. Len(all) = n
    BY <1>1
  <2> QED
    BY <1>2, <1>3, <1>10, <1>11, <1>12, <2>1 DEF TopCPUSent
<1> QED
  BY <1>2, <1>10, <1>13, <1>14

(* What is known of the processes before and after.                         *)
LEMMA InitTopInv == TopInit => TopInv /\ TopTypeOK
<1> SUFFICES ASSUME TopInit PROVE TopInv /\ TopTypeOK
  OBVIOUS
<1>1. AllTyped
  BY TopAssumption DEF TopInit, AllTyped, BoundedSeq, SeqOf
<1> QED
  BY <1>1 DEF TopInit, TopInv, TopCPUSent, MemoryDecidesNothing, TopTypeOK

(* One step keeps both.                                                     *)
LEMMA NextTopInv ==
  TopInv /\ TopTypeOK /\ [CollectProcesses]_topVars => TopInv' /\ TopTypeOK'
<1> SUFFICES ASSUME TopInv, TopTypeOK, [CollectProcesses]_topVars
             PROVE  TopInv' /\ TopTypeOK'
  OBVIOUS
<1>1. CASE CollectProcesses
  <2>1. all' = all /\ pc' = "done"
    BY <1>1 DEF CollectProcesses
  <2>2. /\ TopCPUSent' /\ MemoryDecidesNothing'
        /\ snapshot' \subseteq DOMAIN all
    BY <1>1, CollectTakesTop DEF TopInv
  <2> QED
    BY <2>1, <2>2 DEF TopInv, AllTyped, TopTypeOK
<1>2. CASE UNCHANGED topVars
  BY <1>2 DEF topVars, TopInv, AllTyped, TopCPUSent, MemoryDecidesNothing,
              TopTypeOK
<1> QED
  BY <1>1, <1>2

(* Types and selection hold together in every reachable state.              *)
THEOREM TopInvariance == TopSpec => [](TopInv /\ TopTypeOK)
BY InitTopInv, NextTopInv, PTL DEF TopSpec

(* The selected processes are places in the list.                           *)
THEOREM TopTypeCorrect == TopSpec => []TopTypeOK
BY TopInvariance, PTL

(* CollectProcesses sends the topN that use the CPU most, for any processes, *)
(* and all of them when it may.                                              *)
THEOREM TopProcessesAreSent == TopSpec => []TopCPUSent
<1>1. TopInv => TopCPUSent
  BY DEF TopInv
<1> QED
  BY <1>1, TopInvariance, PTL

(* With more processes than that, the order by memory selects none of them. *)
THEOREM MemoryNeverDecides == TopSpec => []MemoryDecidesNothing
<1>1. TopInv => MemoryDecidesNothing
  BY DEF TopInv
<1> QED
  BY <1>1, TopInvariance, PTL
=============================================================================
