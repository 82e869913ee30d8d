------------------------ MODULE InventoryGraphProofs ------------------------
(***************************************************************************)
(* Proofs about analyze_graph, for every finite graph.                     *)
(*                                                                         *)
(* Reachability is the least closed set, so that its facts follow without  *)
(* induction over paths.  That the analysis ends is proved by a measure    *)
(* that every step decreases.                                              *)
(***************************************************************************)
EXTENDS InventoryGraph, FiniteSetTheorems, SequenceTheorems, WellFoundedInduction, TLAPS

\* Reachability between nodes.
Reach == {e \in NodeIds \X NodeIds : Reaches(e[1], e[2])}

LEMMA ReachFacts ==
    /\ Reach \subseteq NodeIds \X NodeIds
    /\ \A n \in NodeIds : <<n, n>> \in Reach
    /\ \A n, m, k : <<n, m>> \in Reach /\ <<m, k>> \in Reach => <<n, k>> \in Reach
    /\ \A n \in NodeIds : \A m \in Successors(n) : <<n, m>> \in Reach
    /\ \A n \in NodeIds : \A m \in Predecessors(n) : <<m, n>> \in Reach
<1>1. \A n \in NodeIds : Successors(n) \subseteq NodeIds /\ Predecessors(n) \subseteq NodeIds
  BY DEF Successors, Predecessors
<1>2. \A n, m : m \in Predecessors(n) /\ n \in NodeIds => n \in Successors(m)
  BY DEF Successors, Predecessors
<1>3. \A n \in NodeIds : \A m \in Successors(n) : <<n, m>> \in Reach
  BY <1>1 DEF Reach, Reaches, Closed
<1>4. \A n \in NodeIds : \A m \in Predecessors(n) : <<m, n>> \in Reach
  BY <1>1, <1>2, <1>3
<1>5. \A n, m, k : <<n, m>> \in Reach /\ <<m, k>> \in Reach => <<n, k>> \in Reach
  BY DEF Reach, Reaches
<1>6. Reach \subseteq NodeIds \X NodeIds /\ \A n \in NodeIds : <<n, n>> \in Reach
  BY DEF Reach, Reaches
<1> QED
  BY <1>3, <1>4, <1>5, <1>6

\* A path that leaves a set leaves it by an edge.
LEMMA Leaving ==
    ASSUME NEW S \in SUBSET NodeIds, NEW n \in S, NEW m \in NodeIds \ S, <<n, m>> \in Reach
    PROVE  \E x \in S : \E y \in Successors(x) \ S : <<n, x>> \in Reach /\ <<n, y>> \in Reach
<1> DEFINE R == {x \in S : <<n, x>> \in Reach}
<1>1. n \in R /\ R \in SUBSET NodeIds /\ m \notin R
  BY ReachFacts
<1>2. PICK x \in R : ~(Successors(x) \subseteq R)
  BY <1>1 DEF Reach, Reaches, Closed
<1>3. PICK y \in Successors(x) : y \notin R
  BY <1>2
<1>4. x \in S /\ <<n, x>> \in Reach /\ <<n, y>> \in Reach
  BY <1>2, <1>3, ReachFacts
<1> QED
  BY <1>3, <1>4

\* What holds its nodes' predecessors holds all that reach them.
LEMMA Ancestors ==
    ASSUME NEW S \in SUBSET NodeIds, \A m \in S : Predecessors(m) \subseteq S,
           NEW n, NEW m \in S, <<n, m>> \in Reach
    PROVE  n \in S
<1>1. n \in NodeIds
  BY DEF Reach
<1>2. \A x \in NodeIds \ S : Successors(x) \subseteq NodeIds \ S
  BY DEF Successors, Predecessors
<1> QED
  BY <1>1, <1>2 DEF Reach, Reaches, Closed

LEMMA SameReach == edges' = edges => Reach' = Reach
BY DEF Reach, Reaches, Closed, Successors

-----------------------------------------------------------------------------
(* Type correctness.                                                       *)

LEMMA LeastNode ==
    ASSUME NEW S, S \subseteq NodeIds, S # {}
    PROVE  Least(S) \in S /\ \A m \in S : Least(S) <= m
<1> DEFINE R == OpToRel(<, Nat)
<1>1. \A m, n \in Nat : m < n => <<m, n>> \in R
  BY DEF OpToRel
<1>2. IsWellFoundedOn(R, Nat)
  BY NatLessThanWellFounded
<1>3. S \subseteq Nat
  BY NodeIdsAssumption
<1> HIDE DEF R
<1>4. PICK x \in S : \A y \in S : <<y, x>> \notin R
  BY <1>2, <1>3, WFMin
<1>5. \A y \in S : x <= y
  <2> TAKE y \in S
  <2>1. x \in Nat /\ y \in Nat /\ ~(y < x)
    BY <1>1, <1>3, <1>4
  <2> QED
    BY <2>1
<1> QED
  BY <1>5 DEF Least

\* The last index at which something holds.
LEMMA LastIndex ==
    ASSUME NEW n \in Nat, NEW S, S \subseteq 1..n, S # {}
    PROVE  /\ (CHOOSE i \in S : \A j \in S : j <= i) \in S
           /\ \A j \in S : j <= (CHOOSE i \in S : \A k \in S : k <= i)
<1> DEFINE T == {n - i : i \in S}
           R == OpToRel(<, Nat)
<1>1. T \subseteq Nat /\ T # {}
  <2>1. \A i \in S : n - i \in Nat
    OBVIOUS
  <2> QED
    BY <2>1
<1>2. \A m, k \in Nat : m < k => <<m, k>> \in R
  BY DEF OpToRel
<1>3. IsWellFoundedOn(R, Nat)
  BY NatLessThanWellFounded
<1> HIDE DEF R
<1>4. PICK x \in T : \A y \in T : <<y, x>> \notin R
  BY <1>1, <1>3, WFMin
<1>5. PICK i \in S : x = n - i
  BY <1>4
<1>6. \A j \in S : j <= i
  <2> TAKE j \in S
  <2>1. n - j \in T /\ n - j \in Nat /\ x \in Nat
    BY <1>1, <1>4
  <2>2. ~(n - j < x)
    BY <1>2, <1>4, <2>1
  <2> QED
    BY <1>5, <2>1, <2>2
<1> QED
  BY <1>6

\* What the steps of the traversals do to their stacks.
LEMMA FrameOf ==
    ASSUME NEW n \in NodeIds
    PROVE  [node |-> n, rest |-> Successors(n)] \in Frame
BY DEF Frame, Successors

LEMMA Started ==
    ASSUME TypeOK, StartVisit
    PROVE  LET n == Least(NodeIds \ visited) IN
             /\ n \in NodeIds \ visited /\ visited' = visited \cup {n}
             /\ stack' \in Seq(Frame) /\ Len(stack') = 1
             /\ stack'[1] = [node |-> n, rest |-> Successors(n)]
<1> DEFINE n == Least(NodeIds \ visited)
<1>1. n \in NodeIds \ visited
  BY LeastNode DEF StartVisit, TypeOK
<1> HIDE DEF n
<1>2. stack' = Append(<<>>, [node |-> n, rest |-> Successors(n)]) /\ visited' = visited \cup {n}
  BY DEF StartVisit, Push, n
<1>3. [node |-> n, rest |-> Successors(n)] \in Frame
  BY <1>1, FrameOf
<1>4. stack' \in Seq(Frame) /\ Len(stack') = 1 /\ stack'[1] = [node |-> n, rest |-> Successors(n)]
  <2> DEFINE f == [node |-> n, rest |-> Successors(n)]
  <2> HIDE DEF f
  <2>1. stack' = Append(<<>>, f) /\ f \in Frame
    BY <1>2, <1>3 DEF f
  <2>2. stack' \in Seq(Frame) /\ Len(stack') = 1 /\ stack'[1] = f
    BY <2>1
  <2> QED
    BY <2>2 DEF f
<1> QED
  BY <1>1, <1>2, <1>4 DEF n

LEMMA Advanced ==
    ASSUME TypeOK, Advance
    PROVE  LET n == Least(Top.rest)
               L == Len(stack)
           IN  /\ L \in Nat \ {0} /\ n \in Top.rest /\ n \in NodeIds /\ Top \in Frame
               /\ stack' \in Seq(Frame)
               /\ \A k \in 1..L : stack'[k].node = stack[k].node
               /\ \A k \in 1..L : k # L => stack'[k].rest = stack[k].rest
               /\ stack'[L].rest = Top.rest \ {n}
               /\ \/ n \in visited /\ visited' = visited /\ Len(stack') = L
                  \/ /\ n \notin visited /\ visited' = visited \cup {n} /\ Len(stack') = L + 1
                     /\ stack'[L + 1] = [node |-> n, rest |-> Successors(n)]
<1> DEFINE n == Least(Top.rest)
           L == Len(stack)
           f == [Top EXCEPT !.rest = @ \ {n}]
           advanced == [stack EXCEPT ![L] = f]
           g == [node |-> n, rest |-> Successors(n)]
<1>1. stack \in Seq(Frame) /\ stack # <<>> /\ Top.rest # {}
  BY DEF TypeOK, Advance
<1>2. L \in Nat \ {0} /\ Top \in Frame /\ Top = stack[L]
  BY <1>1 DEF Top
<1>3. Top.rest \subseteq NodeIds
  BY <1>2 DEF Frame
<1>4. n \in Top.rest /\ n \in NodeIds
  BY <1>1, <1>3, LeastNode
<1> HIDE DEF n
<1>5. f \in Frame /\ f.rest = Top.rest \ {n} /\ f.node = Top.node
  BY <1>2 DEF Frame
<1>6. g \in Frame
  BY <1>4, FrameOf
<1>7. [stack EXCEPT ![L].rest = @ \ {n}] = advanced
  BY <1>2
<1>8. IF n \in visited THEN stack' = advanced /\ visited' = visited
                       ELSE visited' = visited \cup {n} /\ stack' = Append(advanced, g)
  BY <1>7 DEF Advance, n
<1> HIDE DEF f, g
<1>9. /\ advanced \in Seq(Frame) /\ Len(advanced) = L
      /\ \A k \in 1..L : advanced[k] = IF k = L THEN f ELSE stack[k]
  BY <1>1, <1>2, <1>5, ExceptSeq
<1> HIDE DEF advanced
<1>10. /\ Append(advanced, g) \in Seq(Frame) /\ Len(Append(advanced, g)) = L + 1
       /\ \A k \in 1..L : Append(advanced, g)[k] = advanced[k]
       /\ Append(advanced, g)[L + 1] = g
  BY <1>6, <1>9, AppendProperties
<1>11. /\ stack' \in Seq(Frame) /\ \A k \in 1..L : stack'[k] = advanced[k]
       /\ \/ n \in visited /\ visited' = visited /\ Len(stack') = L
          \/ n \notin visited /\ visited' = visited \cup {n} /\ Len(stack') = L + 1 /\ stack'[L + 1] = g
  BY <1>8, <1>9, <1>10
<1>12. /\ \A k \in 1..L : stack'[k].node = stack[k].node
       /\ \A k \in 1..L : k # L => stack'[k].rest = stack[k].rest
       /\ stack'[L].rest = Top.rest \ {n}
  BY <1>2, <1>5, <1>9, <1>11
<1> QED
  BY <1>2, <1>4, <1>11, <1>12 DEF n, g

LEMMA Popped ==
    ASSUME TypeOK, Finish
    PROVE  LET L == Len(stack) IN
             /\ L \in Nat \ {0} /\ Top = stack[L] /\ Top \in Frame
             /\ stack' \in Seq(Frame) /\ Len(stack') = L - 1
             /\ \A k \in 1..(L - 1) : stack'[k] = stack[k]
             /\ finish_order' \in Seq(NodeIds) /\ Len(finish_order') = Len(finish_order) + 1
             /\ \A i \in 1..Len(finish_order) : finish_order'[i] = finish_order[i]
             /\ finish_order'[Len(finish_order) + 1] = Top.node
<1> DEFINE L == Len(stack)
<1>1. stack \in Seq(Frame) /\ stack # <<>> /\ finish_order \in Seq(NodeIds)
  BY DEF TypeOK, Finish
<1>2. L \in Nat \ {0} /\ Top \in Frame /\ Top = stack[L] /\ \A k \in 1..L : stack[k] \in Frame
  BY <1>1 DEF Top
<1>3. stack' = SubSeq(stack, 1, L - 1)
  BY DEF Finish
<1>4. /\ stack' \in Seq(Frame) /\ Len(stack') = L - 1
      /\ \A k \in 1..(L - 1) : stack'[k] = stack[k]
  <2> HIDE DEF L
  <2> QED
    BY <1>1, <1>2, <1>3
<1>5. Top.node \in NodeIds /\ finish_order' = Append(finish_order, Top.node)
  BY <1>2 DEF Frame, Finish
<1>6. /\ finish_order' \in Seq(NodeIds) /\ Len(finish_order') = Len(finish_order) + 1
      /\ \A i \in 1..Len(finish_order) : finish_order'[i] = finish_order[i]
      /\ finish_order'[Len(finish_order) + 1] = Top.node
  <2> DEFINE t == Top.node
  <2> HIDE DEF t
  <2>1. t \in NodeIds /\ finish_order' = Append(finish_order, t)
    BY <1>5 DEF t
  <2>2. /\ finish_order' \in Seq(NodeIds) /\ Len(finish_order') = Len(finish_order) + 1
        /\ \A i \in 1..Len(finish_order) : finish_order'[i] = finish_order[i]
        /\ finish_order'[Len(finish_order) + 1] = t
    BY <1>1, <2>1, AppendProperties
  <2> QED
    BY <2>2 DEF t
<1> QED
  BY <1>2, <1>4, <1>6

\* The node that the next component starts from: the last finished one that is
\* not assigned.
LEMMA Restarted ==
    ASSUME TypeOK, StartComponent
    PROVE  \E k \in Unassigned :
             /\ \A j \in Unassigned : j <= k
             /\ finish_order[k] \in NodeIds \ assigned
             /\ assigned' = assigned \cup {finish_order[k]}
             /\ pending' = <<finish_order[k]>>
<1> DEFINE k == CHOOSE i \in Unassigned : \A j \in Unassigned : j <= i
<1>1. /\ finish_order \in Seq(NodeIds) /\ Len(finish_order) \in Nat
      /\ DOMAIN finish_order = 1..Len(finish_order)
      /\ \A i \in DOMAIN finish_order : finish_order[i] \in NodeIds
  BY DEF TypeOK
<1>2. Unassigned \subseteq 1..Len(finish_order) /\ Unassigned # {}
  BY <1>1 DEF StartComponent, Unassigned
<1>3. k \in Unassigned /\ \A j \in Unassigned : j <= k
  BY <1>1, <1>2, LastIndex
<1>4. assigned' = assigned \cup {finish_order[k]} /\ pending' = <<finish_order[k]>>
  BY DEF StartComponent
<1>5. finish_order[k] \in NodeIds \ assigned
  BY <1>1, <1>3 DEF Unassigned
<1> HIDE DEF k
<1> QED
  BY <1>3, <1>4, <1>5

\* A descending enumeration of a finite set is onto it.
LEMMA Enumerates ==
    ASSUME NEW S \in SUBSET NodeIds, NEW f \in [1..Cardinality(S) -> S],
           \A i, j \in DOMAIN f : i < j => f[i] > f[j]
    PROVE  /\ Cardinality(S) \in Nat /\ f \in Seq(S) /\ Len(f) = Cardinality(S)
           /\ \A x \in S : \E i \in 1..Cardinality(S) : f[i] = x
<1> DEFINE n == Cardinality(S)
<1>1. IsFiniteSet(S) /\ n \in Nat /\ S \subseteq Nat
  BY NodeIdsAssumption, FS_Subset, FS_CardinalityType
<1>2. IsFiniteSet(1..n) /\ Cardinality(1..n) = n
  BY <1>1, FS_Interval
<1>3. f \in Injection(1..n, S)
  <2>1. ASSUME NEW i \in 1..n, NEW j \in 1..n, f[i] = f[j]
        PROVE  i = j
    <3>0. f[i] \in S /\ DOMAIN f = 1..n
      OBVIOUS
    <3>1. \A x \in Nat : ~(x > x)
      OBVIOUS
    <3>2. ~(i < j) /\ ~(j < i)
      BY <1>1, <2>1, <3>0, <3>1
    <3> QED
      BY <1>1, <3>2
  <2> QED
    BY <2>1 DEF Injection, IsInjective
<1>4. f \in Surjection(1..n, S)
  BY <1>1, <1>2, <1>3, FS_Injection
<1>5. \A x \in S : \E i \in 1..n : f[i] = x
  BY <1>4 DEF Surjection
<1>6. f \in Seq(S) /\ Len(f) = n
  <2> HIDE DEF n
  <2> QED
    BY <1>1 DEF n
<1> QED
  BY <1>1, <1>5, <1>6

Waiting == {pending[k] : k \in DOMAIN pending}

LEMMA Collected ==
    ASSUME TypeOK, Collect
    PROVE  LET n == pending[Len(pending)]
               fresh == Predecessors(n) \ assigned
           IN  /\ n \in NodeIds /\ n \in Waiting /\ fresh \subseteq NodeIds
               /\ pending' \in Seq(NodeIds)
               /\ fresh \subseteq Waiting' /\ Waiting \subseteq Waiting' \cup {n}
               /\ Waiting' \subseteq Waiting \cup fresh
               /\ assigned' = assigned \cup fresh /\ members' = members \cup {n}
<1> DEFINE n == pending[Len(pending)]
           fresh == Predecessors(n) \ assigned
           L == Len(pending)
           kept == SubSeq(pending, 1, L - 1)
<1>1. pending \in Seq(NodeIds) /\ pending # <<>>
  BY DEF TypeOK, Collect
<1>2. L \in Nat \ {0} /\ DOMAIN pending = 1..L /\ \A k \in 1..L : pending[k] \in NodeIds
  BY <1>1
<1>3. n \in NodeIds /\ n \in Waiting /\ fresh \in SUBSET NodeIds
  BY <1>2 DEF Waiting, Predecessors
<1>4. PICK order \in [1..Cardinality(fresh) -> fresh] :
             /\ \A i, j \in DOMAIN order : i < j => order[i] > order[j]
             /\ pending' = kept \o order
  BY DEF Collect
<1>5. assigned' = assigned \cup fresh /\ members' = members \cup {n}
  BY DEF Collect
<1> HIDE DEF fresh
<1>6. /\ Cardinality(fresh) \in Nat /\ order \in Seq(fresh) /\ Len(order) = Cardinality(fresh)
      /\ \A x \in fresh : \E i \in 1..Cardinality(fresh) : order[i] = x
  BY <1>3, <1>4, Enumerates
<1>7. order \in Seq(NodeIds)
  BY <1>3, <1>6, SeqMonotonic
<1>8. kept \in Seq(NodeIds) /\ Len(kept) = L - 1 /\ \A k \in 1..(L - 1) : kept[k] = pending[k]
  <2> HIDE DEF L
  <2> QED
    BY <1>1, <1>2
<1> DEFINE c == Cardinality(fresh)
<1>len. Len(order) = c /\ Len(kept) + Len(order) = (L - 1) + c
  BY <1>6, <1>8
<1>cat. /\ kept \o order \in Seq(NodeIds) /\ Len(kept \o order) = Len(kept) + Len(order)
        /\ \A i \in 1..(Len(kept) + Len(order)) :
              (kept \o order)[i] = IF i <= Len(kept) THEN kept[i] ELSE order[i - Len(kept)]
  BY <1>7, <1>8, ConcatProperties
<1> HIDE DEF kept, n, L, c
<1>9. /\ pending' \in Seq(NodeIds) /\ Len(pending') = (L - 1) + c
      /\ \A i \in 1..((L - 1) + c) : pending'[i] = IF i <= L - 1 THEN kept[i] ELSE order[i - (L - 1)]
  BY <1>4, <1>8, <1>len, <1>cat
<1>10. Waiting' = {pending'[k] : k \in 1..((L - 1) + c)}
  BY <1>9 DEF Waiting
<1>11. fresh \subseteq Waiting'
  <2> SUFFICES ASSUME NEW x \in fresh
               PROVE  x \in Waiting'
    OBVIOUS
  <2>1. PICK i \in 1..c : order[i] = x
    BY <1>6 DEF c
  <2>2. c \in Nat /\ (L - 1) + i \in 1..((L - 1) + c) /\ ~((L - 1) + i <= L - 1) /\ ((L - 1) + i) - (L - 1) = i
    BY <1>2, <1>6 DEF c
  <2>3. pending'[(L - 1) + i] = x
    BY <1>9, <2>1, <2>2
  <2> QED
    BY <1>10, <2>2, <2>3
<1>12. Waiting \subseteq Waiting' \cup {n}
  <2> SUFFICES ASSUME NEW k \in 1..L, k # L
               PROVE  pending[k] \in Waiting'
    BY <1>2 DEF Waiting, n, L
  <2>1. c \in Nat /\ k \in 1..(L - 1) /\ k \in 1..((L - 1) + c) /\ k <= L - 1
    BY <1>2, <1>6 DEF c
  <2>2. pending'[k] = pending[k]
    BY <1>8, <1>9, <2>1
  <2> QED
    BY <1>10, <2>1, <2>2
<1>13. Waiting' \subseteq Waiting \cup fresh
  <2> SUFFICES ASSUME NEW k \in 1..((L - 1) + c)
               PROVE  pending'[k] \in Waiting \cup fresh
    BY <1>10
  <2>1. CASE k <= L - 1
    <3>1. k \in 1..(L - 1) /\ k \in 1..L
      BY <1>2, <2>1
    <3>2. pending'[k] = pending[k]
      BY <1>8, <1>9, <2>1, <3>1
    <3> QED
      BY <1>2, <3>1, <3>2 DEF Waiting
  <2>2. CASE ~(k <= L - 1)
    <3>1. c \in Nat /\ k - (L - 1) \in 1..c
      BY <1>2, <1>6, <2>2 DEF c
    <3>2. pending'[k] = order[k - (L - 1)]
      BY <1>9, <2>2
    <3> QED
      BY <1>4, <3>1, <3>2 DEF c
  <2> QED
    BY <2>1, <2>2
<1> QED
  BY <1>3, <1>5, <1>9, <1>11, <1>12, <1>13 DEF n, fresh

LEMMA ComponentCounts ==
    ASSUME TypeOK
    PROVE  /\ IsFiniteSet(components)
           /\ \A S : S \subseteq components => IsFiniteSet(S) /\ Cardinality(S) \in Nat
<1>1. IsFiniteSet(SUBSET NodeIds) /\ components \in SUBSET (SUBSET NodeIds)
  BY NodeIdsAssumption, FS_SUBSET DEF TypeOK
<1>2. IsFiniteSet(components)
  BY <1>1, FS_Subset
<1> QED
  BY <1>2, FS_Subset, FS_CardinalityType

LEMMA StepTyped == TypeOK /\ [Next]_vars => TypeOK'
<1> SUFFICES ASSUME TypeOK, [Next]_vars
             PROVE  TypeOK'
  OBVIOUS
<1> USE DEF traversal, collection
<1>0. CASE UNCHANGED vars
  BY <1>0 DEF vars, TypeOK
<1>1. CASE StartVisit
  BY <1>1, Started DEF StartVisit, TypeOK
<1>2. CASE Advance
  BY <1>2, Advanced DEF Advance, TypeOK
<1>3. CASE Finish
  BY <1>3, Popped DEF Finish, TypeOK
<1>4. CASE EndVisit
  BY <1>4 DEF EndVisit, TypeOK
<1>5. CASE StartComponent
  <2>1. PICK n \in NodeIds : assigned' = assigned \cup {n} /\ pending' = <<n>>
    BY <1>5, Restarted
  <2>2. pending' \in Seq(NodeIds) /\ assigned' \subseteq NodeIds
    BY <2>1 DEF TypeOK
  <2>3. UNCHANGED <<edges, phase, traversal, members, components, unresolved, current_wave, waves>>
    BY <1>5 DEF StartComponent
  <2> QED
    BY <2>2, <2>3 DEF TypeOK
<1>6. CASE Collect
  BY <1>6, Collected DEF Collect, TypeOK
<1>7. CASE CloseComponent
  BY <1>7 DEF CloseComponent, TypeOK
<1>card. \A S : S \subseteq components => Cardinality(S) \in Int
  BY ComponentCounts
<1>8. CASE BuildCondensation
  <2>1. \A c \in components : Cardinality(Dependencies(c)) \in Int
    BY <1>card DEF Dependencies
  <2> QED
    BY <1>8, <2>1 DEF BuildCondensation, TypeOK
<1>9. CASE EmitWave
  <2> DEFINE resolved(c) == Cardinality(Dependencies(c) \cap current_wave)
  <2>1. \A c \in components : resolved(c) \in Int
    BY <1>card DEF Dependencies
  <2>2. unresolved' = [c \in components |-> unresolved[c] - resolved(c)]
    BY <1>9 DEF EmitWave
  <2>3. current_wave' \subseteq components
    BY <1>9 DEF EmitWave
  <2> HIDE DEF resolved
  <2>4. unresolved' \in [components -> Int]
    BY <1>9, <2>1, <2>2 DEF EmitWave, TypeOK
  <2>5. waves' = Append(waves, current_wave) /\ current_wave \in SUBSET components
    BY <1>9 DEF EmitWave, TypeOK
  <2>6. waves' \in Seq(SUBSET components)
    BY <2>5, AppendProperties DEF TypeOK
  <2>7. UNCHANGED <<edges, phase, traversal, collection>>
    BY <1>9 DEF EmitWave
  <2> QED
    BY <2>3, <2>4, <2>6, <2>7 DEF TypeOK
<1>10. CASE EndWaves
  BY <1>10 DEF EndWaves, TypeOK
<1> HIDE DEF traversal, collection
<1> QED
  BY <1>0, <1>1, <1>2, <1>3, <1>4, <1>5, <1>6, <1>7, <1>8, <1>9, <1>10 DEF Next

\* Type correctness of analyze_graph on any finite graph.
THEOREM GraphTyping == Spec => []TypeOK
<1>1. Init => TypeOK
  BY DEF Init, TypeOK
<1> QED
  BY <1>1, StepTyped, PTL DEF Spec

-----------------------------------------------------------------------------
(* The first traversal.  In the order in which nodes finish, one that      *)
(* reaches a later one is reached from it, or reaches one that is later    *)
(* still.                                                                  *)

Grey == {stack[k].node : k \in 1..Len(stack)}
Finished == {finish_order[i] : i \in 1..Len(finish_order)}

\* The stack is a path, and what a node leads to is visited or in its iterator.
StackOK ==
    /\ visited = Finished \cup Grey
    /\ \A k \in 1..Len(stack) : \A m \in NodeIds :
          /\ m \in stack[k].rest => <<stack[k].node, m>> \in edges
          /\ <<stack[k].node, m>> \in edges => m \in stack[k].rest \cup visited
    /\ \A k \in 1..Len(stack) : \A l \in 1..k : <<stack[l].node, stack[k].node>> \in Reach
    /\ \A n \in Finished, m \in NodeIds : <<n, m>> \in edges => m \in visited

\* A finished node that reaches one on the stack is reached from it, or reaches
\* one below it.
TreeOK ==
    \A k \in 1..Len(stack) : \A x \in Finished :
        <<x, stack[k].node>> \in Reach =>
            \/ <<stack[k].node, x>> \in Reach
            \/ \E l \in 1..(k - 1) : <<x, stack[l].node>> \in Reach

OrderOK ==
    \A i \in 1..Len(finish_order) : \A j \in 1..(i - 1) :
        <<finish_order[j], finish_order[i]>> \in Reach =>
            \/ <<finish_order[i], finish_order[j]>> \in Reach
            \/ \E w \in Grey : <<finish_order[j], w>> \in Reach
            \/ \E l \in (i + 1)..Len(finish_order) : <<finish_order[j], finish_order[l]>> \in Reach

VisitOK == StackOK /\ TreeOK /\ OrderOK

LEMMA SeqFacts ==
    ASSUME TypeOK
    PROVE  /\ Len(stack) \in Nat /\ Len(finish_order) \in Nat
           /\ \A k \in 1..Len(stack) : stack[k] \in Frame /\ stack[k].node \in NodeIds
                                       /\ stack[k].rest \subseteq NodeIds
           /\ \A i \in 1..Len(finish_order) : finish_order[i] \in NodeIds
           /\ Grey \subseteq NodeIds /\ Finished \subseteq NodeIds
<1>1. stack \in Seq(Frame) /\ finish_order \in Seq(NodeIds)
  BY DEF TypeOK
<1>2. /\ Len(stack) \in Nat /\ Len(finish_order) \in Nat
      /\ \A k \in 1..Len(stack) : stack[k] \in Frame
      /\ \A i \in 1..Len(finish_order) : finish_order[i] \in NodeIds
  BY <1>1
<1>3. \A f \in Frame : f.node \in NodeIds /\ f.rest \subseteq NodeIds
  BY DEF Frame
<1> QED
  BY <1>2, <1>3 DEF Grey, Finished

\* A path from a finished node to one not visited passes the stack.
LEMMA PassesStack ==
    ASSUME TypeOK, StackOK, NEW x \in Finished, NEW n \in NodeIds \ visited, <<x, n>> \in Reach
    PROVE  \E l \in 1..Len(stack) : <<x, stack[l].node>> \in Reach
<1>1. Finished \in SUBSET NodeIds /\ n \in NodeIds \ Finished
  BY SeqFacts DEF StackOK
<1>2. PICK z \in Finished : \E y \in Successors(z) \ Finished : <<x, y>> \in Reach
  BY <1>1, Leaving
<1>3. PICK y \in Successors(z) \ Finished : <<x, y>> \in Reach
  BY <1>2
<1>4. y \in Grey
  BY <1>3 DEF StackOK, Successors
<1> QED
  BY <1>3, <1>4 DEF Grey

LEMMA StepPush ==
    ASSUME TypeOK, VisitOK, NEW n \in NodeIds \ visited, NEW L, L = Len(stack),
           Len(stack') = L + 1, stack'[L + 1] = [node |-> n, rest |-> Successors(n)],
           \A k \in 1..L : stack'[k].node = stack[k].node,
           \A k \in 1..L : \A m \in stack[k].rest : m \in stack'[k].rest \cup {n},
           \A k \in 1..L : stack'[k].rest \subseteq stack[k].rest,
           L # 0 => <<stack[L].node, n>> \in Reach,
           visited' = visited \cup {n}, UNCHANGED <<edges, finish_order>>
    PROVE  VisitOK'
<1>facts. /\ L \in Nat /\ \A k \in 1..L : stack[k].node \in NodeIds
          /\ Finished' = Finished /\ Reach' = Reach
          /\ stack'[L + 1].node = n /\ stack'[L + 1].rest = Successors(n)
  BY SeqFacts, SameReach DEF Finished
<1>1. Grey' = Grey \cup {n}
  <2>1. \A k \in 1..(L + 1) : stack'[k].node = IF k = L + 1 THEN n ELSE stack[k].node
    BY <1>facts
  <2>2. Grey' = {stack'[k].node : k \in 1..(L + 1)}
    BY DEF Grey
  <2>3. Grey = {stack[k].node : k \in 1..L}
    BY DEF Grey
  <2>4. ASSUME NEW k \in 1..(L + 1)
        PROVE  stack'[k].node \in Grey \cup {n}
    <3>1. k = L + 1 \/ k \in 1..L
      BY <1>facts
    <3> QED
      BY <2>1, <2>3, <3>1, <1>facts
  <2>5. ASSUME NEW k \in 1..L
        PROVE  stack[k].node \in Grey'
    <3>1. k \in 1..(L + 1)
      BY <1>facts
    <3> QED
      BY <2>2, <3>1
  <2>6. n \in Grey'
    <3>1. L + 1 \in 1..(L + 1)
      BY <1>facts
    <3> QED
      BY <2>2, <3>1, <1>facts
  <2> QED
    BY <2>2, <2>3, <2>4, <2>5, <2>6
<1>split. \A k \in 1..Len(stack') : k = L + 1 \/ (k \in 1..L /\ k # L + 1)
  BY <1>facts
<1>2. visited' = Finished' \cup Grey'
  BY <1>1, <1>facts DEF VisitOK, StackOK
<1>3. ASSUME NEW k \in 1..Len(stack'), NEW m \in NodeIds
      PROVE  /\ m \in stack'[k].rest => <<stack'[k].node, m>> \in edges'
             /\ <<stack'[k].node, m>> \in edges' => m \in stack'[k].rest \cup visited'
  <2>1. CASE k = L + 1
    BY <2>1, <1>facts DEF Successors
  <2>2. CASE k \in 1..L
    BY <2>2 DEF VisitOK, StackOK
  <2> QED
    BY <2>1, <2>2, <1>split
<1>4. ASSUME NEW k \in 1..Len(stack'), NEW l \in 1..k
      PROVE  <<stack'[l].node, stack'[k].node>> \in Reach'
  <2>1. CASE k \in 1..L
    <3>1. l \in 1..L
      BY <2>1, <1>facts
    <3> QED
      BY <2>1, <3>1, <1>facts DEF VisitOK, StackOK
  <2>2. CASE k = L + 1 /\ l = L + 1
    BY <2>2, <1>facts, ReachFacts
  <2>3. CASE k = L + 1 /\ l # L + 1
    <3>1. l \in 1..L /\ L \in 1..L /\ L # 0
      BY <2>3, <1>facts
    <3>2. <<stack[l].node, stack[L].node>> \in Reach
      BY <3>1 DEF VisitOK, StackOK
    <3> QED
      BY <2>3, <3>1, <3>2, <1>facts, ReachFacts
  <2> QED
    BY <2>1, <2>2, <2>3, <1>split
<1>5. \A z \in Finished', m \in NodeIds : <<z, m>> \in edges' => m \in visited'
  BY <1>facts DEF VisitOK, StackOK
<1>6. StackOK'
  BY <1>2, <1>3, <1>4, <1>5 DEF StackOK
<1>7. ASSUME NEW k \in 1..Len(stack'), NEW x \in Finished', <<x, stack'[k].node>> \in Reach'
      PROVE  \/ <<stack'[k].node, x>> \in Reach'
             \/ \E l \in 1..(k - 1) : <<x, stack'[l].node>> \in Reach'
  <2>1. CASE k \in 1..L
    <3>1. \A l \in 1..(k - 1) : l \in 1..L
      BY <2>1, <1>facts
    <3> QED
      BY <2>1, <3>1, <1>7, <1>facts DEF VisitOK, TreeOK
  <2>2. CASE k = L + 1
    <3>1. PICK l \in 1..L : <<x, stack[l].node>> \in Reach
      BY <2>2, <1>7, <1>facts, PassesStack DEF VisitOK
    <3>2. l \in 1..(k - 1) /\ stack'[l].node = stack[l].node
      BY <2>2, <3>1, <1>facts
    <3> QED
      BY <3>1, <3>2, <1>facts
  <2> QED
    BY <2>1, <2>2, <1>split
<1>8. TreeOK'
  BY <1>7 DEF TreeOK
<1>9. OrderOK'
  BY <1>1, <1>facts DEF VisitOK, OrderOK
<1> QED
  BY <1>6, <1>8, <1>9 DEF VisitOK

LEMMA StepPop == ASSUME TypeOK, VisitOK, Finish PROVE VisitOK'
<1> DEFINE L == Len(stack)
           F == Len(finish_order)
           u == Top.node
<1>facts. /\ L \in Nat \ {0} /\ F \in Nat /\ u = stack[L].node /\ u \in NodeIds
          /\ Top.rest = {} /\ stack[L].rest = {}
          /\ Len(stack') = L - 1 /\ \A k \in 1..(L - 1) : stack'[k] = stack[k]
          /\ Len(finish_order') = F + 1 /\ \A i \in 1..F : finish_order'[i] = finish_order[i]
          /\ finish_order'[F + 1] = u
          /\ Reach' = Reach /\ edges' = edges /\ visited' = visited
  <2>1. /\ L \in Nat \ {0} /\ F \in Nat /\ Top = stack[L] /\ Top \in Frame
        /\ Len(stack') = L - 1 /\ \A k \in 1..(L - 1) : stack'[k] = stack[k]
        /\ Len(finish_order') = F + 1 /\ \A i \in 1..F : finish_order'[i] = finish_order[i]
        /\ finish_order'[F + 1] = u
    BY Popped, SeqFacts
  <2>2. u \in NodeIds
    BY <2>1 DEF Frame
  <2> QED
    BY <2>1, <2>2, SameReach DEF Finish
<1> HIDE DEF L, F, u
<1>below. /\ L \in 1..L /\ \A k \in 1..(L - 1) : k \in 1..L
          /\ \A k \in 1..L : k = L \/ k \in 1..(L - 1)
          /\ \A i \in 1..(F + 1) : i = F + 1 \/ (i \in 1..F /\ i # F + 1)
          /\ F + 1 \in 1..(F + 1) /\ \A i \in 1..F : i \in 1..(F + 1)
          /\ \A k \in 1..(L - 1) : \A l \in 1..k : l \in 1..(L - 1)
          /\ \A k \in 1..(L - 1) : \A l \in 1..(k - 1) : l \in 1..(L - 1)
  BY <1>facts
<1>1. Grey = Grey' \cup {u} /\ Grey = {stack[k].node : k \in 1..L}
  <2>1. Grey' = {stack[k].node : k \in 1..(L - 1)} /\ Grey = {stack[k].node : k \in 1..L}
    BY <1>facts DEF Grey, L
  <2> QED
    BY <2>1, <1>facts, <1>below
<1>2. Finished' = Finished \cup {u}
  <2>1. Finished' = {finish_order'[i] : i \in 1..(F + 1)} /\ Finished = {finish_order[i] : i \in 1..F}
    BY <1>facts DEF Finished, F
  <2>2. \A i \in 1..(F + 1) : finish_order'[i] \in Finished \cup {u}
    BY <2>1, <1>facts, <1>below
  <2>3. \A i \in 1..F : finish_order[i] \in Finished'
    BY <2>1, <1>facts, <1>below
  <2>4. u \in Finished'
    BY <2>1, <1>facts, <1>below
  <2> QED
    BY <2>1, <2>2, <2>3, <2>4
<1>3. StackOK'
  <2>1. visited' = Finished' \cup Grey'
    BY <1>1, <1>2, <1>facts DEF VisitOK, StackOK
  <2>2. \A k \in 1..Len(stack') : \A m \in NodeIds :
          /\ m \in stack'[k].rest => <<stack'[k].node, m>> \in edges'
          /\ <<stack'[k].node, m>> \in edges' => m \in stack'[k].rest \cup visited'
    BY <1>facts, <1>below DEF VisitOK, StackOK, L
  <2>3. \A k \in 1..Len(stack') : \A l \in 1..k : <<stack'[l].node, stack'[k].node>> \in Reach'
    BY <1>facts, <1>below DEF VisitOK, StackOK, L
  <2>4. \A m \in NodeIds : <<u, m>> \in edges => m \in visited
    BY <1>facts, <1>below DEF VisitOK, StackOK, L
  <2>5. \A n \in Finished', m \in NodeIds : <<n, m>> \in edges' => m \in visited'
    BY <1>2, <2>4, <1>facts DEF VisitOK, StackOK
  <2> QED
    BY <2>1, <2>2, <2>3, <2>5 DEF StackOK
<1>4. ASSUME NEW k \in 1..(L - 1), NEW x \in Finished', <<x, stack[k].node>> \in Reach
      PROVE  \/ <<stack[k].node, x>> \in Reach
             \/ \E l \in 1..(k - 1) : <<x, stack[l].node>> \in Reach
  <2>1. CASE x = u
    <3>1. k \in 1..L /\ L \in 1..L
      BY <1>below
    <3> QED
      BY <2>1, <3>1, <1>facts DEF VisitOK, StackOK, L
  <2>2. CASE x \in Finished
    BY <2>2, <1>4, <1>below DEF VisitOK, TreeOK, L
  <2> QED
    BY <2>1, <2>2, <1>2
<1>5. TreeOK'
  <2> SUFFICES ASSUME NEW k \in 1..(L - 1), NEW x \in Finished', <<x, stack'[k].node>> \in Reach'
               PROVE  \/ <<stack'[k].node, x>> \in Reach'
                      \/ \E l \in 1..(k - 1) : <<x, stack'[l].node>> \in Reach'
    BY <1>facts DEF TreeOK
  <2>1. stack'[k] = stack[k] /\ \A l \in 1..(k - 1) : stack'[l] = stack[l]
    BY <1>facts, <1>below
  <2> QED
    BY <1>4, <2>1, <1>facts
<1>6. ASSUME NEW i \in 1..(F + 1), NEW j \in 1..(i - 1),
             <<finish_order'[j], finish_order'[i]>> \in Reach
      PROVE  \/ <<finish_order'[i], finish_order'[j]>> \in Reach
             \/ \E w \in Grey' : <<finish_order'[j], w>> \in Reach
             \/ \E l \in (i + 1)..(F + 1) : <<finish_order'[j], finish_order'[l]>> \in Reach
  <2>1. j \in 1..F /\ finish_order'[j] = finish_order[j]
    BY <1>facts
  <2>2. CASE i = F + 1
    <3>1. finish_order[j] \in Finished /\ finish_order'[i] = u
      BY <2>1, <2>2, <1>facts DEF Finished, F
    <3>2. \/ <<u, finish_order[j]>> \in Reach
          \/ \E l \in 1..(L - 1) : <<finish_order[j], stack[l].node>> \in Reach
      BY <2>1, <3>1, <1>6, <1>facts, <1>below DEF VisitOK, TreeOK, L
    <3>3. \A l \in 1..(L - 1) : stack[l].node \in Grey'
      BY <1>facts DEF Grey
    <3> QED
      BY <2>1, <3>1, <3>2, <3>3
  <2>3. CASE i # F + 1
    <3>1. i \in 1..F /\ finish_order'[i] = finish_order[i]
      BY <2>3, <1>facts, <1>below
    <3>2. \/ <<finish_order[i], finish_order[j]>> \in Reach
          \/ \E w \in Grey : <<finish_order[j], w>> \in Reach
          \/ \E l \in (i + 1)..F : <<finish_order[j], finish_order[l]>> \in Reach
      BY <2>1, <3>1, <1>6 DEF VisitOK, OrderOK, F
    <3>3. F + 1 \in (i + 1)..(F + 1) /\ \A l \in (i + 1)..F : l \in (i + 1)..(F + 1) /\ l \in 1..F
      BY <3>1, <1>facts
    <3> QED
      BY <2>1, <3>1, <3>2, <3>3, <1>1, <1>facts
  <2> QED
    BY <2>2, <2>3
<1>7. OrderOK'
  BY <1>6, <1>facts DEF OrderOK
<1> QED
  BY <1>3, <1>5, <1>7 DEF VisitOK

LEMMA StepVisit == TypeOK /\ VisitOK /\ [Next]_vars => VisitOK'
<1> SUFFICES ASSUME TypeOK, VisitOK, [Next]_vars
             PROVE  VisitOK'
  OBVIOUS
<1>0. CASE UNCHANGED <<edges, traversal>>
  <2>1. /\ edges' = edges /\ visited' = visited /\ stack' = stack /\ finish_order' = finish_order
        /\ Reach' = Reach /\ Grey' = Grey /\ Finished' = Finished
    BY <1>0, SameReach DEF traversal, Grey, Finished
  <2>2. StackOK' /\ TreeOK' /\ OrderOK'
    BY <2>1 DEF VisitOK, StackOK, TreeOK, OrderOK
  <2> QED
    BY <2>2 DEF VisitOK
<1>1. CASE StartVisit
  <2>1. stack = <<>> /\ Len(stack) = 0 /\ UNCHANGED <<edges, finish_order>>
    BY <1>1 DEF StartVisit
  <2> DEFINE n == Least(NodeIds \ visited)
  <2>2. /\ n \in NodeIds \ visited /\ visited' = visited \cup {n}
        /\ Len(stack') = 1 /\ stack'[1] = [node |-> n, rest |-> Successors(n)]
    BY <1>1, Started
  <2> HIDE DEF n
  <2>3. /\ Len(stack') = Len(stack) + 1
        /\ stack'[Len(stack) + 1] = [node |-> n, rest |-> Successors(n)]
        /\ \A k \in 1..Len(stack) : FALSE
    BY <2>1, <2>2
  <2> QED
    BY <2>1, <2>2, <2>3, StepPush
<1>2. CASE Advance
  <2> DEFINE n == Least(Top.rest)
             L == Len(stack)
  <2>1. /\ L \in Nat \ {0} /\ n \in Top.rest /\ n \in NodeIds /\ Top \in Frame
        /\ stack' \in Seq(Frame)
        /\ \A k \in 1..L : stack'[k].node = stack[k].node
        /\ \A k \in 1..L : k # L => stack'[k].rest = stack[k].rest
        /\ stack'[L].rest = Top.rest \ {n}
        /\ \/ n \in visited /\ visited' = visited /\ Len(stack') = L
           \/ /\ n \notin visited /\ visited' = visited \cup {n} /\ Len(stack') = L + 1
              /\ stack'[L + 1] = [node |-> n, rest |-> Successors(n)]
    BY <1>2, Advanced
  <2>2. Top = stack[L] /\ UNCHANGED <<edges, finish_order>> /\ Reach' = Reach
    BY <1>2, SameReach DEF Advance, Top
  <2> HIDE DEF n, L
  <2>3. L = Len(stack) /\ L \in 1..L
    BY <2>1 DEF L
  <2>4. /\ \A k \in 1..L : \A m \in stack[k].rest : m \in stack'[k].rest \cup {n}
        /\ \A k \in 1..L : stack'[k].rest \subseteq stack[k].rest
    BY <2>1, <2>2
  <2>5. CASE n \in visited
    <3>1. visited' = visited /\ Len(stack') = L
      BY <2>1, <2>5
    <3>2. Grey' = Grey /\ Finished' = Finished
      BY <2>1, <2>2, <2>3, <3>1 DEF Grey, Finished
    <3>3. StackOK'
      <4>1. \A k \in 1..L : \A m \in NodeIds :
              /\ m \in stack'[k].rest => <<stack'[k].node, m>> \in edges'
              /\ <<stack'[k].node, m>> \in edges' => m \in stack'[k].rest \cup visited'
        BY <2>1, <2>2, <2>3, <2>4, <2>5, <3>1 DEF VisitOK, StackOK
      <4>2. \A k \in 1..L : \A l \in 1..k : l \in 1..L
        BY <2>1
      <4>3. \A k \in 1..L : \A l \in 1..k : <<stack'[l].node, stack'[k].node>> \in Reach'
        BY <2>1, <2>2, <2>3, <4>2 DEF VisitOK, StackOK
      <4> QED
        BY <2>2, <3>1, <3>2, <4>1, <4>3 DEF VisitOK, StackOK
    <3>4. TreeOK'
      <4>1. \A k \in 1..L : \A l \in 1..(k - 1) : l \in 1..L
        BY <2>1
      <4>2. /\ 1..Len(stack') = 1..L /\ 1..Len(stack) = 1..L
            /\ Reach' = Reach /\ Finished' = Finished
            /\ \A k \in 1..L : stack'[k].node = stack[k].node
        BY <2>1, <2>2, <2>3, <3>1, <3>2
      <4>3. SUFFICES ASSUME NEW k \in 1..L, NEW x \in Finished, <<x, stack[k].node>> \in Reach
                     PROVE  \/ <<stack[k].node, x>> \in Reach
                            \/ \E l \in 1..(k - 1) : <<x, stack'[l].node>> \in Reach
        BY <4>2 DEF TreeOK
      <4>4. \/ <<stack[k].node, x>> \in Reach
            \/ \E l \in 1..(k - 1) : <<x, stack[l].node>> \in Reach
        BY <4>2, <4>3 DEF VisitOK, TreeOK
      <4> QED
        BY <4>1, <4>2, <4>4
    <3>5. OrderOK'
      BY <2>2, <3>2 DEF VisitOK, OrderOK
    <3> QED
      BY <3>3, <3>4, <3>5 DEF VisitOK
  <2>6. CASE n \notin visited
    <3>1. <<stack[L].node, n>> \in Reach
      <4>1. <<stack[L].node, n>> \in edges /\ stack[L].node \in NodeIds
        BY <2>1, <2>2, <2>3, SeqFacts DEF VisitOK, StackOK
      <4> QED
        BY <2>1, <4>1, ReachFacts DEF Successors
    <3> QED
      BY <2>1, <2>2, <2>3, <2>4, <2>6, <3>1, StepPush
  <2> QED
    BY <2>5, <2>6
<1>3. CASE Finish
  BY <1>3, StepPop
<1>4. CASE EndVisit \/ StartComponent \/ Collect \/ CloseComponent \/ BuildCondensation \/ EmitWave \/ EndWaves
  BY <1>0, <1>4 DEF EndVisit, StartComponent, Collect, CloseComponent, BuildCondensation, EmitWave, EndWaves
<1>5. CASE UNCHANGED vars
  BY <1>0, <1>5 DEF vars
<1> QED
  BY <1>1, <1>2, <1>3, <1>4, <1>5 DEF Next

LEMMA VisitHolds == Spec => []VisitOK
<1>1. Init => VisitOK
  BY DEF Init, VisitOK, StackOK, TreeOK, OrderOK, Grey, Finished
<1> QED
  BY <1>1, StepVisit, GraphTyping, PTL DEF Spec

-----------------------------------------------------------------------------
(* The second traversal.  What is assigned holds its ancestors, so that a  *)
(* component starts from a node that reaches all the nodes left that reach *)
(* it.                                                                     *)

Done == UNION components
Now == members \cup Waiting

Root(r) ==
    /\ \A x \in Now : <<x, r>> \in Reach
    /\ \A x \in NodeIds \ Done : <<x, r>> \in Reach => <<r, x>> \in Reach

CollectOK ==
    /\ phase = "visit" => assigned = {} /\ pending = <<>> /\ members = {} /\ components = {}
    /\ phase # "visit" => stack = <<>> /\ Finished = NodeIds
    /\ phase \notin {"visit", "assign"} => pending = <<>> /\ members = {} /\ Done = NodeIds
    /\ \A m \in Done : Predecessors(m) \subseteq Done
    /\ \A m \in members : Predecessors(m) \subseteq assigned
    /\ assigned = Done \cup Now /\ Done \cap Now = {}
    /\ Now # {} => \E r \in Now : Root(r)
    /\ {} \notin components

StrongOK ==
    \A c \in components : \A n \in c :
        c = {m \in NodeIds : <<n, m>> \in Reach /\ <<m, n>> \in Reach}

LEMMA WaitingFacts ==
    ASSUME TypeOK
    PROVE  /\ Waiting \subseteq NodeIds /\ Done \subseteq NodeIds /\ members \subseteq NodeIds
           /\ pending = <<>> => Waiting = {}
           /\ \A m \in NodeIds : Predecessors(m) \subseteq NodeIds
<1>1. Waiting \subseteq NodeIds
  BY DEF TypeOK, Waiting
<1>2. pending = <<>> => Waiting = {}
  BY DEF Waiting
<1>3. Done \subseteq NodeIds /\ members \subseteq NodeIds
  BY DEF TypeOK, Done
<1> QED
  BY <1>1, <1>2, <1>3 DEF Predecessors

LEMMA StepStart == ASSUME TypeOK, VisitOK, CollectOK, StartComponent PROVE CollectOK'
<1>1. /\ phase = "assign" /\ pending = <<>> /\ members = {} /\ Waiting = {} /\ stack = <<>>
      /\ UNCHANGED <<edges, phase, stack, finish_order, members, components>>
  BY WaitingFacts DEF StartComponent, CollectOK, traversal
<1>2. PICK k \in Unassigned :
             /\ \A j \in Unassigned : j <= k
             /\ finish_order[k] \in NodeIds \ assigned
             /\ assigned' = assigned \cup {finish_order[k]}
             /\ pending' = <<finish_order[k]>>
  BY Restarted
<1> DEFINE r == finish_order[k]
           F == Len(finish_order)
<1>3. F \in Nat /\ k \in 1..F /\ Unassigned = {i \in 1..F : finish_order[i] \notin assigned}
  BY <1>2, SeqFacts DEF Unassigned, TypeOK
<1>4. /\ Reach' = Reach /\ Done' = Done /\ Finished' = Finished /\ assigned = Done
      /\ Waiting' = {r} /\ Now' = {r}
  <2>1. Waiting' = {r}
    BY <1>2 DEF Waiting
  <2> QED
    BY <1>1, <2>1, SameReach DEF Done, Finished, Now, CollectOK
<1>5. ASSUME NEW x \in NodeIds \ Done, <<x, r>> \in Reach
      PROVE  <<r, x>> \in Reach
  <2>1. PICK j \in 1..F : finish_order[j] = x
    BY <1>1, <1>3 DEF CollectOK, Finished
  <2>2. j <= k /\ x \notin assigned
    BY <1>2, <1>3, <1>4, <2>1
  <2>3. CASE j = k
    BY <2>1, <2>3, <1>5
  <2>4. CASE j # k
    <3>1. j \in 1..(k - 1)
      BY <1>3, <2>2, <2>4
    <3>2. Grey = {}
      BY <1>1 DEF Grey
    <3>3. \/ <<r, x>> \in Reach
          \/ \E l \in (k + 1)..F : <<x, finish_order[l]>> \in Reach
      BY <1>3, <1>5, <2>1, <3>1, <3>2 DEF VisitOK, OrderOK
    <3>4. ASSUME NEW l \in (k + 1)..F, <<x, finish_order[l]>> \in Reach
          PROVE  FALSE
      <4>1. l \in 1..F /\ ~(l <= k)
        BY <1>3
      <4>2. finish_order[l] \in Done
        BY <1>2, <1>3, <1>4, <4>1
      <4>3. Done \in SUBSET NodeIds /\ \A m \in Done : Predecessors(m) \subseteq Done
        BY WaitingFacts DEF CollectOK
      <4> QED
        BY <3>4, <4>2, <4>3, Ancestors
    <3> QED
      BY <3>3, <3>4
  <2> QED
    BY <2>3, <2>4
<1>6. \A m : Predecessors(m)' = Predecessors(m)
  BY <1>1 DEF Predecessors
<1>7. \E s \in Now' : Root(s)'
  <2>1. <<r, r>> \in Reach
    BY <1>2, ReachFacts
  <2>2. PICK s : s = r
    OBVIOUS
  <2>3. /\ Now' = {s} /\ Done' = Done /\ Reach' = Reach /\ <<s, s>> \in Reach
        /\ \A x \in NodeIds \ Done : <<x, s>> \in Reach => <<s, x>> \in Reach
    BY <1>4, <1>5, <2>1, <2>2
  <2>4. Root(s)'
    BY <2>3 DEF Root
  <2> QED
    BY <2>3, <2>4
<1>8. assigned' = Done' \cup Now' /\ Done' \cap Now' = {}
  BY <1>2, <1>4 DEF r
<1>9. \A m \in Done' : Predecessors(m)' \subseteq Done'
  BY <1>4, <1>6 DEF CollectOK
<1>10. \A m \in members' : Predecessors(m)' \subseteq assigned'
  BY <1>1
<1> HIDE DEF r
<1> QED
  BY <1>1, <1>4, <1>7, <1>8, <1>9, <1>10 DEF CollectOK

LEMMA StepCollects == ASSUME TypeOK, CollectOK, Collect PROVE CollectOK'
<1> DEFINE n == pending[Len(pending)]
           fresh == Predecessors(n) \ assigned
<1>1. /\ n \in NodeIds /\ n \in Waiting /\ fresh \subseteq NodeIds
      /\ fresh \subseteq Waiting' /\ Waiting \subseteq Waiting' \cup {n}
      /\ Waiting' \subseteq Waiting \cup fresh
      /\ assigned' = assigned \cup fresh /\ members' = members \cup {n}
  BY Collected
<1>2. Predecessors(n) \subseteq assigned'
  BY <1>1
<1>3. \A x \in fresh : <<x, n>> \in Reach
  BY <1>1, ReachFacts
<1> HIDE DEF n, fresh
<1>4. phase = "assign" /\ UNCHANGED <<edges, phase, stack, finish_order, components>>
  BY DEF Collect, traversal
<1>5. /\ Reach' = Reach /\ Done' = Done /\ Finished' = Finished
      /\ \A m : Predecessors(m)' = Predecessors(m)
  BY <1>4, SameReach DEF Done, Finished, Predecessors
<1>6. Now' = Now \cup fresh /\ n \in Now
  BY <1>1 DEF Now
<1>7. fresh \cap Done = {}
  BY DEF fresh, CollectOK
<1>8. PICK r \in Now : Root(r)
  BY <1>6 DEF CollectOK
<1>9. Root(r)'
  <2>1. \A x \in fresh : <<x, r>> \in Reach
    BY <1>3, <1>6, <1>8, ReachFacts DEF Root
  <2> QED
    BY <1>5, <1>6, <1>8, <2>1 DEF Root
<1>10. \A m \in members' : Predecessors(m)' \subseteq assigned'
  BY <1>1, <1>2, <1>5 DEF CollectOK
<1>11. \A m \in Done' : Predecessors(m)' \subseteq Done'
  BY <1>5 DEF CollectOK
<1>12. assigned' = Done' \cup Now' /\ Done' \cap Now' = {}
  BY <1>1, <1>5, <1>6, <1>7 DEF CollectOK
<1> QED
  BY <1>4, <1>5, <1>6, <1>8, <1>9, <1>10, <1>11, <1>12 DEF CollectOK

\* A component that is closed is one class of mutually reachable nodes.
LEMMA StepClose ==
    ASSUME TypeOK, CollectOK, StrongOK, CloseComponent
    PROVE  CollectOK' /\ StrongOK'
<1>1. /\ phase = "assign" /\ pending = <<>> /\ members # {} /\ Waiting = {} /\ Now = members
      /\ components' = components \cup {members} /\ members' = {}
      /\ UNCHANGED <<edges, phase, stack, finish_order, assigned, pending>>
  BY WaitingFacts DEF CloseComponent, traversal, Now
<1>2. /\ Reach' = Reach /\ Finished' = Finished /\ Waiting' = {} /\ Now' = {}
      /\ Done' = Done \cup members /\ \A m : Predecessors(m)' = Predecessors(m)
  BY <1>1, SameReach DEF Done, Now, Waiting, Finished, Predecessors
<1>3. PICK r \in members : Root(r)
  BY <1>1 DEF CollectOK
<1>4. \A m \in Done \cup members : Predecessors(m) \subseteq Done \cup members
  BY <1>1 DEF CollectOK
<1>5. Done \cap members = {} /\ members \subseteq NodeIds /\ Done \subseteq NodeIds
  BY <1>1, WaitingFacts DEF CollectOK
<1>6. ASSUME NEW n \in members
      PROVE  members = {m \in NodeIds : <<n, m>> \in Reach /\ <<m, n>> \in Reach}
  <2>1. \A m \in members : <<m, r>> \in Reach /\ <<r, m>> \in Reach
    BY <1>1, <1>3, <1>5 DEF Root
  <2>2. \A m \in members : <<n, m>> \in Reach /\ <<m, n>> \in Reach
    BY <2>1, ReachFacts
  <2>3. ASSUME NEW m \in NodeIds, <<n, m>> \in Reach, <<m, n>> \in Reach
        PROVE  m \in members
    <3>1. m \in Done \cup members
      BY <1>4, <1>5, <2>3, Ancestors
    <3>2. m \notin Done
      <4>1. Done \in SUBSET NodeIds /\ \A x \in Done : Predecessors(x) \subseteq Done
        BY <1>5 DEF CollectOK
      <4>2. m \in Done => n \in Done
        BY <2>3, <4>1, Ancestors
      <4> QED
        BY <4>2, <1>5
    <3> QED
      BY <3>1, <3>2
  <2> QED
    BY <1>5, <2>2, <2>3
<1>7. StrongOK'
  BY <1>1, <1>2, <1>6 DEF StrongOK
<1>8. assigned' = Done' \cup Now' /\ Done' \cap Now' = {}
  BY <1>1, <1>2 DEF CollectOK
<1>9. \A m \in Done' : Predecessors(m)' \subseteq Done'
  BY <1>2, <1>4
<1>10. CollectOK'
  BY <1>1, <1>2, <1>8, <1>9 DEF CollectOK
<1> QED
  BY <1>7, <1>10

LEMMA StepComponents ==
    TypeOK /\ VisitOK /\ CollectOK /\ StrongOK /\ [Next]_vars => CollectOK' /\ StrongOK'
<1> SUFFICES ASSUME TypeOK, VisitOK, CollectOK, StrongOK, [Next]_vars
             PROVE  CollectOK' /\ StrongOK'
  OBVIOUS
<1>0. ASSUME UNCHANGED <<edges, components>>
      PROVE  StrongOK' /\ Done' = Done /\ \A m : Predecessors(m)' = Predecessors(m)
  BY <1>0, SameReach DEF StrongOK, Done, Predecessors
<1>1. ASSUME UNCHANGED <<edges, collection, stack, finish_order>>,
             phase' = phase \/ (phase \notin {"visit", "assign"} /\ phase' \notin {"visit", "assign"})
      PROVE  CollectOK' /\ StrongOK'
  <2>1. /\ Reach' = Reach /\ Waiting' = Waiting /\ Now' = Now /\ Finished' = Finished
        /\ UNCHANGED <<assigned, pending, members, components>>
    BY <1>1, SameReach DEF collection, Waiting, Now, Finished
  <2>2. \A r : Root(r)' = Root(r)
    BY <2>1, <1>0, <1>1 DEF Root
  <2>3. CollectOK'
    BY <1>0, <1>1, <2>1, <2>2 DEF CollectOK
  <2> QED
    BY <1>0, <1>1, <2>1, <2>3
<1>2. CASE StartVisit \/ Advance \/ Finish
  <2>1. /\ phase = "visit" /\ phase' = "visit" /\ UNCHANGED <<edges, assigned, pending, members, components>>
    BY <1>2 DEF StartVisit, Advance, Finish, collection
  <2>2. Waiting' = {} /\ Done' = {} /\ Now' = {} /\ assigned' = {} /\ members' = {}
    BY <2>1 DEF CollectOK, Waiting, Done, Now
  <2> QED
    BY <1>0, <2>1, <2>2 DEF CollectOK
<1>3. CASE EndVisit
  <2>1. /\ phase = "visit" /\ phase' = "assign" /\ stack = <<>> /\ visited = NodeIds
        /\ UNCHANGED <<edges, assigned, pending, members, components, stack, finish_order>>
    BY <1>3 DEF EndVisit, traversal, collection
  <2>2. Waiting' = {} /\ Done' = {} /\ Now' = {} /\ assigned' = {} /\ members' = {} /\ Finished' = Finished
    BY <2>1 DEF CollectOK, Waiting, Done, Now, Finished
  <2>3. Finished = NodeIds
    <3>1. Len(stack) = 0
      BY <2>1
    <3>2. Grey = {}
      BY <3>1 DEF Grey
    <3> QED
      BY <2>1, <3>2 DEF VisitOK, StackOK
  <2> QED
    BY <1>0, <2>1, <2>2, <2>3 DEF CollectOK
<1>4. CASE StartComponent
  BY <1>0, <1>4, StepStart DEF StartComponent
<1>5. CASE Collect
  BY <1>0, <1>5, StepCollects DEF Collect
<1>6. CASE CloseComponent
  BY <1>6, StepClose
<1>7. CASE BuildCondensation
  <2>1. /\ phase = "assign" /\ phase' = "waves" /\ pending = <<>> /\ members = {} /\ Unassigned = {}
        /\ UNCHANGED <<edges, assigned, pending, members, components, stack, finish_order>>
    BY <1>7 DEF BuildCondensation, traversal, collection
  <2>2. Done = NodeIds
    <3>1. Waiting = {} /\ Done \subseteq NodeIds
      BY <2>1, WaitingFacts
    <3>2. \A i \in 1..Len(finish_order) : finish_order[i] \in assigned
      BY <2>1 DEF Unassigned, TypeOK
    <3> QED
      BY <2>1, <3>1, <3>2 DEF CollectOK, Finished, Now
  <2>3. Waiting' = {} /\ Now' = {} /\ Waiting = {} /\ Now = {} /\ Finished' = Finished
    BY <2>1 DEF Waiting, Now, Finished
  <2> QED
    BY <1>0, <2>1, <2>2, <2>3 DEF CollectOK
<1>8. CASE EmitWave \/ EndWaves
  BY <1>1, <1>8 DEF EmitWave, EndWaves, traversal
<1>9. CASE UNCHANGED vars
  BY <1>1, <1>9 DEF vars, traversal
<1> QED
  BY <1>2, <1>3, <1>4, <1>5, <1>6, <1>7, <1>8, <1>9 DEF Next

LEMMA ComponentsHold == Spec => [](CollectOK /\ StrongOK)
<1>1. Init => CollectOK /\ StrongOK
  <2> SUFFICES ASSUME Init
               PROVE  CollectOK /\ StrongOK
    OBVIOUS
  <2>1. Waiting = {} /\ Done = {} /\ Now = {}
    BY DEF Init, Waiting, Done, Now
  <2> QED
    BY <2>1 DEF Init, CollectOK, StrongOK
<1>2. TypeOK /\ VisitOK /\ CollectOK /\ StrongOK /\ [Next]_vars => (CollectOK /\ StrongOK)'
  BY StepComponents
<1> QED
  BY <1>1, <1>2, GraphTyping, VisitHolds, PTL DEF Spec

\* Every component is one class of mutually reachable nodes.
THEOREM ComponentsAreClasses == Spec => []ComponentsAreStrong
<1>1. TypeOK /\ StrongOK => ComponentsAreStrong
  <2> SUFFICES ASSUME TypeOK, StrongOK, NEW c \in components, NEW n \in c
               PROVE  c = {m \in NodeIds : Reaches(n, m) /\ Reaches(m, n)}
    BY DEF ComponentsAreStrong
  <2>1. n \in NodeIds
    BY DEF TypeOK
  <2>2. \A m \in NodeIds : /\ <<n, m>> \in Reach <=> Reaches(n, m)
                           /\ <<m, n>> \in Reach <=> Reaches(m, n)
    BY <2>1 DEF Reach
  <2>3. {m \in NodeIds : Reaches(n, m) /\ Reaches(m, n)}
          = {m \in NodeIds : <<n, m>> \in Reach /\ <<m, n>> \in Reach}
    BY <2>2
  <2> QED
    BY <2>3 DEF StrongOK
<1> QED
  BY <1>1, GraphTyping, ComponentsHold, PTL

-----------------------------------------------------------------------------
(* Waves.  The counter of a component is the number of its dependencies    *)
(* not emitted, so that a component is emitted as soon as they all are.    *)

WaveOK ==
    /\ phase \in {"visit", "assign"} => waves = <<>>
    /\ phase = "waves" =>
          /\ current_wave \cap Emitted = {}
          /\ \A c \in components : unresolved[c] = Cardinality(Dependencies(c) \ Emitted)
          /\ \A c \in components : Dependencies(c) \subseteq Emitted => c \in Emitted \cup current_wave
          /\ \A c \in current_wave :
                /\ Dependencies(c) \subseteq Emitted
                /\ Len(waves) # 0 => Dependencies(c) \cap waves[Len(waves)] # {}
          /\ \A c \in Emitted : Dependencies(c) \subseteq Emitted

LEMMA WaveTypes ==
    ASSUME TypeOK
    PROVE  /\ Len(waves) \in Nat /\ DOMAIN waves = 1..Len(waves)
           /\ Emitted \subseteq components
           /\ \A c : Dependencies(c) \subseteq components
BY DEF TypeOK, Emitted, Dependencies

\* What a wave leaves unresolved.
LEMMA Resolved ==
    ASSUME TypeOK, NEW D \in SUBSET components, NEW W \in SUBSET components, NEW E, W \cap E = {}
    PROVE  /\ Cardinality(D \cap W) \in Nat /\ Cardinality(D \ (E \cup W)) \in Nat
           /\ Cardinality(D \ E) - Cardinality(D \cap W) = Cardinality(D \ (E \cup W))
           /\ Cardinality(D \cap W) > 0 <=> D \cap W # {}
           /\ Cardinality(D \ (E \cup W)) = 0 <=> D \subseteq E \cup W
<1> DEFINE A == D \cap W
           B == D \ (E \cup W)
<1>1. /\ IsFiniteSet(A) /\ Cardinality(A) \in Nat /\ IsFiniteSet(B) /\ Cardinality(B) \in Nat
  <2>1. A \subseteq components /\ B \subseteq components
    OBVIOUS
  <2> QED
    BY <2>1, ComponentCounts
<1>2. A \cup B = D \ E /\ A \cap B = {}
  OBVIOUS
<1>3. B = {} <=> D \subseteq E \cup W
  OBVIOUS
<1> HIDE DEF A, B
<1>4. Cardinality(A \cup B) = Cardinality(A) + Cardinality(B) - Cardinality(A \cap B)
  BY <1>1, FS_Union
<1>5. Cardinality(A \cap B) = 0
  BY <1>2, FS_EmptySet
<1>6. Cardinality(D \ E) - Cardinality(A) = Cardinality(B)
  BY <1>1, <1>2, <1>4, <1>5
<1>7. /\ Cardinality(A) = 0 <=> A = {}
      /\ Cardinality(B) = 0 <=> B = {}
  BY <1>1, FS_EmptySet
<1>8. Cardinality(A) > 0 <=> A # {}
  BY <1>1, <1>7
<1> QED
  BY <1>1, <1>3, <1>6, <1>7, <1>8 DEF A, B

LEMMA StepBuild == ASSUME TypeOK, WaveOK, BuildCondensation PROVE WaveOK'
<1>1. /\ phase' = "waves" /\ waves = <<>> /\ waves' = <<>>
      /\ \A c : Dependencies(c)' = Dependencies(c)
      /\ components' = components
      /\ unresolved' = [c \in components |-> Cardinality(Dependencies(c))]
      /\ current_wave' = {c \in components : Dependencies(c) = {}}
  BY DEF BuildCondensation, WaveOK, collection, Dependencies, Depends
<1>2. Len(waves') = 0 /\ Emitted' = {}
  BY <1>1 DEF Emitted
<1>3. \A c \in components : Dependencies(c) \ {} = Dependencies(c)
  OBVIOUS
<1> QED
  BY <1>1, <1>2, <1>3 DEF WaveOK

\* A step of the condensation, in terms of the sets of components it emits.
LEMMA Emits ==
    ASSUME TypeOK, WaveOK, EmitWave
    PROVE  LET E == Emitted
               W == current_wave
               U == Emitted \cup current_wave IN
           /\ phase = "waves" /\ phase' = "waves" /\ components' = components
           /\ \A c : Dependencies(c)' = Dependencies(c)
           /\ Len(waves') = Len(waves) + 1 /\ waves'[Len(waves) + 1] = W
           /\ \A i \in 1..Len(waves) : waves'[i] = waves[i]
           /\ Emitted' = U
           /\ \A c \in components : unresolved'[c] = Cardinality(Dependencies(c) \ U)
           /\ current_wave' = {c \in components : Dependencies(c) \cap W # {} /\ Dependencies(c) \subseteq U}
<1> DEFINE E == Emitted
           W == current_wave
           U == Emitted \cup current_wave
           resolved(c) == Cardinality(Dependencies(c) \cap W)
<1>1. /\ phase = "waves" /\ phase' = "waves" /\ components' = components
      /\ \A c : Dependencies(c)' = Dependencies(c)
      /\ waves' = Append(waves, W)
      /\ unresolved' = [c \in components |-> unresolved[c] - resolved(c)]
      /\ current_wave' = {c \in components : resolved(c) > 0 /\ unresolved'[c] = 0}
  BY DEF EmitWave, collection, Dependencies, Depends
<1>2. /\ Len(waves') = Len(waves) + 1 /\ waves'[Len(waves) + 1] = W
      /\ \A i \in 1..Len(waves) : waves'[i] = waves[i]
  BY <1>1, AppendProperties DEF TypeOK
<1>3. Emitted' = U
  <2>1. Emitted' = UNION {waves'[i] : i \in 1..(Len(waves) + 1)}
    <3>1. waves' \in Seq(SUBSET components)
      BY <1>1, AppendProperties DEF TypeOK
    <3> QED
      BY <1>2, <3>1 DEF Emitted
  <2>2. Emitted = UNION {waves[i] : i \in 1..Len(waves)}
    BY WaveTypes DEF Emitted
  <2>3. \A i \in 1..(Len(waves) + 1) : i = Len(waves) + 1 \/ i \in 1..Len(waves)
    BY WaveTypes
  <2>4. Len(waves) + 1 \in 1..(Len(waves) + 1) /\ \A i \in 1..Len(waves) : i \in 1..(Len(waves) + 1)
    BY WaveTypes
  <2>5. \A x \in Emitted' : x \in U
    BY <1>2, <2>1, <2>2, <2>3
  <2>6. \A x \in Emitted : x \in Emitted'
    BY <1>2, <2>1, <2>2, <2>4
  <2>7. \A x \in W : x \in Emitted'
    BY <1>2, <2>1, <2>4
  <2> QED
    BY <2>5, <2>6, <2>7
<1>4. ASSUME NEW c \in components
      PROVE  /\ unresolved'[c] = Cardinality(Dependencies(c) \ U)
             /\ resolved(c) > 0 <=> Dependencies(c) \cap W # {}
             /\ unresolved'[c] = 0 <=> Dependencies(c) \subseteq U
  <2>1. Dependencies(c) \in SUBSET components /\ W \in SUBSET components /\ W \cap E = {}
    BY <1>1, WaveTypes DEF TypeOK, WaveOK
  <2>2. unresolved[c] = Cardinality(Dependencies(c) \ E)
    BY <1>1 DEF WaveOK
  <2>3. unresolved'[c] = unresolved[c] - resolved(c)
    BY <1>1
  <2>4. /\ Cardinality(Dependencies(c) \ E) - resolved(c) = Cardinality(Dependencies(c) \ U)
        /\ resolved(c) > 0 <=> Dependencies(c) \cap W # {}
        /\ Cardinality(Dependencies(c) \ U) = 0 <=> Dependencies(c) \subseteq U
    <3> DEFINE D == Dependencies(c)
    <3>1. U = E \cup W
      OBVIOUS
    <3> HIDE DEF W, E, U, D
    <3>2. D \in SUBSET components /\ W \in SUBSET components /\ W \cap E = {}
      BY <2>1 DEF D
    <3>3. /\ Cardinality(D \ E) - Cardinality(D \cap W) = Cardinality(D \ (E \cup W))
          /\ Cardinality(D \cap W) > 0 <=> D \cap W # {}
          /\ Cardinality(D \ (E \cup W)) = 0 <=> D \subseteq E \cup W
      BY <3>2, Resolved, Zenon
    <3> QED
      BY <3>1, <3>3, Zenon DEF D
  <2>5. unresolved'[c] = Cardinality(Dependencies(c) \ U)
    BY <2>2, <2>3, <2>4
  <2> HIDE DEF W, U, E, resolved
  <2> QED
    BY <2>4, <2>5, Zenon
<1>5. current_wave' = {c \in components : Dependencies(c) \cap W # {} /\ Dependencies(c) \subseteq U}
  BY <1>1, <1>4
<1> QED
  BY <1>1, <1>2, <1>3, <1>4, <1>5

LEMMA StepEmit ==
    ASSUME TypeOK, WaveOK, DependenciesFirst, EmitWave
    PROVE  WaveOK' /\ DependenciesFirst'
<1> DEFINE W == current_wave
           U == Emitted \cup current_wave
           L == Len(waves)
<1>1. /\ phase = "waves" /\ phase' = "waves" /\ components' = components
      /\ \A c : Dependencies(c)' = Dependencies(c)
      /\ Len(waves') = L + 1 /\ waves'[L + 1] = W
      /\ \A i \in 1..L : waves'[i] = waves[i]
      /\ Emitted' = U
      /\ \A c \in components : unresolved'[c] = Cardinality(Dependencies(c) \ U)
      /\ current_wave' = {c \in components : Dependencies(c) \cap W # {} /\ Dependencies(c) \subseteq U}
  BY Emits
<1>2. /\ L \in Nat /\ L + 1 # 0 /\ Emitted \subseteq components /\ W \subseteq components
  BY WaveTypes DEF TypeOK
<1>3. /\ W \cap Emitted = {}
      /\ \A c \in components : Dependencies(c) \subseteq Emitted => c \in U
      /\ \A c \in W : Dependencies(c) \subseteq Emitted /\ (L # 0 => Dependencies(c) \cap waves[L] # {})
      /\ \A c \in Emitted : Dependencies(c) \subseteq Emitted
  BY <1>1 DEF WaveOK
<1>emitted. /\ Emitted = UNION {waves[i] : i \in 1..L} /\ DOMAIN waves = 1..L
            /\ DOMAIN waves' = 1..(L + 1)
  <2>1. waves' \in Seq(SUBSET components)
    BY AppendProperties DEF EmitWave, TypeOK
  <2> QED
    BY <1>1, <2>1, WaveTypes DEF Emitted
<1> HIDE DEF W, U, L
<1>u. U = Emitted \cup W
  BY DEF U, W
<1>4. current_wave' \cap U = {}
  BY <1>1, <1>3, <1>u
<1>5. ASSUME NEW c \in components, Dependencies(c) \subseteq U
      PROVE  c \in U \cup current_wave'
  BY <1>1, <1>3, <1>5, <1>u
<1>6. \A c \in U : Dependencies(c) \subseteq U
  BY <1>3, <1>u
<1>7. WaveOK'
  BY <1>1, <1>2, <1>4, <1>5, <1>6 DEF WaveOK
<1>8. ASSUME NEW i \in 1..(L + 1), NEW c \in waves'[i]
      PROVE  /\ Dependencies(c) \subseteq UNION {waves'[j] : j \in 1..(i - 1)}
             /\ i > 1 => Dependencies(c) \cap waves'[i - 1] # {}
  <2>1. \A j \in 1..(i - 1) : j \in 1..L
    BY <1>2
  <2>2. {waves'[j] : j \in 1..(i - 1)} = {waves[j] : j \in 1..(i - 1)}
    BY <1>1, <2>1
  <2>3. CASE i = L + 1
    <3>1. c \in W /\ 1..(i - 1) = 1..L /\ i - 1 = L
      BY <1>1, <1>2, <1>8, <2>3
    <3>2. i > 1 => L # 0 /\ L \in 1..L
      BY <1>2, <2>3
    <3> QED
      BY <1>1, <1>3, <1>emitted, <2>2, <3>1, <3>2
  <2>4. CASE i # L + 1
    <3>1. i \in 1..L /\ waves'[i] = waves[i]
      BY <1>1, <1>2, <2>4
    <3>2. i > 1 => i - 1 \in 1..L
      BY <1>2, <3>1
    <3>3. /\ Dependencies(c) \subseteq UNION {waves[j] : j \in 1..(i - 1)}
          /\ i > 1 => Dependencies(c) \cap waves[i - 1] # {}
      BY <1>8, <1>emitted, <3>1 DEF DependenciesFirst
    <3> QED
      BY <1>1, <2>2, <3>2, <3>3
  <2> QED
    BY <2>3, <2>4
<1>9. DependenciesFirst'
  BY <1>1, <1>8, <1>emitted DEF DependenciesFirst
<1> QED
  BY <1>7, <1>9

LEMMA StepWaves ==
    TypeOK /\ WaveOK /\ DependenciesFirst /\ [Next]_vars => WaveOK' /\ DependenciesFirst'
<1> SUFFICES ASSUME TypeOK, WaveOK, DependenciesFirst, [Next]_vars
             PROVE  WaveOK' /\ DependenciesFirst'
  OBVIOUS
<1>0. ASSUME waves = <<>>, waves' = <<>>
      PROVE  DependenciesFirst'
  BY <1>0 DEF DependenciesFirst
<1>1. ASSUME waves' = waves, phase \in {"visit", "assign"}, phase' \in {"visit", "assign"}
      PROVE  WaveOK' /\ DependenciesFirst'
  BY <1>0, <1>1 DEF WaveOK
<1>2. ASSUME UNCHANGED <<edges, components, waves>>
      PROVE  DependenciesFirst' /\ Emitted' = Emitted /\ \A c : Dependencies(c)' = Dependencies(c)
  <2>1. \A c : Dependencies(c)' = Dependencies(c)
    BY <1>2 DEF Dependencies, Depends
  <2> QED
    BY <1>2, <2>1 DEF DependenciesFirst, Emitted
<1>3. CASE StartVisit \/ Advance \/ Finish \/ EndVisit
  BY <1>1, <1>3 DEF StartVisit, Advance, Finish, EndVisit
<1>4. CASE StartComponent \/ Collect \/ CloseComponent
  BY <1>1, <1>4 DEF StartComponent, Collect, CloseComponent
<1>5. CASE BuildCondensation
  <2>1. waves = <<>> /\ waves' = <<>>
    BY <1>5 DEF BuildCondensation, WaveOK
  <2> QED
    BY <1>0, <1>5, <2>1, StepBuild
<1>6. CASE EmitWave
  BY <1>6, StepEmit
<1>7. CASE EndWaves
  <2>1. UNCHANGED <<edges, components, waves>> /\ phase' \in {"done", "error"}
    BY <1>7 DEF EndWaves, collection
  <2> QED
    BY <1>2, <2>1 DEF WaveOK
<1>8. CASE UNCHANGED vars
  <2>1. UNCHANGED <<edges, phase, components, unresolved, current_wave, waves>>
    BY <1>8 DEF vars, collection
  <2> QED
    BY <1>2, <2>1 DEF WaveOK
<1> QED
  BY <1>3, <1>4, <1>5, <1>6, <1>7, <1>8 DEF Next

LEMMA WavesHold == Spec => [](WaveOK /\ DependenciesFirst)
<1>1. Init => WaveOK /\ DependenciesFirst
  BY DEF Init, WaveOK, DependenciesFirst
<1>2. TypeOK /\ WaveOK /\ DependenciesFirst /\ [Next]_vars => (WaveOK /\ DependenciesFirst)'
  BY StepWaves
<1> QED
  BY <1>1, <1>2, GraphTyping, PTL DEF Spec

\* Dependency-first waves, for every finite graph: what a wave holds depends
\* only on earlier waves, and on the one just before.
THEOREM WavesAreDependencyFirst == Spec => []DependenciesFirst
BY WavesHold, PTL

-----------------------------------------------------------------------------
(* No cycle is left.  A component that waits for another finished a node   *)
(* after every node that it reaches: the first such component waits for    *)
(* none.                                                                   *)

\* Of the nodes a component reaches, the last to finish is one of its own.
LEMMA LastOfComponent ==
    ASSUME TypeOK, VisitOK, CollectOK, StrongOK, phase # "visit",
           NEW c \in components
    PROVE  \E i \in 1..Len(finish_order) :
              /\ finish_order[i] \in c
              /\ \A k \in 1..Len(finish_order) : <<finish_order[i], finish_order[k]>> \in Reach => k <= i
<1> DEFINE F == Len(finish_order)
<1>1. F \in Nat /\ \A i \in 1..F : finish_order[i] \in NodeIds
  BY SeqFacts
<1>2. PICK n \in c : n \in NodeIds
  <2>1. c # {} /\ c \subseteq NodeIds
    BY DEF CollectOK, TypeOK
  <2> QED
    BY <2>1
<1>3. PICK j \in 1..F : finish_order[j] = n
  BY <1>2 DEF CollectOK, Finished
<1> DEFINE S == {k \in 1..F : <<n, finish_order[k]>> \in Reach}
<1>4. j \in S /\ S \subseteq 1..F
  BY <1>2, <1>3, ReachFacts
<1>5. PICK i \in S : \A k \in S : k <= i
  BY <1>1, <1>4, LastIndex
<1>6. i \in 1..F /\ <<n, finish_order[i]>> \in Reach
  OBVIOUS
<1>7. Grey = {}
  <2>1. Len(stack) = 0
    BY DEF CollectOK
  <2> QED
    BY <2>1 DEF Grey
<1>8. \A l \in (i + 1)..F : l \notin S /\ l \in 1..F
  <2> TAKE l \in (i + 1)..F
  <2>1. l \in 1..F /\ ~(l <= i)
    BY <1>1, <1>6
  <2> QED
    BY <1>5, <2>1
<1>9. <<finish_order[i], n>> \in Reach
  <2>1. CASE j = i
    BY <1>2, <1>3, <2>1, ReachFacts
  <2>2. CASE j # i
    <3>1. j \in 1..(i - 1)
      <4>1. j <= i
        BY <1>4, <1>5
      <4> QED
        BY <1>1, <1>6, <2>2, <4>1
    <3> QED
      BY <1>3, <1>6, <1>7, <1>8, <3>1 DEF VisitOK, OrderOK
  <2> QED
    BY <2>1, <2>2
<1>10. finish_order[i] \in c
  <2>1. c = {m \in NodeIds : <<n, m>> \in Reach /\ <<m, n>> \in Reach}
    BY <1>2 DEF StrongOK
  <2> QED
    BY <1>1, <1>6, <1>9, <2>1
<1>11. ASSUME NEW k \in 1..F, <<finish_order[i], finish_order[k]>> \in Reach
       PROVE  k <= i
  <2>1. <<n, finish_order[k]>> \in Reach
    BY <1>6, <1>11, ReachFacts
  <2> QED
    BY <1>5, <2>1
<1> QED
  BY <1>6, <1>10, <1>11

\* A set of components in which each waits for another has no first one.
LEMMA NoCycle ==
    ASSUME TypeOK, VisitOK, CollectOK, StrongOK, phase # "visit",
           NEW U \in SUBSET components, \A c \in U : Dependencies(c) \cap U # {}
    PROVE  U = {}
<1> SUFFICES ASSUME U # {}
             PROVE  FALSE
  OBVIOUS
<1> DEFINE F == Len(finish_order)
           Last(i) == \A k \in 1..F : <<finish_order[i], finish_order[k]>> \in Reach => k <= i
           S == {i \in 1..F : Last(i) /\ \E c \in U : finish_order[i] \in c}
<1>1. F \in Nat /\ S \subseteq Nat
  BY SeqFacts
<1>2. \A c \in U : \E i \in S : finish_order[i] \in c
  BY LastOfComponent
<1>3. S # {}
  BY <1>2
<1>4. PICK i \in S : \A j \in S : i <= j
  <2> DEFINE R == OpToRel(<, Nat)
  <2>1. \A m, n \in Nat : m < n => <<m, n>> \in R
    BY DEF OpToRel
  <2>2. IsWellFoundedOn(R, Nat)
    BY NatLessThanWellFounded
  <2> HIDE DEF R, S
  <2>3. PICK x \in S : \A y \in S : <<y, x>> \notin R
    BY <1>1, <1>3, <2>2, WFMin
  <2>4. \A y \in S : x <= y
    <3> TAKE y \in S
    <3>1. x \in Nat /\ y \in Nat /\ ~(y < x)
      BY <1>1, <2>1, <2>3
    <3> QED
      BY <3>1
  <2> QED
    BY <2>4
<1>5. Last(i) /\ i \in 1..F
  OBVIOUS
<1>6. PICK c \in U : finish_order[i] \in c
  OBVIOUS
<1>7. PICK d \in Dependencies(c) : d \in U
  OBVIOUS
<1>8. d \in components /\ d # c /\ \E n \in c, m \in d : <<n, m>> \in edges
  BY <1>7 DEF Dependencies, Depends
<1>9. PICK n \in c, m \in d : <<n, m>> \in edges
  BY <1>8
<1>10. PICK j \in S : finish_order[j] \in d
  BY <1>2, <1>7
<1> HIDE DEF S, Last
<1>11. j \in 1..F /\ i <= j
  BY <1>4, <1>10 DEF S
<1>12. /\ \A x \in c : c = {y \in NodeIds : <<x, y>> \in Reach /\ <<y, x>> \in Reach}
       /\ \A x \in d : d = {y \in NodeIds : <<x, y>> \in Reach /\ <<y, x>> \in Reach}
  BY <1>6, <1>8 DEF StrongOK
<1>13. <<finish_order[i], finish_order[j]>> \in Reach
  <2>1. <<finish_order[i], n>> \in Reach /\ <<m, finish_order[j]>> \in Reach
    BY <1>6, <1>9, <1>10, <1>12
  <2>2. n \in NodeIds /\ m \in Successors(n)
    BY <1>9, <1>12 DEF Successors
  <2>3. <<n, m>> \in Reach
    BY <2>2, ReachFacts
  <2> QED
    BY <2>1, <2>3, ReachFacts
<1>14. j <= i
  BY <1>5, <1>11, <1>13 DEF Last
<1>15. i = j
  BY <1>5, <1>11, <1>14
<1> QED
  BY <1>6, <1>8, <1>10, <1>12, <1>15

\* The waves hold every node once none is left to emit.
Ranked ==
    /\ phase # "error"
    /\ phase = "done" => UNION Emitted = NodeIds

LEMMA StepEnds ==
    ASSUME TypeOK, VisitOK, CollectOK, StrongOK, WaveOK, EndWaves
    PROVE  phase' = "done" /\ Emitted = components /\ UNION components = NodeIds
<1> DEFINE U == components \ Emitted
<1>1. phase = "waves" /\ current_wave = {}
  BY DEF EndWaves
<1>2. \A c \in U : Dependencies(c) \cap U # {}
  BY <1>1, WaveTypes DEF WaveOK
<1>3. phase # "visit" /\ U \in SUBSET components
  BY <1>1
<1> HIDE DEF U
<1>4. U = {}
  BY <1>2, <1>3, NoCycle
<1>5. Emitted = components
  BY <1>4, WaveTypes DEF U
<1> QED
  BY <1>1, <1>5 DEF EndWaves, CollectOK, Done

LEMMA StepRanked ==
    /\ TypeOK /\ VisitOK /\ CollectOK /\ StrongOK /\ WaveOK /\ Ranked /\ [Next]_vars
    => Ranked'
<1> SUFFICES ASSUME TypeOK, VisitOK, CollectOK, StrongOK, WaveOK, Ranked, [Next]_vars
             PROVE  Ranked'
  OBVIOUS
<1>1. ASSUME phase' \in {"visit", "assign", "waves"}
      PROVE  Ranked'
  BY <1>1 DEF Ranked
<1>2. CASE StartVisit \/ Advance \/ Finish \/ EndVisit
  BY <1>1, <1>2 DEF StartVisit, Advance, Finish, EndVisit
<1>3. CASE StartComponent \/ Collect \/ CloseComponent \/ BuildCondensation \/ EmitWave
  BY <1>1, <1>3 DEF StartComponent, Collect, CloseComponent, BuildCondensation, EmitWave
<1>4. CASE EndWaves
  <2>1. phase' = "done" /\ UNION Emitted = NodeIds
    BY <1>4, StepEnds
  <2>2. waves' = waves
    BY <1>4 DEF EndWaves
  <2> QED
    BY <2>1, <2>2 DEF Ranked, Emitted
<1>5. CASE UNCHANGED vars
  BY <1>5 DEF vars, Ranked, Emitted
<1> QED
  BY <1>2, <1>3, <1>4, <1>5 DEF Next

\* The condensation of no graph is found cyclic (the error of line 117), and an
\* analysis that returns has every node in its waves.
THEOREM CondensationIsAcyclic ==
    Spec => [](phase # "error" /\ (phase = "done" => UNION Emitted = NodeIds))
<1>1. Init => Ranked
  BY DEF Init, Ranked
<1>2. Spec => []Ranked
  BY <1>1, StepRanked, GraphTyping, VisitHolds, ComponentsHold, WavesHold, PTL DEF Spec
<1>3. Ranked => phase # "error" /\ (phase = "done" => UNION Emitted = NodeIds)
  BY DEF Ranked
<1> QED
  BY <1>2, <1>3, PTL

-----------------------------------------------------------------------------
(* The analysis ends: every step takes something off StepsLeft.            *)

LEMMA Fewer ==
    ASSUME NEW S, IsFiniteSet(S), NEW T \in SUBSET S
    PROVE  /\ IsFiniteSet(T) /\ Cardinality(S) \in Nat /\ Cardinality(T) \in Nat
           /\ Cardinality(T) <= Cardinality(S)
           /\ T # S => Cardinality(T) < Cardinality(S)
<1>1. /\ IsFiniteSet(T) /\ Cardinality(T) <= Cardinality(S)
      /\ Cardinality(S) = Cardinality(T) => S = T
  BY FS_Subset
<1>2. Cardinality(S) \in Nat /\ Cardinality(T) \in Nat
  BY <1>1, FS_CardinalityType
<1> QED
  BY <1>1, <1>2

\* What StepsLeft adds up is numbers.
LEMMA Counted ==
    ASSUME TypeOK
    PROVE  /\ IsFiniteSet(edges) /\ IsFiniteSet(Unfollowed)
           /\ \A S : IsFiniteSet(NodeIds \ S) /\ Cardinality(NodeIds \ S) \in Nat
           /\ Cardinality(Unfollowed) \in Nat
           /\ Len(stack) \in Nat /\ Len(pending) \in Nat /\ PhasesLeft \in Nat
<1>1. IsFiniteSet(NodeIds \X NodeIds) /\ edges \in SUBSET (NodeIds \X NodeIds)
  BY NodeIdsAssumption, FS_Product DEF TypeOK
<1>2. IsFiniteSet(edges) /\ Unfollowed \in SUBSET edges
  BY <1>1, FS_Subset DEF Unfollowed
<1>3. IsFiniteSet(Unfollowed) /\ Cardinality(Unfollowed) \in Nat
  BY <1>2, Fewer
<1>4. \A S : IsFiniteSet(NodeIds \ S) /\ Cardinality(NodeIds \ S) \in Nat
  <2> TAKE S
  <2>1. NodeIds \ S \in SUBSET NodeIds
    OBVIOUS
  <2> QED
    BY <2>1, NodeIdsAssumption, Fewer
<1>5. Len(stack) \in Nat /\ Len(pending) \in Nat
  BY DEF TypeOK
<1>6. PhasesLeft \in Nat
  BY DEF PhasesLeft
<1> QED
  BY <1>2, <1>3, <1>4, <1>5, <1>6

\* A node that joins a set is missing from what the set leaves over.
LEMMA Joins ==
    ASSUME NEW S, NEW T, S \subseteq T, NEW n \in NodeIds, n \in T, n \notin S
    PROVE  Cardinality(NodeIds \ T) < Cardinality(NodeIds \ S)
<1>1. IsFiniteSet(NodeIds \ S)
  <2>1. NodeIds \ S \in SUBSET NodeIds
    OBVIOUS
  <2> QED
    BY <2>1, NodeIdsAssumption, Fewer
<1>2. NodeIds \ T \in SUBSET (NodeIds \ S) /\ NodeIds \ T # NodeIds \ S
  OBVIOUS
<1> QED
  BY <1>1, <1>2, Fewer

\* No node is on the stack twice.
Once == \A k, l \in 1..Len(stack) : stack[k].node = stack[l].node => k = l

LEMMA StepOnce == TypeOK /\ VisitOK /\ Once /\ [Next]_vars => Once'
<1> SUFFICES ASSUME TypeOK, VisitOK, Once, [Next]_vars
             PROVE  Once'
  OBVIOUS
<1>0. CASE UNCHANGED stack
  BY <1>0 DEF Once
<1>1. CASE StartVisit
  <2>1. Len(stack') = 1
    BY <1>1, Started
  <2> QED
    BY <2>1 DEF Once
<1>2. CASE Advance
  <2> DEFINE L == Len(stack)
             n == Least(Top.rest)
  <2>1. /\ L \in Nat
        /\ \A k \in 1..L : stack'[k].node = stack[k].node
        /\ \/ Len(stack') = L
           \/ n \notin visited /\ Len(stack') = L + 1 /\ stack'[L + 1].node = n
    BY <1>2, Advanced
  <2>2. \A k \in 1..L : stack[k].node \in visited
    BY DEF VisitOK, StackOK, Grey
  <2> HIDE DEF n, L
  <2>3. CASE Len(stack') = L
    BY <2>1, <2>3 DEF Once, L
  <2>4. CASE n \notin visited /\ Len(stack') = L + 1 /\ stack'[L + 1].node = n
    <3> SUFFICES ASSUME NEW k \in 1..(L + 1), NEW l \in 1..(L + 1), k # l
                 PROVE  stack'[k].node # stack'[l].node
      BY <2>4 DEF Once
    <3>1. CASE k \in 1..L /\ l \in 1..L
      BY <2>1, <3>1 DEF Once, L
    <3>2. CASE k = L + 1
      <4>1. l \in 1..L
        BY <2>1, <3>2
      <4> QED
        BY <2>1, <2>2, <2>4, <3>2, <4>1
    <3>3. CASE l = L + 1
      <4>1. k \in 1..L
        BY <2>1, <3>3
      <4> QED
        BY <2>1, <2>2, <2>4, <3>3, <4>1
    <3> QED
      BY <2>1, <3>1, <3>2, <3>3
  <2> QED
    BY <2>1, <2>3, <2>4
<1>3. CASE Finish
  <2>1. /\ Len(stack) \in Nat \ {0} /\ Len(stack') = Len(stack) - 1
        /\ \A k \in 1..(Len(stack) - 1) : stack'[k] = stack[k]
    BY <1>3, Popped
  <2> QED
    BY <2>1 DEF Once
<1>4. CASE EndVisit \/ StartComponent \/ Collect \/ CloseComponent \/ BuildCondensation
           \/ EmitWave \/ EndWaves
  BY <1>0, <1>4 DEF EndVisit, StartComponent, Collect, CloseComponent, BuildCondensation,
     EmitWave, EndWaves, traversal
<1> QED
  BY <1>0, <1>1, <1>2, <1>3, <1>4 DEF Next, vars, traversal

\* The first traversal.
LEMMA VisitUsesUp ==
    ASSUME TypeOK, VisitOK, Once, StartVisit \/ Advance \/ Finish
    PROVE  TraversalLeft' < TraversalLeft
<1> DEFINE v == Cardinality(NodeIds \ visited)
           w == Cardinality(NodeIds \ visited')
           f == Cardinality(Unfollowed)
           g == Cardinality(Unfollowed')
           L == Len(stack)
<1>1. /\ v \in Nat /\ w \in Nat /\ f \in Nat /\ L \in Nat
      /\ IsFiniteSet(Unfollowed) /\ stack \in Seq(Frame)
      /\ edges' = edges /\ \A e \in edges : e \in NodeIds \X NodeIds
  BY Counted DEF StartVisit, Advance, Finish, TypeOK
<1>2. ASSUME Unfollowed' \subseteq Unfollowed
      PROVE  g \in Nat /\ g <= f /\ (Unfollowed' # Unfollowed => g < f)
  <2>1. Unfollowed' \in SUBSET Unfollowed
    BY <1>2
  <2> QED
    BY <1>1, <2>1, Fewer
<1>3. CASE StartVisit
  <2> DEFINE n == Least(NodeIds \ visited)
  <2>1. /\ n \in NodeIds \ visited /\ visited' = visited \cup {n}
        /\ stack' \in Seq(Frame) /\ Len(stack') = 1
        /\ stack'[1] = [node |-> n, rest |-> Successors(n)]
    BY <1>3, Started
  <2>0. stack'[1].node = n
    BY <2>1
  <2> HIDE DEF n
  <2>2. w < v
    BY <2>1, Joins
  <2>3. Unfollowed' \subseteq Unfollowed
    <3>1. DOMAIN stack' = 1..1
      BY <2>1
    <3> QED
      BY <1>1, <2>0, <2>1, <3>1 DEF Unfollowed
  <2>4. L = 0
    BY <1>3 DEF StartVisit
  <2> HIDE DEF v, w, f, g, L
  <2>5. 2 * w + 1 + g < 2 * v + L + f
    BY <1>1, <1>2, <2>2, <2>3, <2>4
  <2> QED
    BY <2>1, <2>5 DEF TraversalLeft, v, w, f, g, L
<1>4. CASE Advance
  <2> DEFINE n == Least(Top.rest)
  <2>1. /\ L \in Nat \ {0} /\ n \in Top.rest /\ n \in NodeIds /\ Top \in Frame
        /\ stack' \in Seq(Frame)
        /\ \A k \in 1..L : stack'[k].node = stack[k].node
        /\ \A k \in 1..L : k # L => stack'[k].rest = stack[k].rest
        /\ stack'[L].rest = Top.rest \ {n}
        /\ \/ n \in visited /\ visited' = visited /\ Len(stack') = L
           \/ /\ n \notin visited /\ visited' = visited \cup {n} /\ Len(stack') = L + 1
              /\ stack'[L + 1].node = n
    BY <1>4, Advanced
  <2>2. Top = stack[L]
    BY DEF Top
  <2> HIDE DEF n
  <2>3. \A k \in 1..L : stack'[k].rest \subseteq stack[k].rest
    BY <2>1, <2>2
  <2>4. DOMAIN stack = 1..L
    BY <1>1
  <2>5. CASE n \in visited /\ visited' = visited /\ Len(stack') = L
    <3>1. DOMAIN stack' = 1..L
      BY <2>1, <2>5
    <3>2. Unfollowed' \subseteq Unfollowed
      BY <1>1, <2>1, <2>3, <2>4, <2>5, <3>1 DEF Unfollowed
    <3>0. L \in 1..L /\ n \in stack[L].rest /\ stack[L].node = Top.node
      BY <2>1, <2>2
    <3>3. <<Top.node, n>> \in edges /\ Top.node \in visited
      <4>1. <<stack[L].node, n>> \in edges /\ stack[L].node \in Grey
        BY <2>1, <3>0 DEF VisitOK, StackOK, Grey
      <4> QED
        BY <3>0, <4>1 DEF VisitOK, StackOK
    <3>4. <<Top.node, n>> \in Unfollowed
      <4> DEFINE e == <<Top.node, n>>
      <4>1. e[1] = stack[L].node /\ e[2] \in stack[L].rest /\ e \in edges
        BY <3>0, <3>3
      <4> HIDE DEF e
      <4>2. e \in Unfollowed
        BY <2>4, <3>0, <4>1 DEF Unfollowed
      <4> QED
        BY <4>2 DEF e
    <3>5. <<Top.node, n>> \notin Unfollowed'
      <4>1. ASSUME NEW k \in 1..L, stack'[k].node = Top.node
            PROVE  n \notin stack'[k].rest
        <5>1. stack[k].node = stack[L].node /\ L \in 1..L
          BY <2>1, <2>2, <4>1
        <5>2. k = L
          BY <5>1 DEF Once
        <5> QED
          BY <2>1, <5>2
      <4> QED
        BY <2>5, <3>1, <3>3, <4>1 DEF Unfollowed
    <3>6. g < f /\ g \in Nat
      BY <1>2, <3>2, <3>4, <3>5
    <3>7. w = v
      BY <2>5
    <3> HIDE DEF v, w, f, g, L
    <3>8. 2 * w + L + g < 2 * v + L + f
      BY <1>1, <3>6, <3>7
    <3> QED
      BY <2>5, <3>8 DEF TraversalLeft, v, w, f, g, L
  <2>6. CASE /\ n \notin visited /\ visited' = visited \cup {n} /\ Len(stack') = L + 1
             /\ stack'[L + 1].node = n
    <3>1. DOMAIN stack' = 1..(L + 1)
      BY <2>1, <2>6
    <3>2. Unfollowed' \subseteq Unfollowed
      <4> SUFFICES ASSUME NEW e \in edges,
                          \/ e[1] \notin visited'
                          \/ \E k \in 1..(L + 1) : stack'[k].node = e[1] /\ e[2] \in stack'[k].rest
                   PROVE  e \in Unfollowed
        BY <1>1, <3>1 DEF Unfollowed
      <4>1. CASE e[1] \notin visited'
        BY <2>6, <4>1 DEF Unfollowed
      <4>2. ASSUME NEW k \in 1..(L + 1), stack'[k].node = e[1], e[2] \in stack'[k].rest
            PROVE  e \in Unfollowed
        <5>1. CASE k = L + 1
          BY <2>6, <4>2, <5>1 DEF Unfollowed
        <5>2. CASE k \in 1..L
          BY <2>1, <2>3, <2>4, <4>2, <5>2 DEF Unfollowed
        <5> QED
          BY <2>1, <5>1, <5>2
      <4> QED
        BY <4>1, <4>2
    <3>3. w < v
      BY <2>1, <2>6, Joins
    <3>4. g \in Nat /\ g <= f
      BY <1>2, <3>2
    <3> HIDE DEF v, w, f, g, L
    <3>5. 2 * w + (L + 1) + g < 2 * v + L + f
      BY <1>1, <3>3, <3>4
    <3> QED
      BY <2>6, <3>5 DEF TraversalLeft, v, w, f, g, L
  <2> QED
    BY <2>1, <2>5, <2>6
<1>5. CASE Finish
  <2>1. /\ L \in Nat \ {0} /\ Len(stack') = L - 1 /\ stack' \in Seq(Frame)
        /\ \A k \in 1..(L - 1) : stack'[k] = stack[k]
    BY <1>5, Popped
  <2>2. visited' = visited /\ DOMAIN stack' = 1..(L - 1) /\ DOMAIN stack = 1..L
    BY <1>1, <1>5, <2>1 DEF Finish
  <2>3. Unfollowed' \subseteq Unfollowed
    BY <1>1, <2>1, <2>2 DEF Unfollowed
  <2>4. w = v /\ g \in Nat /\ g <= f
    BY <1>2, <2>2, <2>3
  <2> HIDE DEF v, w, f, g, L
  <2>5. 2 * w + (L - 1) + g < 2 * v + L + f
    BY <1>1, <2>1, <2>4
  <2> QED
    BY <2>1, <2>5 DEF TraversalLeft, v, w, f, g, L
<1> QED
  BY <1>3, <1>4, <1>5

\* The second traversal.
LEMMA CollectionUsesUp ==
    ASSUME TypeOK, StartComponent \/ Collect
    PROVE  CollectionLeft' < CollectionLeft
<1>1. /\ IsFiniteSet(NodeIds \ assigned) /\ Cardinality(NodeIds \ assigned) \in Nat
      /\ Cardinality(NodeIds \ assigned') \in Nat /\ Len(pending) \in Nat
      /\ pending \in Seq(NodeIds)
  BY Counted DEF TypeOK
<1>2. CASE StartComponent
  <2>1. PICK k \in Unassigned :
          /\ finish_order[k] \in NodeIds \ assigned
          /\ assigned' = assigned \cup {finish_order[k]}
          /\ pending' = <<finish_order[k]>>
    BY <1>2, Restarted
  <2>2. Cardinality(NodeIds \ assigned') < Cardinality(NodeIds \ assigned)
    BY <2>1, Joins
  <2>3. Len(pending') = 1 /\ Len(pending) = 0
    BY <1>2, <2>1 DEF StartComponent
  <2> QED
    BY <1>1, <2>2, <2>3 DEF CollectionLeft
<1>3. CASE Collect
  <2> DEFINE n == pending[Len(pending)]
             fresh == Predecessors(n) \ assigned
             rest == NodeIds \ assigned
  <2>1. pending # <<>> /\ assigned' = assigned \cup fresh
    BY <1>3 DEF Collect
  <2>2. fresh \in SUBSET NodeIds /\ fresh \subseteq rest
    BY DEF Predecessors
  <2>3. PICK order \in [1..Cardinality(fresh) -> fresh] :
          /\ \A i, j \in DOMAIN order : i < j => order[i] > order[j]
          /\ pending' = SubSeq(pending, 1, Len(pending) - 1) \o order
    BY <1>3 DEF Collect
  <2> HIDE DEF fresh, n
  <2>4. Cardinality(fresh) \in Nat /\ order \in Seq(fresh) /\ Len(order) = Cardinality(fresh)
    BY <2>2, <2>3, Enumerates
  <2>5. order \in Seq(NodeIds)
    BY <2>2, <2>4
  <2>6. Len(pending') = Len(pending) - 1 + Cardinality(fresh)
    <3> DEFINE L == Len(pending)
               kept == SubSeq(pending, 1, L - 1)
    <3>1. L \in Nat \ {0}
      BY <1>1, <2>1
    <3> HIDE DEF L
    <3>2. kept \in Seq(NodeIds) /\ Len(kept) = L - 1
      <4>1. 1 \in 1..(L + 1) /\ L - 1 \in 0..L /\ L - 1 = IF 1 <= L - 1 THEN L - 1 - 1 + 1 ELSE 0
        BY <3>1
      <4> QED
        BY <1>1, <3>1, <4>1 DEF L
    <3> HIDE DEF kept
    <3>3. Len(kept \o order) = Len(kept) + Len(order)
      BY <2>5, <3>2, ConcatProperties
    <3>4. pending' = kept \o order
      BY <2>3 DEF kept, L
    <3> QED
      BY <2>4, <3>2, <3>3, <3>4 DEF L
  <2>7. Cardinality(rest \ fresh) = Cardinality(rest) - Cardinality(fresh)
    <3>1. rest \cap fresh = fresh
      BY <2>2
    <3>2. IsFiniteSet(rest)
      BY <1>1
    <3> HIDE DEF rest
    <3>3. Cardinality(rest \ fresh) = Cardinality(rest) - Cardinality(rest \cap fresh)
      BY <3>2, FS_Difference
    <3> QED
      BY <3>1, <3>3
  <2>8. NodeIds \ assigned' = rest \ fresh
    BY <2>1
  <2> DEFINE a == Cardinality(rest)
             f == Cardinality(fresh)
             L == Len(pending)
  <2>9. a \in Nat /\ f \in Nat /\ L \in Nat
    BY <1>1, <2>4
  <2>10. Cardinality(NodeIds \ assigned') = a - f /\ Len(pending') = L - 1 + f
    BY <2>6, <2>7, <2>8
  <2> HIDE DEF a, f, L
  <2>11. 2 * (a - f) + (L - 1 + f) < 2 * a + L
    BY <2>9
  <2> QED
    BY <2>10, <2>11 DEF CollectionLeft, a, L
<1> QED
  BY <1>2, <1>3

\* Closed components and waves.
LEMMA ClosingUsesUp ==
    ASSUME TypeOK, CollectOK, CloseComponent
    PROVE  Cardinality(NodeIds \ UNION components') < Cardinality(NodeIds \ UNION components)
<1>1. /\ members # {} /\ components' = components \cup {members} /\ members \subseteq NodeIds
  BY DEF CloseComponent, TypeOK
<1>2. Done \cap members = {}
  BY DEF CollectOK, Now
<1>3. PICK n \in members : TRUE
  BY <1>1
<1>4. UNION components \subseteq UNION components' /\ n \in UNION components'
  BY <1>1
<1>5. n \in NodeIds /\ n \notin UNION components
  BY <1>1, <1>2 DEF Done
<1> QED
  BY <1>4, <1>5, Joins

LEMMA EmittingUsesUp ==
    ASSUME TypeOK, CollectOK, StrongOK, WaveOK, EmitWave
    PROVE  Cardinality(NodeIds \ UNION Emitted') < Cardinality(NodeIds \ UNION Emitted)
<1>1. Emitted' = Emitted \cup current_wave /\ phase = "waves"
  BY Emits
<1>2. /\ current_wave # {} /\ current_wave \subseteq components /\ {} \notin components
      /\ Emitted \subseteq components /\ current_wave \cap Emitted = {}
  BY <1>1, WaveTypes DEF EmitWave, TypeOK, CollectOK, WaveOK
<1>3. PICK c \in current_wave : c # {}
  BY <1>2
<1>4. PICK n \in c : n \in NodeIds
  BY <1>2, <1>3 DEF TypeOK
<1>5. n \notin UNION Emitted
  <2> SUFFICES ASSUME NEW d \in Emitted, n \in d
               PROVE  FALSE
    OBVIOUS
  <2>1. c \in components /\ d \in components /\ n \in c
    BY <1>2, <1>3, <1>4
  <2>2. c = d
    <3> DEFINE S == {m \in NodeIds : <<n, m>> \in Reach /\ <<m, n>> \in Reach}
    <3>1. c = S /\ d = S
      BY <2>1 DEF StrongOK
    <3> QED
      BY <3>1
  <2> QED
    BY <1>2, <2>2
<1>6. UNION Emitted \subseteq UNION Emitted' /\ n \in UNION Emitted'
  BY <1>1, <1>4
<1> QED
  BY <1>4, <1>5, <1>6, Joins

\* What StepsLeft adds up.
ComponentsLeft == Cardinality(NodeIds \ UNION components)
WavesLeft == Cardinality(NodeIds \ UNION Emitted)

Numbers ==
    /\ PhasesLeft \in Nat /\ TraversalLeft \in Nat /\ CollectionLeft \in Nat
    /\ ComponentsLeft \in Nat /\ WavesLeft \in Nat
    /\ StepsLeft = PhasesLeft + TraversalLeft + CollectionLeft + ComponentsLeft + WavesLeft

LEMMA LeftIsNumber == TypeOK => Numbers /\ StepsLeft \in Nat
<1> SUFFICES ASSUME TypeOK PROVE Numbers /\ StepsLeft \in Nat
  OBVIOUS
<1>1. TraversalLeft \in Nat
  <2> DEFINE v == Cardinality(NodeIds \ visited)
             l == Len(stack)
             u == Cardinality(Unfollowed)
  <2>1. v \in Nat /\ l \in Nat /\ u \in Nat
    BY Counted
  <2> HIDE DEF v, l, u
  <2>2. 2 * v + l + u \in Nat
    BY <2>1
  <2> QED
    BY <2>2 DEF v, l, u, TraversalLeft
<1>2. CollectionLeft \in Nat
  <2> DEFINE v == Cardinality(NodeIds \ assigned)
             l == Len(pending)
  <2>1. v \in Nat /\ l \in Nat
    BY Counted
  <2> HIDE DEF v, l
  <2>2. 2 * v + l \in Nat
    BY <2>1
  <2> QED
    BY <2>2 DEF v, l, CollectionLeft
<1>3. PhasesLeft \in Nat /\ ComponentsLeft \in Nat /\ WavesLeft \in Nat
  BY Counted DEF ComponentsLeft, WavesLeft
<1>4. StepsLeft = PhasesLeft + TraversalLeft + CollectionLeft + ComponentsLeft + WavesLeft
  BY DEF StepsLeft, ComponentsLeft, WavesLeft
<1>5. Numbers
  BY <1>1, <1>2, <1>3, <1>4 DEF Numbers
<1> QED
  BY <1>5 DEF Numbers

\* A sum goes down when one of its terms does and none goes up.
LEMMA SumGoesDown ==
    ASSUME NEW p \in Nat, NEW t \in Nat, NEW c \in Nat, NEW s \in Nat, NEW w \in Nat,
           NEW pn \in Nat, NEW tn \in Nat, NEW cn \in Nat, NEW sn \in Nat, NEW wn \in Nat,
           pn <= p, tn <= t, cn <= c, sn <= s, wn <= w,
           pn < p \/ tn < t \/ cn < c \/ sn < s \/ wn < w
    PROVE  pn + tn + cn + sn + wn < p + t + c + s + w
OBVIOUS

\* None of what is left grows, and one part of it shrinks.
Shrinks ==
    /\ PhasesLeft' <= PhasesLeft /\ TraversalLeft' <= TraversalLeft
    /\ CollectionLeft' <= CollectionLeft
    /\ ComponentsLeft' <= ComponentsLeft /\ WavesLeft' <= WavesLeft
    /\ \/ PhasesLeft' < PhasesLeft \/ TraversalLeft' < TraversalLeft
       \/ CollectionLeft' < CollectionLeft
       \/ ComponentsLeft' < ComponentsLeft \/ WavesLeft' < WavesLeft

LEMMA ShrinkingUsesUp ==
    ASSUME Numbers, Numbers', Shrinks
    PROVE  StepsLeft' < StepsLeft
<1> DEFINE p == PhasesLeft
           t == TraversalLeft
           c == CollectionLeft
           s == ComponentsLeft
           w == WavesLeft
           pn == PhasesLeft'
           tn == TraversalLeft'
           cn == CollectionLeft'
           sn == ComponentsLeft'
           wn == WavesLeft'
<1>1. /\ p \in Nat /\ t \in Nat /\ c \in Nat /\ s \in Nat /\ w \in Nat
      /\ StepsLeft = p + t + c + s + w
  BY DEF Numbers
<1>2. /\ pn \in Nat /\ tn \in Nat /\ cn \in Nat /\ sn \in Nat /\ wn \in Nat
      /\ StepsLeft' = pn + tn + cn + sn + wn
  BY DEF Numbers
<1>3. /\ pn <= p /\ tn <= t /\ cn <= c /\ sn <= s /\ wn <= w
      /\ pn < p \/ tn < t \/ cn < c \/ sn < s \/ wn < w
  BY DEF Shrinks
<1> HIDE DEF p, t, c, s, w, pn, tn, cn, sn, wn
<1>4. pn + tn + cn + sn + wn < p + t + c + s + w
  BY <1>1, <1>2, <1>3, SumGoesDown
<1> QED
  BY <1>1, <1>2, <1>4

LEMMA StepUsesUp ==
    ASSUME TypeOK, VisitOK, Once, CollectOK, StrongOK, WaveOK, Next, Numbers, Numbers'
    PROVE  StepsLeft' < StepsLeft
<1>0. /\ PhasesLeft \in Nat /\ TraversalLeft \in Nat /\ CollectionLeft \in Nat
      /\ ComponentsLeft \in Nat /\ WavesLeft \in Nat
      /\ PhasesLeft' \in Nat /\ TraversalLeft' \in Nat /\ CollectionLeft' \in Nat
      /\ ComponentsLeft' \in Nat /\ WavesLeft' \in Nat
  BY DEF Numbers
<1>1. CASE StartVisit \/ Advance \/ Finish
  <2>1. /\ PhasesLeft' = PhasesLeft /\ CollectionLeft' = CollectionLeft
        /\ ComponentsLeft' = ComponentsLeft /\ WavesLeft' = WavesLeft
    BY <1>1 DEF StartVisit, Advance, Finish, collection, PhasesLeft, CollectionLeft,
       ComponentsLeft, WavesLeft, Emitted
  <2>2. TraversalLeft' < TraversalLeft
    BY <1>1, VisitUsesUp
  <2>3. Shrinks
    BY <1>0, <2>1, <2>2 DEF Shrinks
  <2> QED
    BY <2>3, ShrinkingUsesUp
<1>2. CASE EndVisit \/ BuildCondensation \/ EndWaves
  <2>1. /\ TraversalLeft' = TraversalLeft /\ CollectionLeft' = CollectionLeft
        /\ ComponentsLeft' = ComponentsLeft /\ WavesLeft' = WavesLeft
    BY <1>2 DEF EndVisit, BuildCondensation, EndWaves, traversal, collection, TraversalLeft,
       Unfollowed, CollectionLeft, ComponentsLeft, WavesLeft, Emitted
  <2>2. PhasesLeft' < PhasesLeft
    BY <1>2 DEF EndVisit, BuildCondensation, EndWaves, PhasesLeft
  <2>3. Shrinks
    BY <1>0, <2>1, <2>2 DEF Shrinks
  <2> QED
    BY <2>3, ShrinkingUsesUp
<1>3. CASE StartComponent \/ Collect
  <2>1. /\ PhasesLeft' = PhasesLeft /\ TraversalLeft' = TraversalLeft
        /\ ComponentsLeft' = ComponentsLeft /\ WavesLeft' = WavesLeft
    BY <1>3 DEF StartComponent, Collect, traversal, TraversalLeft, Unfollowed, PhasesLeft,
       ComponentsLeft, WavesLeft, Emitted
  <2>2. CollectionLeft' < CollectionLeft
    BY <1>3, CollectionUsesUp
  <2>3. Shrinks
    BY <1>0, <2>1, <2>2 DEF Shrinks
  <2> QED
    BY <2>3, ShrinkingUsesUp
<1>4. CASE CloseComponent
  <2>1. /\ PhasesLeft' = PhasesLeft /\ TraversalLeft' = TraversalLeft
        /\ CollectionLeft' = CollectionLeft /\ WavesLeft' = WavesLeft
    BY <1>4 DEF CloseComponent, traversal, TraversalLeft, Unfollowed, CollectionLeft,
       PhasesLeft, WavesLeft, Emitted
  <2>2. ComponentsLeft' < ComponentsLeft
    BY <1>4, ClosingUsesUp DEF ComponentsLeft
  <2>3. Shrinks
    BY <1>0, <2>1, <2>2 DEF Shrinks
  <2> QED
    BY <2>3, ShrinkingUsesUp
<1>5. CASE EmitWave
  <2>1. /\ PhasesLeft' = PhasesLeft /\ TraversalLeft' = TraversalLeft
        /\ CollectionLeft' = CollectionLeft /\ ComponentsLeft' = ComponentsLeft
    BY <1>5 DEF EmitWave, traversal, collection, TraversalLeft, Unfollowed, CollectionLeft,
       PhasesLeft, ComponentsLeft
  <2>2. WavesLeft' < WavesLeft
    BY <1>5, EmittingUsesUp DEF WavesLeft
  <2>3. Shrinks
    BY <1>0, <2>1, <2>2 DEF Shrinks
  <2> QED
    BY <2>3, ShrinkingUsesUp
<1> QED
  BY <1>1, <1>2, <1>3, <1>4, <1>5 DEF Next

LEMMA OnceHolds == Spec => []Once
<1>1. Init => Once
  BY DEF Init, Once
<1> QED
  BY <1>1, StepOnce, GraphTyping, VisitHolds, PTL DEF Spec

\* The analysis of any finite graph ends: what is left is a natural number, at
\* first six steps for a node, one for an edge and three, and every step takes
\* something off it.
THEOREM AnalysisEnds ==
    Spec => /\ StepsLeft = 6 * Cardinality(NodeIds) + Cardinality(edges) + 3
            /\ [](StepsLeft \in Nat)
            /\ NothingTwice
<1>1. ASSUME Init
      PROVE  StepsLeft = 6 * Cardinality(NodeIds) + Cardinality(edges) + 3
  <2> DEFINE n == Cardinality(NodeIds)
             m == Cardinality(edges)
  <2>1. /\ TypeOK /\ visited = {} /\ assigned = {} /\ UNION components = {} /\ UNION Emitted = {}
        /\ Len(stack) = 0 /\ Len(pending) = 0 /\ PhasesLeft = 3
    BY <1>1 DEF Init, TypeOK, Emitted, PhasesLeft
  <2>2. Unfollowed = edges /\ NodeIds \ {} = NodeIds
    BY <2>1 DEF Unfollowed
  <2>3. n \in Nat /\ m \in Nat
    BY <2>1, NodeIdsAssumption, Counted, FS_CardinalityType
  <2>4. TraversalLeft = 2 * n + 0 + m /\ CollectionLeft = 2 * n + 0 /\ ComponentsLeft = n /\ WavesLeft = n
    BY <2>1, <2>2 DEF TraversalLeft, CollectionLeft, ComponentsLeft, WavesLeft
  <2>5. StepsLeft = PhasesLeft + TraversalLeft + CollectionLeft + ComponentsLeft + WavesLeft
    BY <2>1, LeftIsNumber DEF Numbers
  <2> HIDE DEF n, m
  <2>6. StepsLeft = 6 * n + m + 3
    BY <2>1, <2>3, <2>4, <2>5
  <2> QED
    BY <2>6 DEF n, m
<1>2. ASSUME TypeOK, VisitOK, Once, CollectOK, StrongOK, WaveOK, [Next]_vars, Numbers, Numbers'
      PROVE  [StepsLeft' < StepsLeft]_vars
  <2>1. CASE Next
    <3>1. StepsLeft' < StepsLeft
      BY <1>2, <2>1, StepUsesUp
    <3> QED
      BY <3>1
  <2>2. CASE UNCHANGED vars
    BY <2>2
  <2> QED
    BY <1>2, <2>1, <2>2
<1> QED
  BY <1>1, <1>2, LeftIsNumber, GraphTyping, VisitHolds, OnceHolds, ComponentsHold, WavesHold, PTL
  DEF Spec, NothingTwice
=============================================================================
