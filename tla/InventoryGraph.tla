--------------------------- MODULE InventoryGraph ---------------------------
(***************************************************************************)
(* analyze_graph of the GitHub dependency inventory                        *)
(* (github_inventory_graph.py): strongly connected components by an        *)
(* iterative Kosaraju traversal, then the dependency-first waves of the    *)
(* condensation, with the counters and the work lists of the code.         *)
(*                                                                         *)
(* Nodes are numbers in the order in which the code sorts their ids; an    *)
(* iterator over sorted successors is the set of those it has yet to       *)
(* return.  `edges` is any graph a caller may pass.                        *)
(***************************************************************************)
EXTENDS Integers, Sequences, FiniteSets

CONSTANTS NodeIds,   \* the node ids, numbered in sorted order
          SelfLoops  \* bound: nodes that may depend on themselves

ASSUME NodeIdsAssumption == NodeIds \subseteq Nat /\ IsFiniteSet(NodeIds)

VARIABLES
    edges,         \* the topology: pairs source, target
    phase,         \* "visit", "assign", "waves", "done" or "error"
    visited,       \* first traversal
    finish_order,  \* nodes in the order their traversal ended
    stack,         \* first traversal: pairs of a node and its iterator
    assigned,      \* second traversal
    pending,       \* second traversal: its stack, as the nodes pushed and not popped
    members,       \* the component being collected
    components,    \* the components collected
    unresolved,    \* unresolved_count: dependencies not yet in a wave
    current_wave,
    waves

traversal == <<visited, finish_order, stack>>
collection == <<assigned, pending, members, components>>
vars == <<edges, phase, traversal, collection, unresolved, current_wave, waves>>

Least(S) == CHOOSE n \in S : \A m \in S : n <= m
Successors(n) == {m \in NodeIds : <<n, m>> \in edges}
Predecessors(n) == {m \in NodeIds : <<m, n>> \in edges}

Init ==
    /\ edges \in SUBSET {e \in NodeIds \X NodeIds : e[1] = e[2] => e[1] \in SelfLoops}
    /\ phase = "visit"
    /\ visited = {} /\ finish_order = <<>> /\ stack = <<>>
    /\ assigned = {} /\ pending = <<>> /\ members = {} /\ components = {}
    /\ unresolved = <<>> /\ current_wave = {} /\ waves = <<>>

-----------------------------------------------------------------------------
(* First traversal: finish order.                                          *)

Push(n) == stack' = Append(stack, [node |-> n, rest |-> Successors(n)])

StartVisit ==
    /\ phase = "visit" /\ stack = <<>> /\ visited # NodeIds
    /\ LET n == Least(NodeIds \ visited) IN
          /\ visited' = visited \cup {n}
          /\ Push(n)
    /\ UNCHANGED <<edges, phase, finish_order, collection, unresolved, current_wave, waves>>

Top == stack[Len(stack)]

\* Mutant: a node that is visited already is pushed again.
AdvanceAgain ==
    /\ phase = "visit" /\ stack # <<>> /\ Top.rest # {}
    /\ LET n == Least(Top.rest) IN
          /\ visited' = visited \cup {n}
          /\ stack' = Append([stack EXCEPT ![Len(stack)].rest = @ \ {n}],
                             [node |-> n, rest |-> Successors(n)])
    /\ UNCHANGED <<edges, phase, finish_order, collection, unresolved, current_wave, waves>>

Advance ==
    /\ phase = "visit" /\ stack # <<>> /\ Top.rest # {}
    /\ LET n == Least(Top.rest)
           advanced == [stack EXCEPT ![Len(stack)].rest = @ \ {n}] IN
          IF n \in visited
            THEN stack' = advanced /\ UNCHANGED visited
            ELSE /\ visited' = visited \cup {n}
                 /\ stack' = Append(advanced, [node |-> n, rest |-> Successors(n)])
    /\ UNCHANGED <<edges, phase, finish_order, collection, unresolved, current_wave, waves>>

Finish ==
    /\ phase = "visit" /\ stack # <<>> /\ Top.rest = {}
    /\ finish_order' = Append(finish_order, Top.node)
    /\ stack' = SubSeq(stack, 1, Len(stack) - 1)
    /\ UNCHANGED <<edges, phase, visited, collection, unresolved, current_wave, waves>>

EndVisit ==
    /\ phase = "visit" /\ stack = <<>> /\ visited = NodeIds
    /\ phase' = "assign"
    /\ UNCHANGED <<edges, traversal, collection, unresolved, current_wave, waves>>

-----------------------------------------------------------------------------
(* Second traversal: components, over the reversed edges.                  *)

Unassigned == {i \in DOMAIN finish_order : finish_order[i] \notin assigned}

\* The loop over reversed(finish_order) skips assigned nodes: the next start is
\* the last finished one that is not assigned.
StartComponent ==
    /\ phase = "assign" /\ pending = <<>> /\ members = {} /\ Unassigned # {}
    /\ LET n == finish_order[CHOOSE i \in Unassigned : \A j \in Unassigned : j <= i] IN
          /\ assigned' = assigned \cup {n}
          /\ pending' = <<n>>
    /\ UNCHANGED <<edges, phase, traversal, members, components,
                   unresolved, current_wave, waves>>

\* Mutant: the second traversal follows the edges forward.
CollectForward ==
    /\ phase = "assign" /\ pending # <<>>
    /\ LET n == pending[Len(pending)]
           fresh == Successors(n) \ assigned IN
          /\ members' = members \cup {n}
          /\ assigned' = assigned \cup fresh
          /\ \E order \in [1..Cardinality(fresh) -> fresh] :
                /\ \A i, j \in DOMAIN order : i < j => order[i] > order[j]
                /\ pending' = SubSeq(pending, 1, Len(pending) - 1) \o order
    /\ UNCHANGED <<edges, phase, traversal, components, unresolved, current_wave, waves>>

\* Pop a node and push its unassigned predecessors in descending order.
Collect ==
    /\ phase = "assign" /\ pending # <<>>
    /\ LET n == pending[Len(pending)]
           fresh == Predecessors(n) \ assigned IN
          /\ members' = members \cup {n}
          /\ assigned' = assigned \cup fresh
          /\ \E order \in [1..Cardinality(fresh) -> fresh] :
                /\ \A i, j \in DOMAIN order : i < j => order[i] > order[j]
                /\ pending' = SubSeq(pending, 1, Len(pending) - 1) \o order
    /\ UNCHANGED <<edges, phase, traversal, components, unresolved, current_wave, waves>>

CloseComponent ==
    /\ phase = "assign" /\ pending = <<>> /\ members # {}
    /\ components' = components \cup {members}
    /\ members' = {}
    /\ UNCHANGED <<edges, phase, traversal, assigned, pending,
                   unresolved, current_wave, waves>>

-----------------------------------------------------------------------------
(* Waves of the condensation.                                              *)

Depends(c, d) == \E n \in c, m \in d : <<n, m>> \in edges


Dependencies(c) == {d \in components \ {c} : Depends(c, d)}

BuildCondensation ==
    /\ phase = "assign" /\ pending = <<>> /\ members = {} /\ Unassigned = {}
    /\ unresolved' = [c \in components |-> Cardinality(Dependencies(c))]
    /\ current_wave' = {c \in components : Dependencies(c) = {}}
    /\ phase' = "waves"
    /\ UNCHANGED <<edges, traversal, collection, waves>>

\* Mutant: a dependent is released by its first resolved dependency.
EmitEarly ==
    /\ phase = "waves" /\ current_wave # {}
    /\ waves' = Append(waves, current_wave)
    /\ LET resolved(c) == Cardinality(Dependencies(c) \cap current_wave) IN
          /\ unresolved' = [c \in components |-> unresolved[c] - resolved(c)]
          /\ current_wave' = {c \in components : resolved(c) > 0 /\ unresolved'[c] <= 1}
    /\ UNCHANGED <<edges, phase, traversal, collection>>

\* Every resolved component takes one off the count of each of its dependents;
\* those that reach zero are the next wave.
EmitWave ==
    /\ phase = "waves" /\ current_wave # {}
    /\ waves' = Append(waves, current_wave)
    /\ LET resolved(c) == Cardinality(Dependencies(c) \cap current_wave) IN
          /\ unresolved' = [c \in components |-> unresolved[c] - resolved(c)]
          /\ current_wave' = {c \in components : resolved(c) > 0 /\ unresolved'[c] = 0}
    /\ UNCHANGED <<edges, phase, traversal, collection>>

Emitted == UNION {waves[i] : i \in DOMAIN waves}

EndWaves ==
    /\ phase = "waves" /\ current_wave = {}
    /\ phase' = IF Cardinality(Emitted) = Cardinality(components) THEN "done" ELSE "error"
    /\ UNCHANGED <<edges, traversal, collection, unresolved, current_wave, waves>>

Next ==
    \/ StartVisit \/ Advance \/ Finish \/ EndVisit
    \/ StartComponent \/ Collect \/ CloseComponent
    \/ BuildCondensation \/ EmitWave \/ EndWaves

Spec == Init /\ [][Next]_vars

-----------------------------------------------------------------------------

Frame == [node : NodeIds, rest : SUBSET NodeIds]

\* Every variable has its type.
TypeOK ==
    /\ edges \subseteq NodeIds \X NodeIds
    /\ phase \in {"visit", "assign", "waves", "done", "error"}
    /\ visited \subseteq NodeIds /\ assigned \subseteq NodeIds /\ members \subseteq NodeIds
    /\ finish_order \in Seq(NodeIds) /\ pending \in Seq(NodeIds)
    /\ stack \in Seq(Frame)
    /\ components \subseteq SUBSET NodeIds
    /\ phase \in {"waves", "done", "error"} => unresolved \in [components -> Int]
    /\ current_wave \subseteq components
    /\ waves \in Seq(SUBSET components)

\* Reference definition: m is reached from n when no set keeps n in and m out
\* that holds, with a node, its successors.
Closed(S) == \A v \in S : Successors(v) \subseteq S
Reaches(n, m) == \A S \in SUBSET NodeIds : n \in S /\ Closed(S) => m \in S

\* Every component reported so far is exactly one class of mutually reachable
\* nodes, whatever the order in which the traversals met them.
ComponentsAreStrong ==
    \A c \in components : \A n \in c :
        c = {m \in NodeIds : Reaches(n, m) /\ Reaches(m, n)}

\* Dependency-first waves: at every moment what a wave holds depends only on
\* components of earlier waves, and on at least one of the wave just before
\* (the wave is the earliest possible).
DependenciesFirst ==
    \A i \in DOMAIN waves : \A c \in waves[i] :
        /\ Dependencies(c) \subseteq UNION {waves[j] : j \in 1..(i - 1)}
        /\ i > 1 => Dependencies(c) \cap waves[i - 1] # {}

\* The edges that the first traversal has yet to follow.
Unfollowed ==
    {e \in edges : \/ e[1] \notin visited
                  \/ \E k \in DOMAIN stack : stack[k].node = e[1] /\ e[2] \in stack[k].rest}

PhasesLeft == CASE phase = "visit" -> 3 [] phase = "assign" -> 2 [] phase = "waves" -> 1
                [] OTHER -> 0

\* The steps that are left at most: each node is pushed and popped once by each
\* traversal, collected once and emitted once, each edge is followed once.
TraversalLeft == 2 * Cardinality(NodeIds \ visited) + Len(stack) + Cardinality(Unfollowed)
CollectionLeft == 2 * Cardinality(NodeIds \ assigned) + Len(pending)
StepsLeft ==
    PhasesLeft + TraversalLeft + CollectionLeft
      + Cardinality(NodeIds \ UNION components) + Cardinality(NodeIds \ UNION Emitted)

\* The analysis ends, and in linear time, whatever cycles the graph has: no step
\* of its loops goes over a node or an edge that was dealt with before.
NothingTwice == [][StepsLeft' < StepsLeft]_vars
=============================================================================
