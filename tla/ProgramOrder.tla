---------------------------- MODULE ProgramOrder ----------------------------
(***************************************************************************)
(* topological_order of engine/operations/programs.py, the order in which  *)
(* a semantic program is compiled and executed: Kahn's algorithm with the  *)
(* ready list kept sorted by node id.  compile_program runs it to reject a *)
(* cycle, execute_program to get the order.                                *)
(*                                                                         *)
(* Node ids are numbers, compared as the code compares strings.  A node's  *)
(* successor list may name a node twice, so an edge has a multiplicity.    *)
(* One turn of the while loop is one step.                                 *)
(***************************************************************************)
EXTENDS Integers, FiniteSets, Sequences

CONSTANTS
    Id,         \* node ids
    MaxEdges    \* bound: how often a successor list names one node

ASSUME OrderAssumption ==
    /\ Id \subseteq Nat
    /\ IsFiniteSet(Id)
    /\ MaxEdges \in Nat

VARIABLES
    edges,      \* the program: how often m is a successor of n
    indegree,   \* incoming edges not yet accounted for
    ready,      \* nodes of indegree 0 that are not in the order yet
    order,      \* out: the order so far
    outcome     \* of the call: "running", "ordered" or "cycle"

orderVars == <<edges, indegree, ready, order, outcome>>

Graph == [Id -> [Id -> 0 .. MaxEdges]]

\* n names m as its successor.
Precedes(n, m) == edges[n][m] > 0

Placed == {order[i] : i \in 1 .. Len(order)}

OrderTypeOK ==
    /\ edges \in Graph
    /\ indegree \in [Id -> Nat]
    /\ ready \subseteq Id
    /\ order \in Seq(Id)
    /\ outcome \in {"running", "ordered", "cycle"}

-----------------------------------------------------------------------------
\* How many entries of all successor lists name m: len(predecessors[m]).
Incoming(m) == Cardinality({e \in Id \X (1 .. MaxEdges) : e[2] <= edges[e[1]][m]})

\* predecessors, and with it indegree, is built from every successor list.
OrderInit ==
    /\ edges \in Graph
    /\ indegree = [m \in Id |-> Incoming(m)]
    /\ ready = {m \in Id : Incoming(m) = 0}
    /\ order = <<>>
    /\ outcome = "running"

\* Mutant: ready.pop() takes the other end of the sorted list.
Largest(S) == CHOOSE n \in S : \A m \in S : m <= n
\* ready.sort() and ready.pop(0): the smallest id is next.
Smallest(S) == CHOOSE n \in S : \A m \in S : n <= m

\* Mutant: a successor is ready as soon as one of its predecessors is placed.
ReleasedEarly(cur) == {m \in Id : Precedes(cur, m)}
\* The successors of cur whose count comes down to 0 with cur placed.
Released(cur) == {m \in Id : Precedes(cur, m) /\ indegree[m] = edges[cur][m]}

Place ==
    /\ outcome = "running"
    /\ ready # {}
    /\ LET cur == Smallest(ready)
       IN  /\ order' = Append(order, cur)
           /\ indegree' = [m \in Id |-> indegree[m] - edges[cur][m]]
           /\ ready' = (ready \ {cur}) \cup Released(cur)
    /\ UNCHANGED <<edges, outcome>>

\* Mutant: only an empty order is a cycle.
AnythingPlaced == Placed # {}
EveryNodePlaced == Len(order) = Cardinality(Id)

\* len(out) != len(nodes): "semantic program contains a cycle".
OrderVerdict == IF EveryNodePlaced THEN "ordered" ELSE "cycle"

Stop ==
    /\ outcome = "running"
    /\ ready = {}
    /\ outcome' = OrderVerdict
    /\ UNCHANGED <<edges, indegree, ready, order>>

OrderNext == Place \/ Stop

OrderSpec == OrderInit /\ [][OrderNext]_orderVars

-----------------------------------------------------------------------------
(* Properties.                                                             *)

(* A node enters the order once, behind every node that names it as its    *)
(* successor -- also while the order is still being built, and also when   *)
(* the rest of the graph is a cycle.                                       *)
OrderIsTopological ==
    \A i, j \in 1 .. Len(order) :
        /\ i # j => order[i] # order[j]
        /\ \A n \in Id : Precedes(n, order[j]) => \E k \in 1 .. j - 1 : order[k] = n

\* A set of nodes each of which has a predecessor in the set.
Knot(S) == S # {} /\ \A m \in S : \E n \in S : Precedes(n, m)

(* compile_program rejects a program exactly when its graph has a cycle:   *)
(* no cycle is compiled, no acyclic program is turned away.                *)
CycleIsDetected ==
    outcome # "running" => (outcome = "cycle" <=> \E S \in SUBSET Id : Knot(S))

(* The order is a function of the graph, so compile, execution and replay  *)
(* agree: at every place stands the smallest id that could stand there.    *)
OrderIsLeast ==
    \A i \in 1 .. Len(order), m \in Id :
        \/ order[i] <= m
        \/ \E k \in 1 .. i - 1 : order[k] = m
        \/ \E n \in Id : Precedes(n, m) /\ \A k \in 1 .. i - 1 : order[k] # n
=============================================================================
