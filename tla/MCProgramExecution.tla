------------------------- MODULE MCProgramExecution -------------------------
(* ProgramExecution on the programs of a few nodes, for TLC.               *)
EXTENDS ProgramExecution

MCNode == 1 .. 4
Three == 1 .. 3

\* A graph is acyclic when some ranking of the nodes orders every edge.
Acyclic(graph) ==
    \E rank \in [Three -> Three] :
        \A n \in Three : \A m \in graph[n] : rank[n] < rank[m]

\* Every acyclic graph of three nodes, listed in any order.
DAGs == {graph \in [Three -> SUBSET Three] : Acyclic(graph)}

\* The graphs of four nodes whose edges follow the listing.
ForwardDAGs == {graph \in [MCNode -> SUBSET MCNode] :
                   \A n \in MCNode : \A m \in graph[n] : n < m}

\* The programs with this graph whose nodes are of these kinds.
With(graph, kinds) ==
    LET nodes == DOMAIN graph
    IN  {[n \in nodes |-> [kind[n] EXCEPT !.successors = graph[n]]] : kind \in [nodes -> kinds]}

Plain == [type |-> "CAST", successors |-> {}, need |-> 0, faulty |-> {}, attempts |-> 1,
          gate |-> "COHERENT", merge |-> "BEST_RESONANCE"]

AllKinds ==
    {Plain,
     [Plain EXCEPT !.attempts = 2, !.need = 1],
     [Plain EXCEPT !.type = "GATE"],
     [Plain EXCEPT !.type = "GATE", !.gate = "OTHER", !.need = 2],
     [Plain EXCEPT !.type = "MERGE"],
     [Plain EXCEPT !.type = "MERGE", !.merge = "FIRST_COHERENT", !.need = 1]}

FewKinds ==
    {Plain,
     [Plain EXCEPT !.type = "GATE"],
     [Plain EXCEPT !.type = "MERGE", !.merge = "FIRST_COHERENT"]}

\* Nodes some of which have conditions that cannot be evaluated.
FaultyKinds ==
    {Plain,
     [Plain EXCEPT !.faulty = {"pre"}],
     [Plain EXCEPT !.faulty = {"post"}, !.attempts = 2],
     [Plain EXCEPT !.type = "GATE"],
     [Plain EXCEPT !.type = "GATE", !.faulty = {"pre"}, !.need = 2]}

\* The fourth node of a program of three: a merge with nothing to merge.
Idle == [Plain EXCEPT !.type = "MERGE"]
Padded(p) == [n \in MCNode |-> IF n \in Three THEN p[n] ELSE Idle]

\* Graphs that do not compile: a loop at any node, a circle, an unknown id.
Broken ==
    {[n \in MCNode |-> IF n = m THEN {m} ELSE {}] : m \in MCNode}
    \cup {[n \in MCNode |-> IF n = 4 THEN {1} ELSE {n + 1}],
          [n \in MCNode |-> IF n = 2 THEN {0} ELSE {}]}

MCPrograms ==
    UNION {With(graph, FewKinds) : graph \in ForwardDAGs}
    \cup UNION {With(graph, {Plain}) : graph \in Broken}
    \cup {Padded(p) : p \in UNION {With(graph, AllKinds) \cup With(graph, FaultyKinds) : graph \in DAGs}}
=============================================================================
