----------------------------- MODULE CausalGraph -----------------------------
(***************************************************************************)
(* The causal graph (grimoire/repositories/causal.py): the table           *)
(* causal_edges, its writers (add_causal_edge, infer_causal_edge, the      *)
(* CAUSAL_SYNC frame, predictive_cast; one upsert each) and the            *)
(* breadth-first causal_subgraph, which issues one SELECT per expanded     *)
(* node, so other callers write between two of them.                       *)
(*                                                                         *)
(* A row is what the search can tell apart: its endpoints, and whether it  *)
(* is "light" (below min_weight, dropped by the WHERE clause), "other"     *)
(* (a type the query does not ask for, dropped after the LIMIT) or "kept". *)
(* Creation times are up to the writers, so the LIMIT, which orders by     *)
(* them, may keep any rows; and neighbours may be queued in any order.     *)
(* The foreign keys keep rows between stored casts.                        *)
(***************************************************************************)
EXTENDS Naturals, FiniteSets, SequencesExt

CONSTANTS
    Cast,       \* ids of the stored casts
    EdgeId,     \* edge ids the run may write
    MaxDepth,   \* the largest max_depth of a query
    Limit,      \* rows one SELECT returns at most (1000 in the code)
    MaxWrites   \* bound on writes while a search runs

ASSUME CausalAssumption ==
    /\ IsFiniteSet(Cast)
    /\ MaxDepth \in Nat \ {0}
    /\ Limit \in Nat
    /\ MaxWrites \in Nat

Row == [source : Cast, target : Cast, sort : {"light", "other", "kept"}]
Absent == [source |-> <<>>, target |-> <<>>, sort |-> "absent"]
Query == [root : Cast, direction : {"forward", "backward", "both"},
          depth : 1 .. MaxDepth]
NoQuery == <<>>

VARIABLES
    edges,      \* table causal_edges
    query,      \* the query of the search, NoQuery before it
    frontier,   \* the queue of <<node, depth>>
    nodes,      \* visited_nodes
    found,      \* visited_edges: the last version seen of each edge id
    existed,    \* history: the rows the table held since the search began
    steady,     \* history: the edge ids nobody wrote since the search began
    cut,        \* history: a SELECT found more rows than it returned
    writes      \* writes since the search began

searchVars == <<query, frontier, nodes, found>>
vars == <<edges, searchVars, existed, steady, cut, writes>>

Rows(table) == {table[e] : e \in EdgeId} \ {Absent}

TypeOK ==
    /\ edges \in [EdgeId -> Row \cup {Absent}]
    /\ query \in Query \cup {NoQuery}
    /\ frontier \in Seq(Cast \X (0 .. MaxDepth))
    /\ \A i \in DOMAIN frontier : frontier[i][2] <= query.depth
    /\ nodes \subseteq Cast
    /\ found \in [EdgeId -> Row \cup {Absent}]
    /\ existed \subseteq Row
    /\ steady \subseteq EdgeId
    /\ cut \in BOOLEAN
    /\ writes \in 0 .. MaxWrites

\* Any table: each row is one add_causal_edge.
Init ==
    /\ edges \in [EdgeId -> Row \cup {Absent}]
    /\ query = NoQuery
    /\ frontier = <<>>
    /\ nodes = {}
    /\ found = [e \in EdgeId |-> Absent]
    /\ existed = {}
    /\ steady = {}
    /\ cut = FALSE
    /\ writes = 0

-----------------------------------------------------------------------------
Begin(q) ==
    /\ query = NoQuery
    /\ query' = q
    /\ frontier' = << <<q.root, 0>> >>
    /\ nodes' = {q.root}
    /\ existed' = Rows(edges)
    /\ steady' = EdgeId
    /\ UNCHANGED <<edges, found, cut, writes>>

(* SELECT ... WHERE weight >= ? AND (source = ? OR target = ?) ... LIMIT ? *)
Matching(n) == {e \in EdgeId : /\ edges[e] # Absent
                               /\ edges[e].sort # "light"
                               /\ n \in {edges[e].source, edges[e].target}}

Selections(n) == {S \in SUBSET Matching(n) :
                    \/ Cardinality(S) = Limit
                    \/ S = Matching(n) /\ Cardinality(S) < Limit}

(* The filters of the loop: the type, then the direction.                  *)
Follows(q, row, n) ==
    /\ row.sort = "kept"
    /\ q.direction = "forward" => row.source = n
    /\ q.direction = "backward" => row.target = n
    /\ n \in {row.source, row.target}

\* Mutant: only the target of an edge is visited.
TargetOnly(row) == {row.target}
EndsOf(row) == {row.source, row.target}

\* Mutant: a node at max_depth is still expanded.
DeeperThanAsked(d) == d > query.depth
DeepEnough(d) == d >= query.depth

(* One iteration: pop the first entry; unless it is at max_depth, SELECT   *)
(* its edges, note the kept ones and queue their unvisited endpoints.      *)
Expand ==
    /\ frontier # <<>>
    /\ LET n == frontier[1][1]
           d == frontier[1][2]
       IN  IF DeepEnough(d)
           THEN /\ frontier' = Tail(frontier)
                /\ UNCHANGED <<nodes, found, cut>>
           ELSE \E S \in Selections(n) :
                  LET kept == {e \in S : Follows(query, edges[e], n)}
                      ends == UNION {EndsOf(edges[e]) : e \in kept}
                  IN  /\ found' = [e \in EdgeId |->
                                     IF e \in kept THEN edges[e] ELSE found[e]]
                      /\ nodes' = nodes \cup ends
                      /\ \E s \in SetToSeqs({<<m, d + 1>> : m \in ends \ nodes}) :
                            frontier' = Tail(frontier) \o s
                      /\ cut' = (cut \/ S # Matching(n))
    /\ UNCHANGED <<edges, query, existed, steady, writes>>

(* INSERT ... ON CONFLICT(edge_id) DO UPDATE, and DELETE, by other callers. *)
Write(e, row) ==
    /\ query # NoQuery /\ frontier # <<>>
    /\ writes < MaxWrites
    /\ edges' = [edges EXCEPT ![e] = row]
    /\ existed' = existed \cup {row}
    /\ steady' = steady \ {e}
    /\ writes' = writes + 1
    /\ UNCHANGED <<searchVars, cut>>

Delete(e) ==
    /\ query # NoQuery /\ frontier # <<>>
    /\ writes < MaxWrites
    /\ edges[e] # Absent
    /\ edges' = [edges EXCEPT ![e] = Absent]
    /\ steady' = steady \ {e}
    /\ writes' = writes + 1
    /\ UNCHANGED <<searchVars, existed, cut>>

Next ==
    \/ \E q \in Query : Begin(q)
    \/ Expand
    \/ \E e \in EdgeId, row \in Row : Write(e, row)
    \/ \E e \in EdgeId : Delete(e)

Spec == Init /\ [][Next]_vars
-----------------------------------------------------------------------------
(* Properties.                                                             *)

\* Does one of the rows lead the query from m to n?
Leads(q, rows, m, n) ==
    \E row \in rows : Follows(q, row, m) /\ n \in {row.source, row.target}

(* The nodes within depth d of the root, over a set of rows: where a walk  *)
(* of d steps, which may pause, can end.                                   *)
Within(q, rows, d) ==
    {n \in Cast : \E walk \in [0 .. d -> Cast] :
        /\ walk[0] = q.root
        /\ walk[d] = n
        /\ \A i \in 1 .. d :
              walk[i] = walk[i - 1] \/ Leads(q, rows, walk[i - 1], walk[i])}

Searching == query # NoQuery
Done == Searching /\ frontier = <<>>

\* Does the row lead from a node the query allows to expand?
InReach(row, rows) ==
    \E n \in Within(query, rows, query.depth - 1) : Follows(query, row, n)

(* Whatever is written between two SELECTs, nothing is returned that was   *)
(* not within max_depth of the root over rows the table really held.       *)
FoundIsReachable ==
    Searching =>
        /\ nodes \subseteq Within(query, existed, query.depth)
        /\ \A e \in EdgeId : found[e] # Absent =>
                found[e] \in existed /\ InReach(found[e], existed)

(* ... and everything that is within max_depth over the rows nobody        *)
(* touched is returned, unless a SELECT ran into its LIMIT: the queue is   *)
(* first-in first-out, so a node is reached by a shortest path first.      *)
SteadyIsFound ==
    Done /\ ~cut =>
        LET rows == {edges[e] : e \in steady} \ {Absent}
        IN  /\ Within(query, rows, query.depth) \subseteq nodes
            /\ \A e \in steady : edges[e] # Absent /\ InReach(edges[e], rows)
                                   => found[e] = edges[e]

(* A returned edge never dangles: both its casts are among the returned    *)
(* nodes, although the row of an edge id may move between two SELECTs and  *)
(* the later version replaces the earlier one.                             *)
EdgesAreClosed ==
    \A e \in EdgeId : found[e] # Absent =>
        found[e].source \in nodes /\ found[e].target \in nodes
=============================================================================
