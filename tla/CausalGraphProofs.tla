-------------------------- MODULE CausalGraphProofs --------------------------
(***************************************************************************)
(* Theorems about CausalGraph, for every finite set of casts, every depth, *)
(* every LIMIT and any number of writes during a search: the types, that   *)
(* no edge dangles, that nothing out of reach is returned and that what    *)
(* nobody touched is found.  The last two rest on Within, the nodes at the *)
(* end of a walk of d steps: one step longer is one Leads further.         *)
(***************************************************************************)
EXTENDS CausalGraph, FiniteSetTheorems, WellFoundedInduction, TLAPS

(* TypeOK alone does not bound the depth of a queued node: an entry is     *)
(* only ever expanded on behalf of a query.                                *)
QueuedForQuery == frontier # <<>> => query \in Query

Inv == TypeOK /\ QueuedForQuery

(* SetToSeqs orders a finite set: each result is a sequence over it.       *)
LEMMA OrderingsAreSequences ==
    ASSUME NEW S, IsFiniteSet(S), NEW s \in SetToSeqs(S)
    PROVE  s \in Seq(S)
<1>1. Cardinality(S) \in Nat
    BY FS_CardinalityType
<1>2. s \in [1 .. Cardinality(S) -> S]
    BY DEF SetToSeqs
<1> QED  BY <1>1, <1>2

(* What an iteration queues has the type of the queue.                     *)
LEMMA QueuedEntries ==
    ASSUME NEW T \in SUBSET Cast, NEW d \in 0 .. MaxDepth,
           NEW s \in SetToSeqs({<<m, d>> : m \in T})
    PROVE  /\ s \in Seq(Cast \X (0 .. MaxDepth))
           /\ \A i \in DOMAIN s : s[i][2] = d
<1> DEFINE E == {<<m, d>> : m \in T}
<1>1. IsFiniteSet(Cast)
    BY CausalAssumption
<1>2. IsFiniteSet({d})
    BY FS_Singleton
<1>3. IsFiniteSet(Cast \X {d})
    BY <1>1, <1>2, FS_Product
<1>4. E \in SUBSET (Cast \X {d})
    OBVIOUS
<1>5. IsFiniteSet(E)
    BY <1>3, <1>4, FS_Subset
<1>6. s \in Seq(E)
    <2> HIDE DEF E
    <2> QED  BY <1>5, OrderingsAreSequences DEF E
<1>7. E \subseteq Cast \X (0 .. MaxDepth) /\ \A e \in E : e[2] = d
    OBVIOUS
<1> HIDE DEF E
<1>8. \A i \in DOMAIN s : s[i] \in E
    BY <1>6
<1> QED  BY <1>6, <1>7, <1>8

LEMMA TypeInit == Init => Inv
<1> SUFFICES ASSUME Init PROVE Inv
    OBVIOUS
<1>1. frontier \in Seq(Cast \X (0 .. MaxDepth))
    BY DEF Init
<1>2. writes \in 0 .. MaxWrites
    BY CausalAssumption DEF Init
<1>3. DOMAIN frontier = {}
    BY DEF Init
<1> QED  BY <1>1, <1>2, <1>3 DEF Init, Inv, TypeOK, QueuedForQuery

(* An iteration keeps the types: the interesting part is that a node is    *)
(* queued no deeper than max_depth.                                        *)
LEMMA ExpandKeepsTypes == Inv /\ Expand => Inv'
<1> SUFFICES ASSUME Inv, Expand PROVE Inv'
    OBVIOUS
<1> DEFINE n == frontier[1][1]
           d == frontier[1][2]
           Queue == Cast \X (0 .. MaxDepth)
<1>1. frontier # <<>> /\ frontier \in Seq(Queue) /\ query \in Query
    BY DEF Inv, TypeOK, QueuedForQuery, Expand
<1>2. frontier[1] \in Queue /\ Tail(frontier) \in Seq(Queue)
    <2> HIDE DEF Queue
    <2> QED  BY <1>1
<1>3. \A i \in DOMAIN Tail(frontier) : Tail(frontier)[i][2] <= query.depth
    <2>1. \A i \in DOMAIN frontier : frontier[i][2] <= query.depth
        BY DEF Inv, TypeOK
    <2>2. \A i \in DOMAIN Tail(frontier) :
            i + 1 \in DOMAIN frontier /\ Tail(frontier)[i] = frontier[i + 1]
        <3> HIDE DEF Queue
        <3> QED  BY <1>1
    <2> QED  BY <2>1, <2>2
<1>4. n \in Cast /\ d \in 0 .. MaxDepth
    BY <1>2
<1>5. query.depth \in 1 .. MaxDepth
    BY <1>1 DEF Query
<1>6. UNCHANGED <<edges, query, existed, steady, writes>>
    BY DEF Expand
<1>7. CASE DeepEnough(d)
    <2>1. frontier' = Tail(frontier) /\ UNCHANGED <<nodes, found, cut>>
        BY <1>7 DEF Expand
    <2> HIDE DEF Queue
    <2> QED  BY <2>1, <1>1, <1>2, <1>6, <1>3 DEF Inv, TypeOK, QueuedForQuery, Queue
<1>8. CASE ~DeepEnough(d)
    <2>1. PICK S \in Selections(n) :
            LET kept == {e \in S : Follows(query, edges[e], n)}
                ends == UNION {EndsOf(edges[e]) : e \in kept}
            IN  /\ found' = [e \in EdgeId |->
                               IF e \in kept THEN edges[e] ELSE found[e]]
                /\ nodes' = nodes \cup ends
                /\ \E s \in SetToSeqs({<<m, d + 1>> : m \in ends \ nodes}) :
                      frontier' = Tail(frontier) \o s
                /\ cut' = (cut \/ S # Matching(n))
        BY <1>8 DEF Expand
    <2> DEFINE kept == {e \in S : Follows(query, edges[e], n)}
               ends == UNION {EndsOf(edges[e]) : e \in kept}
    <2>2. S \subseteq EdgeId /\ \A e \in S : edges[e] \in Row
        BY DEF Selections, Matching, Inv, TypeOK
    <2>3. ends \subseteq Cast
        BY <2>2 DEF EndsOf, Row
    <2>4. d + 1 \in 0 .. MaxDepth /\ d + 1 <= query.depth
        <3>1. ~(d >= query.depth)
            BY <1>8 DEF DeepEnough
        <3> HIDE DEF d
        <3> QED  BY <1>4, <1>5, <3>1, CausalAssumption
    <2>5. PICK s \in SetToSeqs({<<m, d + 1>> : m \in ends \ nodes}) :
                frontier' = Tail(frontier) \o s
        BY <2>1
    <2>6. s \in Seq(Queue) /\ \A i \in DOMAIN s : s[i][2] = d + 1
        <3> HIDE DEF ends, d
        <3>1. ends \ nodes \in SUBSET Cast
            BY <2>3
        <3> QED  BY <2>4, <2>5, <3>1, QueuedEntries
    <2>7. frontier' \in Seq(Queue)
        <3> HIDE DEF Queue
        <3> QED  BY <1>2, <2>5, <2>6
    <2>8. \A i \in DOMAIN frontier' : frontier'[i][2] <= query.depth
        <3>1. \A i \in DOMAIN frontier' :
                \/ i \in DOMAIN Tail(frontier) /\ frontier'[i] = Tail(frontier)[i]
                \/ /\ i - Len(Tail(frontier)) \in DOMAIN s
                   /\ frontier'[i] = s[i - Len(Tail(frontier))]
            <4> HIDE DEF Queue
            <4> QED  BY <1>2, <2>5, <2>6
        <3> HIDE DEF d
        <3> QED  BY <1>3, <2>4, <2>6, <3>1
    <2>9. found' \in [EdgeId -> Row \cup {Absent}]
        BY <2>1, <2>2 DEF Inv, TypeOK
    <2>10. nodes' \subseteq Cast
        BY <2>1, <2>3 DEF Inv, TypeOK
    <2>11. cut' \in BOOLEAN
        BY <2>1 DEF Inv, TypeOK
    <2> QED  BY <1>1, <1>6, <2>7, <2>9, <2>10, <2>11, <2>8
             DEF Inv, TypeOK, QueuedForQuery
<1> QED  BY <1>7, <1>8

LEMMA TypeNext == Inv /\ [Next]_vars => Inv'
<1> SUFFICES ASSUME Inv, [Next]_vars PROVE Inv'
    OBVIOUS
<1> USE DEF Inv, TypeOK, QueuedForQuery
<1>1. ASSUME NEW q \in Query, Begin(q) PROVE Inv'
    <2>1. q.root \in Cast
        BY DEF Query
    <2>2. << <<q.root, 0>> >> \in Seq(Cast \X (0 .. MaxDepth))
        BY <2>1, CausalAssumption
    <2>3. Rows(edges) \subseteq Row
        BY DEF Rows
    <2>4. \A i \in DOMAIN << <<q.root, 0>> >> : << <<q.root, 0>> >>[i][2] <= q.depth
        BY DEF Query
    <2> QED  BY <1>1, <2>1, <2>2, <2>3, <2>4 DEF Begin
<1>2. ASSUME Expand PROVE Inv'
    BY <1>2, ExpandKeepsTypes
<1>3. ASSUME NEW e \in EdgeId, NEW row \in Row, Write(e, row) PROVE Inv'
    BY <1>3, CausalAssumption DEF Write, searchVars
<1>4. ASSUME NEW e \in EdgeId, Delete(e) PROVE Inv'
    BY <1>4, CausalAssumption DEF Delete, searchVars
<1>5. CASE UNCHANGED vars
    BY <1>5 DEF vars, searchVars
<1> QED  BY <1>1, <1>2, <1>3, <1>4, <1>5 DEF Next

(* The search keeps its queue, its nodes and its edges well formed: no     *)
(* node is queued below depth 0 or above max_depth.                        *)
THEOREM TypeCorrect == Spec => []TypeOK
<1>1. Inv => TypeOK
    BY DEF Inv
<1> QED  BY <1>1, TypeInit, TypeNext, PTL DEF Spec

(* Edges are noted only on behalf of a query, so a search starts with none. *)
FoundForQuery == \A e \in EdgeId : found[e] # Absent => query # NoQuery

LEMMA NoQueryIsNone == NoQuery \notin Query
<1> SUFFICES ASSUME NoQuery \in Query PROVE FALSE
    OBVIOUS
<1>1. DOMAIN NoQuery = {}
    BY DEF NoQuery
<1>2. "root" \in DOMAIN NoQuery
    BY DEF Query
<1> QED  BY <1>1, <1>2

ClosedInv == Inv /\ FoundForQuery /\ EdgesAreClosed

LEMMA ClosedNext == ClosedInv /\ [Next]_vars => ClosedInv'
<1> SUFFICES ASSUME ClosedInv, [Next]_vars PROVE ClosedInv'
    OBVIOUS
<1>1. Inv /\ Inv'
    BY TypeNext DEF ClosedInv
<1>2. FoundForQuery /\ EdgesAreClosed
    BY DEF ClosedInv
<1> SUFFICES FoundForQuery' /\ EdgesAreClosed'
    BY <1>1 DEF ClosedInv
<1> USE DEF FoundForQuery, EdgesAreClosed
<1>3. ASSUME NEW q \in Query, Begin(q) PROVE FoundForQuery' /\ EdgesAreClosed'
    <2>1. \A e \in EdgeId : found[e] = Absent
        BY <1>2, <1>3 DEF Begin
    <2> QED  BY <1>3, <2>1 DEF Begin
<1>4. ASSUME Expand PROVE FoundForQuery' /\ EdgesAreClosed'
    <2>1. query \in Query /\ query' = query
        BY <1>1, <1>4 DEF Inv, QueuedForQuery, Expand
    <2>2. FoundForQuery'
        BY <2>1, NoQueryIsNone
    <2> DEFINE n == frontier[1][1]
               d == frontier[1][2]
    <2>3. CASE DeepEnough(d)
        <3>1. UNCHANGED <<nodes, found>>
            BY <1>4, <2>3 DEF Expand
        <3> QED  BY <1>2, <2>2, <3>1
    <2>4. CASE ~DeepEnough(d)
        <3>1. PICK S \in Selections(n) :
                LET kept == {e \in S : Follows(query, edges[e], n)}
                    ends == UNION {EndsOf(edges[e]) : e \in kept}
                IN  /\ found' = [e \in EdgeId |->
                                   IF e \in kept THEN edges[e] ELSE found[e]]
                    /\ nodes' = nodes \cup ends
            BY <1>4, <2>4 DEF Expand
        <3> SUFFICES ASSUME NEW e \in EdgeId, found'[e] # Absent
                     PROVE  found'[e].source \in nodes' /\ found'[e].target \in nodes'
            BY <2>2
        <3>2. CASE e \in S /\ Follows(query, edges[e], n)
            BY <3>1, <3>2 DEF EndsOf
        <3>3. CASE ~(e \in S /\ Follows(query, edges[e], n))
            BY <1>2, <3>1, <3>3
        <3> QED  BY <3>2, <3>3
    <2> QED  BY <2>3, <2>4
<1>5. ASSUME NEW e \in EdgeId, NEW row \in Row, Write(e, row)
      PROVE  FoundForQuery' /\ EdgesAreClosed'
    BY <1>2, <1>5 DEF Write, searchVars
<1>6. ASSUME NEW e \in EdgeId, Delete(e)
      PROVE  FoundForQuery' /\ EdgesAreClosed'
    BY <1>2, <1>6 DEF Delete, searchVars
<1>7. CASE UNCHANGED vars
    BY <1>2, <1>7 DEF vars, searchVars
<1> QED  BY <1>3, <1>4, <1>5, <1>6, <1>7 DEF Next

(* causal_subgraph returns no dangling edge, however the rows of an edge   *)
(* id are rewritten or deleted between two of its SELECTs: the row it      *)
(* notes and the endpoints it adds come from the same fetched row.         *)
THEOREM EdgesStayClosed == Spec => []EdgesAreClosed
<1>1. Init => ClosedInv
    BY TypeInit DEF Init, ClosedInv, FoundForQuery, EdgesAreClosed
<1>2. ClosedInv => EdgesAreClosed
    BY DEF ClosedInv
<1> QED  BY <1>1, <1>2, ClosedNext, PTL DEF Spec

-----------------------------------------------------------------------------
(* Walks.                                                                  *)

LEMMA WithinRoot ==
    ASSUME NEW q \in Query, NEW rows, NEW d \in Nat
    PROVE  q.root \in Within(q, rows, d)
<1> DEFINE walk == [i \in 0 .. d |-> q.root]
<1>1. q.root \in Cast
    BY DEF Query
<1>2. walk \in [0 .. d -> Cast] /\ walk[0] = q.root /\ walk[d] = q.root
    BY <1>1
<1>3. \A i \in 1 .. d : walk[i] = walk[i - 1]
    OBVIOUS
<1> HIDE DEF walk
<1> QED  BY <1>1, <1>2, <1>3 DEF Within

(* A walk of no steps stays at the root.                                   *)
LEMMA WithinZero ==
    ASSUME NEW q \in Query, NEW rows, NEW n \in Within(q, rows, 0)
    PROVE  n = q.root
BY DEF Within

(* A walk goes on for a step, or pauses.                                   *)
LEMMA WithinStep ==
    ASSUME NEW q \in Query, NEW rows, NEW d \in Nat,
           NEW m \in Within(q, rows, d), NEW n \in Cast,
           m = n \/ Leads(q, rows, m, n)
    PROVE  n \in Within(q, rows, d + 1)
<1>1. PICK walk \in [0 .. d -> Cast] :
        /\ walk[0] = q.root
        /\ walk[d] = m
        /\ \A i \in 1 .. d :
              walk[i] = walk[i - 1] \/ Leads(q, rows, walk[i - 1], walk[i])
    BY DEF Within
<1> DEFINE on == [i \in 0 .. d + 1 |-> IF i <= d THEN walk[i] ELSE n]
<1>2. on \in [0 .. d + 1 -> Cast]
    BY <1>1
<1>3. on[0] = q.root /\ on[d] = m /\ on[d + 1] = n
    BY <1>1
<1>4. \A i \in 1 .. d + 1 : on[i] = on[i - 1] \/ Leads(q, rows, on[i - 1], on[i])
    <2> SUFFICES ASSUME NEW i \in 1 .. d + 1
                 PROVE  on[i] = on[i - 1] \/ Leads(q, rows, on[i - 1], on[i])
        OBVIOUS
    <2>1. CASE i = d + 1
        <3>1. i - 1 = d
            BY <2>1
        <3> HIDE DEF on
        <3> QED  BY <1>3, <2>1, <3>1
    <2>2. CASE i <= d
        <3>1. i \in 1 .. d /\ on[i] = walk[i] /\ on[i - 1] = walk[i - 1]
            BY <2>2
        <3> HIDE DEF on
        <3> QED  BY <1>1, <3>1
    <2> QED  BY <2>1, <2>2
<1> HIDE DEF on
<1> QED  BY <1>2, <1>3, <1>4 DEF Within

(* ... and has a last step.                                                *)
LEMMA WithinLast ==
    ASSUME NEW q \in Query, NEW rows, NEW d \in Nat,
           NEW n \in Within(q, rows, d + 1)
    PROVE  \E m \in Within(q, rows, d) : m = n \/ Leads(q, rows, m, n)
<1>1. PICK walk \in [0 .. d + 1 -> Cast] :
        /\ walk[0] = q.root
        /\ walk[d + 1] = n
        /\ \A i \in 1 .. d + 1 :
              walk[i] = walk[i - 1] \/ Leads(q, rows, walk[i - 1], walk[i])
    BY DEF Within
<1> DEFINE on == [i \in 0 .. d |-> walk[i]]
<1>2. on \in [0 .. d -> Cast] /\ on[0] = q.root /\ on[d] = walk[d] /\ walk[d] \in Cast
    BY <1>1
<1>3. \A i \in 1 .. d : on[i] = on[i - 1] \/ Leads(q, rows, on[i - 1], on[i])
    <2> SUFFICES ASSUME NEW i \in 1 .. d
                 PROVE  on[i] = on[i - 1] \/ Leads(q, rows, on[i - 1], on[i])
        OBVIOUS
    <2>1. on[i] = walk[i] /\ on[i - 1] = walk[i - 1] /\ i \in 1 .. d + 1
        OBVIOUS
    <2> HIDE DEF on
    <2> QED  BY <1>1, <2>1
<1> HIDE DEF on
<1>4. walk[d] \in Within(q, rows, d)
    BY <1>2, <1>3 DEF Within
<1>5. d + 1 \in 1 .. d + 1 /\ d + 1 - 1 = d
    OBVIOUS
<1>6. walk[d] = n \/ Leads(q, rows, walk[d], n)
    BY <1>1, <1>5
<1> QED  BY <1>4, <1>6

(* A shorter walk pauses at its end.                                       *)
LEMMA WithinLonger ==
    ASSUME NEW q \in Query, NEW rows, NEW d \in Nat, NEW e \in Nat, d <= e,
           NEW n \in Within(q, rows, d)
    PROVE  n \in Within(q, rows, e)
<1>1. PICK walk \in [0 .. d -> Cast] :
        /\ walk[0] = q.root
        /\ walk[d] = n
        /\ \A i \in 1 .. d :
              walk[i] = walk[i - 1] \/ Leads(q, rows, walk[i - 1], walk[i])
    BY DEF Within
<1> DEFINE on == [i \in 0 .. e |-> IF i <= d THEN walk[i] ELSE n]
<1>2. n \in Cast
    BY DEF Within
<1>3. on \in [0 .. e -> Cast] /\ on[0] = q.root /\ on[e] = n
    BY <1>1, <1>2
<1>4. \A i \in 1 .. e : on[i] = on[i - 1] \/ Leads(q, rows, on[i - 1], on[i])
    <2> SUFFICES ASSUME NEW i \in 1 .. e
                 PROVE  on[i] = on[i - 1] \/ Leads(q, rows, on[i - 1], on[i])
        OBVIOUS
    <2>1. CASE i > d
        BY <1>1, <2>1
    <2>2. CASE i <= d
        <3>1. i \in 1 .. d /\ on[i] = walk[i] /\ on[i - 1] = walk[i - 1]
            BY <2>2
        <3> HIDE DEF on
        <3> QED  BY <1>1, <3>1
    <2> QED  BY <2>1, <2>2
<1> HIDE DEF on
<1> QED  BY <1>2, <1>3, <1>4 DEF Within

(* More rows leave every walk possible.                                    *)
LEMMA WithinMoreRows ==
    ASSUME NEW q \in Query, NEW rows, NEW more, rows \subseteq more, NEW d \in Nat,
           NEW n \in Within(q, rows, d)
    PROVE  n \in Within(q, more, d)
<1>1. \A a, b : Leads(q, rows, a, b) => Leads(q, more, a, b)
    BY DEF Leads
<1> QED  BY <1>1 DEF Within

-----------------------------------------------------------------------------
(* One iteration of the search.                                            *)

Kept(S, n) == {e \in S : Follows(query, edges[e], n)}
Ends(S, n) == UNION {EndsOf(edges[e]) : e \in Kept(S, n)}

\* The queue without its first entry, and one for each of new at its end.
Queued(d, new) ==
    /\ frontier' \in Seq(Cast \X (0 .. MaxDepth))
    /\ \A i \in DOMAIN frontier' :
          IF i < Len(frontier) THEN frontier'[i] = frontier[i + 1]
          ELSE \E m \in new : frontier'[i] = <<m, d + 1>>
    /\ \A i \in 1 .. Len(frontier) - 1 : i \in DOMAIN frontier'
    /\ \A m \in new : \E i \in DOMAIN frontier' : frontier'[i] = <<m, d + 1>>

\* n is expanded at depth d, with the rows of S.
Fetched(n, d, S) ==
    /\ d < query.depth
    /\ S \in Selections(n)
    /\ found' = [e \in EdgeId |-> IF e \in Kept(S, n) THEN edges[e] ELSE found[e]]
    /\ nodes' = nodes \cup Ends(S, n)
    /\ cut' = (cut \/ S # Matching(n))
    /\ Queued(d, Ends(S, n) \ nodes)

\* n is at max_depth.
Dropped(d) ==
    /\ d = query.depth
    /\ UNCHANGED <<nodes, found, cut>>
    /\ Queued(d, {})

\* The first entry is <<n, d>>, and it is dealt with.
Expanded(n, d) ==
    /\ frontier # <<>> /\ frontier[1] = <<n, d>>
    /\ 1 \in DOMAIN frontier
    /\ d <= query.depth
    /\ query \in Query
    /\ UNCHANGED <<edges, query, existed, steady, writes>>
    /\ Dropped(d) \/ \E S \in SUBSET EdgeId : Fetched(n, d, S)

(* An ordering of a finite set leaves none of its elements out: as many    *)
(* different places as elements.                                           *)
LEMMA OrderingsAreComplete ==
    ASSUME NEW S, IsFiniteSet(S), NEW s \in SetToSeqs(S)
    PROVE  \A x \in S : \E i \in DOMAIN s : s[i] = x
<1> DEFINE D == 1 .. Cardinality(S)
<1>1. Cardinality(S) \in Nat
    BY FS_CardinalityType
<1>2. IsFiniteSet(D) /\ Cardinality(D) = Cardinality(S)
    BY <1>1, FS_Interval
<1>3. s \in [D -> S] /\ \A i, j \in D : i # j => s[i] # s[j]
    BY DEF SetToSeqs
<1> HIDE DEF D
<1>4. s \in Injection(D, S)
    BY <1>3 DEF Injection, IsInjective
<1>5. s \in Surjection(D, S)
    BY <1>2, <1>4, FS_Injection
<1> QED  BY <1>3, <1>5 DEF Surjection

(* The first entry leaves the queue and the new ones join it.              *)
LEMMA QueueMoves ==
    ASSUME frontier \in Seq(Cast \X (0 .. MaxDepth)), frontier # <<>>,
           NEW new \in SUBSET Cast, NEW d \in Nat, d + 1 \in 0 .. MaxDepth,
           NEW s \in SetToSeqs({<<m, d + 1>> : m \in new}),
           frontier' = Tail(frontier) \o s
    PROVE  Queued(d, new)
<1> DEFINE E == {<<m, d + 1>> : m \in new}
           Queue == Cast \X (0 .. MaxDepth)
<1>1. IsFiniteSet(E)
    <2>1. IsFiniteSet(Cast \X {d + 1})
        BY CausalAssumption, FS_Singleton, FS_Product
    <2>2. E \in SUBSET (Cast \X {d + 1})
        OBVIOUS
    <2> QED  BY <2>1, <2>2, FS_Subset
<1>2. E \subseteq Queue
    OBVIOUS
<1>3. s \in Seq(E) /\ \A x \in E : \E i \in DOMAIN s : s[i] = x
    <2> HIDE DEF E
    <2> QED  BY <1>1, OrderingsAreSequences, OrderingsAreComplete DEF E
<1> PICK L \in Nat, l \in Nat : L = Len(frontier) /\ l = Len(s)
    BY <1>3
<1>4. \A i \in 1 .. l : s[i] \in E
    BY <1>3
<1>5. \A i \in 1 .. l : \E m \in new : s[i] = <<m, d + 1>>
    BY <1>4
<1>6. ASSUME NEW m \in new PROVE \E i \in 1 .. l : s[i] = <<m, d + 1>>
    <2>1. <<m, d + 1>> \in E
        OBVIOUS
    <2> HIDE DEF E
    <2>2. DOMAIN s = 1 .. l
        BY <1>3
    <2> QED  BY <1>3, <2>1, <2>2
<1> HIDE DEF E, Queue
<1>7. s \in Seq(Queue) /\ frontier \in Seq(Queue)
    BY <1>2, <1>3 DEF Queue
<1>8. L >= 1 /\ Tail(frontier) \in Seq(Queue) /\ Len(Tail(frontier)) = L - 1
    BY <1>7
<1>9. \A i \in 1 .. L - 1 : Tail(frontier)[i] = frontier[i + 1]
    BY <1>7, <1>8
<1>10. /\ frontier' \in Seq(Queue) /\ Len(frontier') = L - 1 + l
       /\ \A i \in 1 .. L - 1 : frontier'[i] = Tail(frontier)[i]
       /\ \A i \in 1 .. l : frontier'[L - 1 + i] = s[i]
    BY <1>7, <1>8
<1>11. DOMAIN frontier' = 1 .. L - 1 + l
    BY <1>10
<1>12. ASSUME NEW i \in DOMAIN frontier'
       PROVE  IF i < L THEN frontier'[i] = frontier[i + 1]
              ELSE \E m \in new : frontier'[i] = <<m, d + 1>>
    <2>1. CASE i < L
        BY <1>8, <1>9, <1>10, <1>11, <2>1
    <2>2. CASE ~(i < L)
        <3>1. i - (L - 1) \in 1 .. l /\ L - 1 + (i - (L - 1)) = i
            BY <1>8, <1>11, <2>2
        <3>2. frontier'[i] = s[i - (L - 1)]
            BY <1>10, <3>1
        <3> QED  BY <1>5, <2>2, <3>1, <3>2
    <2> QED  BY <2>1, <2>2
<1>13. ASSUME NEW m \in new PROVE \E i \in DOMAIN frontier' : frontier'[i] = <<m, d + 1>>
    <2>1. PICK i \in 1 .. l : s[i] = <<m, d + 1>>
        BY <1>6
    <2>2. L - 1 + i \in DOMAIN frontier' /\ frontier'[L - 1 + i] = s[i]
        BY <1>8, <1>10, <1>11
    <2> QED  BY <2>1, <2>2
<1>14. \A i \in 1 .. L - 1 : i \in DOMAIN frontier'
    BY <1>8, <1>11
<1> QED  BY <1>10, <1>12, <1>13, <1>14 DEF Queued, Queue

LEMMA ExpandIs ==
    ASSUME Inv, Expand
    PROVE  \E n \in Cast, d \in 0 .. MaxDepth : Expanded(n, d)
<1> DEFINE n == frontier[1][1]
           d == frontier[1][2]
<1>1. frontier # <<>> /\ frontier \in Seq(Cast \X (0 .. MaxDepth)) /\ query \in Query
    BY DEF Inv, TypeOK, QueuedForQuery, Expand
<1>2. 1 \in DOMAIN frontier /\ frontier[1] \in Cast \X (0 .. MaxDepth)
    BY <1>1
<1>3. n \in Cast /\ d \in 0 .. MaxDepth /\ frontier[1] = <<n, d>>
    BY <1>2
<1>4. d <= query.depth
    BY <1>2 DEF Inv, TypeOK
<1>5. query.depth \in 1 .. MaxDepth
    BY <1>1 DEF Query
<1>6. UNCHANGED <<edges, query, existed, steady, writes>>
    BY DEF Expand
<1>7. CASE DeepEnough(d)
    <2>1. frontier' = Tail(frontier) /\ UNCHANGED <<nodes, found, cut>>
        BY <1>7 DEF Expand
    <2>2. d = query.depth
        <3>1. d >= query.depth
            BY <1>7 DEF DeepEnough
        <3> HIDE DEF d
        <3> QED  BY <1>3, <1>4, <1>5, <3>1
    <2>3. Queued(d, {})
        <3> DEFINE Queue == Cast \X (0 .. MaxDepth)
        <3>1. frontier \in Seq(Queue)
            BY <1>1
        <3> HIDE DEF Queue, d
        <3>2. frontier' \in Seq(Queue) /\ Len(frontier') = Len(frontier) - 1
            BY <1>1, <2>1, <3>1
        <3>3. \A i \in DOMAIN frontier' :
                i < Len(frontier) /\ frontier'[i] = frontier[i + 1]
            BY <1>1, <2>1, <3>1
        <3>4. \A i \in 1 .. Len(frontier) - 1 : i \in DOMAIN frontier'
            BY <3>2
        <3> QED  BY <3>2, <3>3, <3>4 DEF Queued, Queue
    <2>4. Expanded(n, d)
        <3> HIDE DEF n, d
        <3> QED  BY <1>1, <1>2, <1>3, <1>4, <1>6, <2>1, <2>2, <2>3 DEF Expanded, Dropped
    <2> QED  BY <1>3, <2>4
<1>8. CASE ~DeepEnough(d)
    <2>1. PICK S \in Selections(n) :
            /\ found' = [e \in EdgeId |-> IF e \in Kept(S, n) THEN edges[e] ELSE found[e]]
            /\ nodes' = nodes \cup Ends(S, n)
            /\ \E s \in SetToSeqs({<<m, d + 1>> : m \in Ends(S, n) \ nodes}) :
                  frontier' = Tail(frontier) \o s
            /\ cut' = (cut \/ S # Matching(n))
        BY <1>8 DEF Expand, Kept, Ends
    <2>2. S \in SUBSET EdgeId /\ \A e \in S : edges[e] \in Row
        BY DEF Selections, Matching, Inv, TypeOK
    <2>3. Ends(S, n) \ nodes \in SUBSET Cast
        BY <2>2 DEF Ends, Kept, EndsOf, Row
    <2>4. d \in Nat /\ d < query.depth /\ d + 1 \in 0 .. MaxDepth
        <3>1. ~(d >= query.depth)
            BY <1>8 DEF DeepEnough
        <3> HIDE DEF d
        <3> QED  BY <1>3, <1>5, <3>1, CausalAssumption
    <2> HIDE DEF n, d
    <2>5. Queued(d, Ends(S, n) \ nodes)
        <3> DEFINE new == Ends(S, n) \ nodes
        <3>1. PICK s \in SetToSeqs({<<m, d + 1>> : m \in new}) :
                    frontier' = Tail(frontier) \o s
            BY <2>1
        <3>2. new \in SUBSET Cast
            BY <2>3
        <3> HIDE DEF new
        <3>3. Queued(d, new)
            BY <1>1, <2>4, <3>1, <3>2, QueueMoves
        <3> QED  BY <3>3 DEF new
    <2>6. Fetched(n, d, S)
        BY <2>1, <2>4, <2>5 DEF Fetched
    <2>7. Expanded(n, d)
        BY <1>1, <1>2, <1>3, <1>4, <1>6, <2>2, <2>6 DEF Expanded
    <2> QED  BY <1>3, <2>7
<1> QED  BY <1>7, <1>8

-----------------------------------------------------------------------------
(* What is found was in reach: every queued node is within its depth, over *)
(* the rows the table has held since the search began.                     *)

RowsExisted == \A e \in EdgeId : edges[e] # Absent => edges[e] \in existed

QueuedInReach ==
    \A i \in DOMAIN frontier :
        frontier[i][1] \in Within(query, existed, frontier[i][2])

NodesInReach == nodes \subseteq Within(query, existed, query.depth)

EdgesInReach ==
    \A e \in EdgeId : found[e] # Absent =>
        found[e] \in existed /\ InReach(found[e], existed)

ReachInv ==
    /\ Searching => /\ RowsExisted
                    /\ QueuedInReach
                    /\ NodesInReach
                    /\ EdgesInReach

LEMMA ReachInit == Init => ReachInv
BY DEF Init, ReachInv, Searching

LEMMA BeginKeepsReach ==
    ASSUME Inv, FoundForQuery, NEW q \in Query, Begin(q)
    PROVE  ReachInv'
<1>1. /\ query' = q /\ frontier' = << <<q.root, 0>> >> /\ nodes' = {q.root}
      /\ existed' = Rows(edges) /\ UNCHANGED <<edges, found>>
    BY DEF Begin
<1>2. q.depth \in Nat
    BY DEF Query
<1>3. RowsExisted'
    BY <1>1 DEF RowsExisted, Rows
<1>4. QueuedInReach'
    <2>1. q.root \in Within(q, existed', 0)
        BY WithinRoot
    <2>2. DOMAIN frontier' = {1} /\ frontier'[1] = <<q.root, 0>>
        BY <1>1
    <2> QED  BY <1>1, <2>1, <2>2 DEF QueuedInReach
<1>5. NodesInReach'
    <2>1. q.root \in Within(q, existed', q.depth)
        BY <1>2, WithinRoot
    <2> QED  BY <1>1, <2>1 DEF NodesInReach
<1>6. EdgesInReach'
    BY <1>1 DEF Begin, FoundForQuery, EdgesInReach
<1> QED  BY <1>3, <1>4, <1>5, <1>6 DEF ReachInv

(* The ends of a kept row are one step further than the node it was found  *)
(* at, and that node may be expanded.                                      *)
LEMMA FetchedKeepsReach ==
    ASSUME Inv, Searching, ReachInv, NEW n \in Cast, NEW d \in 0 .. MaxDepth,
           Expanded(n, d), NEW S \in SUBSET EdgeId, Fetched(n, d, S)
    PROVE  QueuedInReach' /\ NodesInReach' /\ EdgesInReach'
<1>1. /\ query' = query /\ existed' = existed /\ query \in Query
      /\ 1 \in DOMAIN frontier /\ frontier[1] = <<n, d>>
    BY DEF Expanded
<1>2. /\ RowsExisted /\ QueuedInReach /\ NodesInReach /\ EdgesInReach
    BY DEF ReachInv
<1>3. n \in Within(query, existed, d)
    BY <1>1, <1>2 DEF QueuedInReach
<1>4. d \in Nat /\ query.depth \in Nat /\ query.depth - 1 \in Nat /\ d + 1 \in Nat
      /\ d + 1 <= query.depth /\ d <= query.depth - 1
    BY <1>1 DEF Query, Fetched
<1>5. \A e \in Kept(S, n) : /\ edges[e] \in existed /\ edges[e] \in Row
                            /\ Follows(query, edges[e], n)
    <2>1. \A e \in S : edges[e] \in Row /\ edges[e] # Absent
        BY DEF Fetched, Selections, Matching, Inv, TypeOK
    <2> QED  BY <1>2, <2>1 DEF Kept, RowsExisted
<1>6. \A m \in Ends(S, n) : m \in Within(query, existed, d + 1)
    <2> SUFFICES ASSUME NEW m \in Ends(S, n) PROVE m \in Within(query, existed, d + 1)
        OBVIOUS
    <2>1. PICK e \in Kept(S, n) : m \in EndsOf(edges[e])
        BY DEF Ends
    <2>2. m \in Cast /\ Leads(query, existed, n, m)
        BY <1>5, <2>1 DEF Leads, EndsOf, Row
    <2> QED  BY <1>1, <1>3, <1>4, <2>2, WithinStep
<1>7. QueuedInReach'
    <2> SUFFICES ASSUME NEW i \in DOMAIN frontier'
                 PROVE  frontier'[i][1] \in Within(query, existed, frontier'[i][2])
        BY <1>1 DEF QueuedInReach
    <2>1. IF i < Len(frontier) THEN frontier'[i] = frontier[i + 1]
          ELSE \E m \in Ends(S, n) \ nodes : frontier'[i] = <<m, d + 1>>
        BY DEF Fetched, Queued
    <2>2. CASE i < Len(frontier)
        <3>1. i + 1 \in DOMAIN frontier
            BY <2>2 DEF Fetched, Queued, Inv, TypeOK
        <3> QED  BY <1>2, <2>1, <2>2, <3>1 DEF QueuedInReach
    <2>3. CASE ~(i < Len(frontier))
        BY <1>6, <2>1, <2>3
    <2> QED  BY <2>2, <2>3
<1>8. NodesInReach'
    <2>1. \A m \in Ends(S, n) : m \in Within(query, existed, query.depth)
        BY <1>1, <1>4, <1>6, WithinLonger
    <2> QED  BY <1>1, <1>2, <2>1 DEF NodesInReach, Fetched
<1>9. EdgesInReach'
    <2> SUFFICES ASSUME NEW e \in EdgeId, found'[e] # Absent
                 PROVE  found'[e] \in existed /\ InReach(found'[e], existed)
        BY <1>1 DEF EdgesInReach, InReach
    <2>1. CASE e \in Kept(S, n)
        <3>1. found'[e] = edges[e]
            BY <2>1 DEF Fetched
        <3>2. n \in Within(query, existed, query.depth - 1)
            BY <1>1, <1>3, <1>4, WithinLonger
        <3> QED  BY <1>5, <2>1, <3>1, <3>2 DEF InReach
    <2>2. CASE e \notin Kept(S, n)
        BY <1>2, <2>2 DEF Fetched, EdgesInReach
    <2> QED  BY <2>1, <2>2
<1> QED  BY <1>7, <1>8, <1>9

LEMMA ExpandKeepsReach ==
    ASSUME Inv, ReachInv, Expand
    PROVE  ReachInv'
<1>1. PICK n \in Cast, d \in 0 .. MaxDepth : Expanded(n, d)
    BY ExpandIs
<1>2. /\ UNCHANGED <<edges, query, existed>> /\ Searching
    BY <1>1, NoQueryIsNone DEF Expanded, Searching
<1>3. RowsExisted /\ QueuedInReach /\ NodesInReach /\ EdgesInReach
    BY <1>2 DEF ReachInv
<1>4. RowsExisted'
    BY <1>2, <1>3 DEF RowsExisted
<1>5. CASE Dropped(d)
    <2>1. UNCHANGED <<nodes, found>>
        BY <1>5 DEF Dropped
    <2>2. NodesInReach' /\ EdgesInReach'
        BY <1>2, <1>3, <2>1 DEF NodesInReach, EdgesInReach, InReach
    <2>3. \A i \in DOMAIN frontier' :
            i + 1 \in DOMAIN frontier /\ frontier'[i] = frontier[i + 1]
        BY <1>5 DEF Dropped, Queued, Inv, TypeOK
    <2>4. QueuedInReach'
        BY <1>2, <1>3, <2>3 DEF QueuedInReach
    <2> QED  BY <1>4, <2>2, <2>4 DEF ReachInv
<1>6. ASSUME NEW S \in SUBSET EdgeId, Fetched(n, d, S) PROVE ReachInv'
    <2>1. QueuedInReach' /\ NodesInReach' /\ EdgesInReach'
        BY <1>1, <1>2, <1>6, FetchedKeepsReach
    <2> QED  BY <1>4, <2>1 DEF ReachInv
<1> QED  BY <1>1, <1>5, <1>6 DEF Expanded

(* Another caller's write only adds to the rows that existed.              *)
LEMMA WriteKeepsReach ==
    ASSUME Inv, ReachInv, NEW e \in EdgeId, NEW row \in Row,
           Write(e, row) \/ Delete(e)
    PROVE  ReachInv'
<1>1. query \in Query /\ Searching
    BY NoQueryIsNone DEF Write, Delete, Inv, QueuedForQuery, Searching
<1>2. UNCHANGED <<query, frontier, nodes, found>> /\ existed \subseteq existed'
    BY DEF Write, Delete, searchVars
<1>3. RowsExisted /\ QueuedInReach /\ NodesInReach /\ EdgesInReach
    BY <1>1 DEF ReachInv
<1>4. query.depth \in Nat /\ query.depth - 1 \in Nat
    BY <1>1 DEF Query
<1>5. \A i \in DOMAIN frontier : frontier[i][2] \in Nat
    BY DEF Inv, TypeOK
<1>6. \A k \in Nat : \A n \in Within(query, existed, k) : n \in Within(query, existed', k)
    BY <1>1, <1>2, WithinMoreRows
<1>7. RowsExisted'
    BY <1>3 DEF RowsExisted, Write, Delete, Inv, TypeOK
<1>8. QueuedInReach'
    BY <1>2, <1>3, <1>5, <1>6 DEF QueuedInReach
<1>9. NodesInReach'
    BY <1>2, <1>3, <1>4, <1>6 DEF NodesInReach
<1>10. EdgesInReach'
    BY <1>2, <1>3, <1>4, <1>6 DEF EdgesInReach, InReach
<1> QED  BY <1>7, <1>8, <1>9, <1>10 DEF ReachInv

LEMMA ReachNext == ClosedInv /\ ReachInv /\ [Next]_vars => ReachInv'
<1> SUFFICES ASSUME ClosedInv, ReachInv, [Next]_vars PROVE ReachInv'
    OBVIOUS
<1>1. Inv /\ FoundForQuery
    BY DEF ClosedInv
<1>2. ASSUME NEW q \in Query, Begin(q) PROVE ReachInv'
    BY <1>1, <1>2, BeginKeepsReach
<1>3. ASSUME Expand PROVE ReachInv'
    BY <1>1, <1>3, ExpandKeepsReach
<1>4. ASSUME NEW e \in EdgeId, NEW row \in Row, Write(e, row) PROVE ReachInv'
    BY <1>1, <1>4, WriteKeepsReach
<1>5. ASSUME NEW e \in EdgeId, Delete(e) PROVE ReachInv'
    <2>1. query \in Query
        BY <1>1, <1>5 DEF Delete, Inv, QueuedForQuery
    <2>2. [source |-> query.root, target |-> query.root, sort |-> "kept"] \in Row
        BY <2>1 DEF Query, Row
    <2> QED  BY <1>1, <1>5, <2>2, WriteKeepsReach
<1>6. CASE UNCHANGED vars
    BY <1>6 DEF vars, searchVars, ReachInv, Searching, RowsExisted, QueuedInReach,
                NodesInReach, EdgesInReach, InReach
<1> QED  BY <1>2, <1>3, <1>4, <1>5, <1>6 DEF Next

(* causal_subgraph returns nothing that was not within max_depth of its    *)
(* root over rows the table really held while it ran, whatever other       *)
(* callers write and delete between two of its SELECTs.                    *)
THEOREM FoundStaysReachable == Spec => []FoundIsReachable
<1>1. Init => ClosedInv
    BY TypeInit DEF Init, ClosedInv, FoundForQuery, EdgesAreClosed
<1>2. ReachInv => FoundIsReachable
    BY DEF ReachInv, FoundIsReachable, NodesInReach, EdgesInReach
<1> QED  BY <1>1, <1>2, ClosedNext, ReachInit, ReachNext, PTL DEF Spec

-----------------------------------------------------------------------------
(* What nobody touched is found.                                           *)

\* The rows nobody wrote since the search began.
SteadyRows == {edges[e] : e \in steady} \ {Absent}

\* Every steady edge that leads on from n is noted, with both its ends.
Complete(n) ==
    \A e \in steady : edges[e] # Absent /\ Follows(query, edges[e], n) =>
        /\ found[e] = edges[e]
        /\ edges[e].source \in nodes
        /\ edges[e].target \in nodes

\* The queue is sorted by depth, and holds two depths at most.
QueueIsSorted ==
    \A i, j \in DOMAIN frontier : i <= j =>
        /\ frontier[i][2] <= frontier[j][2]
        /\ frontier[j][2] <= frontier[i][2] + 1

\* Whoever is nearer to the root than the first in the queue is complete,
NearerIsComplete ==
    frontier # <<>> =>
        \A k \in Nat : k < frontier[1][2] =>
            \A n \in Within(query, SteadyRows, k) : Complete(n)

\* whoever is as near is complete or queued with that depth,
LevelIsQueued ==
    frontier # <<>> /\ frontier[1][2] < query.depth =>
        \A n \in Within(query, SteadyRows, frontier[1][2]) :
            Complete(n) \/ \E i \in DOMAIN frontier : frontier[i] = <<n, frontier[1][2]>>

\* and whoever was visited is complete or queued.
VisitedIsQueued ==
    frontier # <<>> /\ frontier[1][2] < query.depth =>
        \A n \in nodes : Complete(n) \/ \E i \in DOMAIN frontier : frontier[i][1] = n

\* In the end all that may be expanded are complete.
AllComplete ==
    frontier = <<>> =>
        \A n \in Within(query, SteadyRows, query.depth - 1) : Complete(n)

SearchInv ==
    Searching /\ ~cut => /\ NearerIsComplete
                         /\ LevelIsQueued
                         /\ VisitedIsQueued
                         /\ AllComplete

LEMMA LeastNumber ==
    ASSUME NEW T \in SUBSET Nat, T # {}
    PROVE  \E x \in T : \A y \in T : x <= y
<1> DEFINE R == OpToRel(<, Nat)
<1>1. IsWellFoundedOn(R, Nat)
    BY NatLessThanWellFounded
<1>2. PICK x \in T : \A y \in T : ~ (<<y, x>> \in R)
    <2> HIDE DEF R
    <2> QED BY <1>1, WFMin
<1>3. \A y \in T : ~ (y < x)
    BY <1>2 DEF OpToRel
<1> QED BY <1>3

(* A steady row leads from a complete node to a visited one.               *)
LEMMA CompleteLeadsToVisited ==
    ASSUME NEW m, Complete(m), NEW n, Leads(query, SteadyRows, m, n)
    PROVE  n \in nodes
<1>1. PICK row \in SteadyRows : Follows(query, row, m) /\ n \in {row.source, row.target}
    BY DEF Leads
<1>2. PICK e \in steady : row = edges[e] /\ edges[e] # Absent
    BY <1>1 DEF SteadyRows
<1> QED  BY <1>1, <1>2 DEF Complete

\* No row leads out of V from one of its nodes within less than k steps.
NoWayOut(q, rows, V, k) ==
    \A j \in Nat : j < k =>
        \A l \in Within(q, rows, j) : l \in V =>
            \A x : Leads(q, rows, l, x) => x \in V

(* Then no walk of k steps leaves V: the first node outside would be led   *)
(* to from one inside.                                                     *)
LEMMA WithinStaysIn ==
    ASSUME NEW q \in Query, NEW rows, NEW V, q.root \in V, NEW k \in Nat,
           NoWayOut(q, rows, V, k), NEW n \in Within(q, rows, k)
    PROVE  n \in V
<1> DEFINE T == {j \in Nat : \E m \in Within(q, rows, j) : m \notin V}
<1> SUFFICES ASSUME n \notin V PROVE FALSE
    OBVIOUS
<1>1. k \in T
    OBVIOUS
<1>2. PICK j \in T : \A i \in T : j <= i
    <2>1. T \in SUBSET Nat /\ T # {}
        BY <1>1
    <2> HIDE DEF T
    <2> QED  BY <2>1, LeastNumber
<1>3. PICK m \in Within(q, rows, j) : m \notin V
    BY <1>2
<1>4. CASE j = 0
    BY <1>3, <1>4, WithinZero
<1>5. CASE j # 0
    <2>1. PICK i \in Nat : j = i + 1
        <3>1. j \in Nat /\ j - 1 \in Nat /\ j = (j - 1) + 1
            BY <1>2, <1>5
        <3> QED  BY <3>1
    <2>2. PICK l \in Within(q, rows, i) : l = m \/ Leads(q, rows, l, m)
        BY <1>3, <2>1, WithinLast
    <2>3. l \in V
        <3>1. ~(j <= i)
            BY <2>1
        <3>2. i \notin T
            BY <1>2, <3>1
        <3> QED  BY <2>2, <3>2
    <2>4. i < k
        BY <1>1, <1>2, <2>1
    <2> QED  BY <1>3, <2>2, <2>3, <2>4 DEF NoWayOut
<1> QED  BY <1>4, <1>5

RootIsVisited == Searching => query.root \in nodes

FoundInv == ClosedInv /\ RootIsVisited /\ QueueIsSorted /\ SearchInv

LEMMA BeginFindsSteady ==
    ASSUME NEW q \in Query, Begin(q)
    PROVE  RootIsVisited' /\ QueueIsSorted' /\ SearchInv'
<1>1. /\ query' = q /\ frontier' = << <<q.root, 0>> >> /\ nodes' = {q.root}
      /\ q.depth \in Nat
    BY DEF Begin, Query
<1>2. DOMAIN frontier' = {1} /\ frontier'[1] = <<q.root, 0>> /\ frontier' # <<>>
    BY <1>1
<1>3. RootIsVisited'
    BY <1>1 DEF RootIsVisited
<1>4. QueueIsSorted'
    BY <1>2 DEF QueueIsSorted
<1>5. NearerIsComplete'
    BY <1>2 DEF NearerIsComplete
<1>6. LevelIsQueued'
    <2>1. \A n \in Within(q, SteadyRows', 0) : n = q.root
        BY WithinZero
    <2> QED  BY <1>1, <1>2, <2>1 DEF LevelIsQueued
<1>7. VisitedIsQueued'
    BY <1>1, <1>2 DEF VisitedIsQueued
<1>8. AllComplete'
    BY <1>2 DEF AllComplete
<1> QED  BY <1>3, <1>4, <1>5, <1>6, <1>7, <1>8 DEF SearchInv

(* Whatever is written, what is complete stays complete over the rows that *)
(* are still untouched, and they reach no further.                         *)
LEMMA WriteFindsSteady ==
    ASSUME Inv, RootIsVisited, QueueIsSorted, SearchInv,
           NEW e \in EdgeId, NEW row \in Row, Write(e, row) \/ Delete(e)
    PROVE  RootIsVisited' /\ QueueIsSorted' /\ SearchInv'
<1>1. query \in Query /\ Searching
    BY NoQueryIsNone DEF Write, Delete, Inv, QueuedForQuery, Searching
<1>2. /\ UNCHANGED <<query, frontier, nodes, found, cut>>
      /\ steady' = steady \ {e}
      /\ \A x \in EdgeId : x # e => edges'[x] = edges[x]
    BY DEF Write, Delete, searchVars, Inv, TypeOK
<1>3. SteadyRows' \subseteq SteadyRows
    BY <1>2 DEF SteadyRows, Inv, TypeOK
<1>4. ASSUME NEW n, Complete(n) PROVE Complete(n)'
    BY <1>2, <1>4 DEF Complete, Inv, TypeOK
<1>5. ASSUME NEW k \in Nat, NEW n \in Within(query, SteadyRows', k)
      PROVE  n \in Within(query, SteadyRows, k)
    BY <1>1, <1>3, WithinMoreRows
<1>6. RootIsVisited' /\ QueueIsSorted'
    BY <1>2 DEF RootIsVisited, QueueIsSorted, Searching
<1>7. SUFFICES ASSUME ~cut
               PROVE  NearerIsComplete' /\ LevelIsQueued' /\ VisitedIsQueued' /\ AllComplete'
    BY <1>2, <1>6 DEF SearchInv
<1>8. NearerIsComplete /\ LevelIsQueued /\ VisitedIsQueued /\ AllComplete
    BY <1>1, <1>7 DEF SearchInv
<1>9. frontier # <<>> => frontier[1][2] \in Nat
    BY DEF Inv, TypeOK
<1>10. NearerIsComplete'
    <2> SUFFICES ASSUME frontier # <<>>, NEW k \in Nat, k < frontier[1][2],
                        NEW n \in Within(query, SteadyRows', k)
                 PROVE  Complete(n)'
        BY <1>2 DEF NearerIsComplete
    <2>1. n \in Within(query, SteadyRows, k)
        BY <1>5
    <2>2. Complete(n)
        BY <1>8, <2>1 DEF NearerIsComplete
    <2> QED  BY <1>4, <2>2
<1>11. LevelIsQueued'
    <2> SUFFICES ASSUME frontier # <<>>, frontier[1][2] < query.depth,
                        NEW n \in Within(query, SteadyRows', frontier[1][2])
                 PROVE  \/ Complete(n)'
                        \/ \E i \in DOMAIN frontier : frontier[i] = <<n, frontier[1][2]>>
        BY <1>2 DEF LevelIsQueued
    <2>1. n \in Within(query, SteadyRows, frontier[1][2])
        BY <1>5, <1>9
    <2>2. Complete(n) \/ \E i \in DOMAIN frontier : frontier[i] = <<n, frontier[1][2]>>
        BY <1>8, <2>1 DEF LevelIsQueued
    <2> QED  BY <1>4, <2>2
<1>12. VisitedIsQueued'
    <2> SUFFICES ASSUME frontier # <<>>, frontier[1][2] < query.depth, NEW n \in nodes
                 PROVE  Complete(n)' \/ \E i \in DOMAIN frontier : frontier[i][1] = n
        BY <1>2 DEF VisitedIsQueued
    <2>2. Complete(n) \/ \E i \in DOMAIN frontier : frontier[i][1] = n
        BY <1>8 DEF VisitedIsQueued
    <2> QED  BY <1>4, <2>2
<1>13. AllComplete'
    <2> SUFFICES ASSUME frontier = <<>>, NEW n \in Within(query, SteadyRows', query.depth - 1)
                 PROVE  Complete(n)'
        BY <1>2 DEF AllComplete
    <2>1. query.depth - 1 \in Nat
        BY <1>1 DEF Query
    <2>2. Complete(n)
        BY <1>5, <1>8, <2>1 DEF AllComplete
    <2> QED  BY <1>4, <2>2
<1> QED  BY <1>10, <1>11, <1>12, <1>13

(* The new entries are one deeper than the first was, and it was no deeper *)
(* than any.                                                               *)
LEMMA ExpandedKeepsSorted ==
    ASSUME Inv, QueueIsSorted, NEW n \in Cast, NEW d \in 0 .. MaxDepth,
           Expanded(n, d), NEW new, Queued(d, new)
    PROVE  QueueIsSorted'
<1> PICK L \in Nat : L = Len(frontier)
    BY DEF Inv, TypeOK
<1>1. DOMAIN frontier = 1 .. L /\ \A i \in 1 .. L : frontier[i][2] \in Nat
    BY DEF Inv, TypeOK
<1>2. 1 \in 1 .. L /\ frontier[1][2] = d /\ d \in Nat
    BY <1>1 DEF Expanded
<1>3. \A i \in 1 .. L : d <= frontier[i][2] /\ frontier[i][2] <= d + 1
    BY <1>1, <1>2 DEF QueueIsSorted
<1>4. ASSUME NEW i \in DOMAIN frontier'
      PROVE  /\ i \in Nat \ {0}
             /\ IF i < L THEN i + 1 \in 1 .. L /\ frontier'[i] = frontier[i + 1]
                ELSE frontier'[i][2] = d + 1
    <2>1. i \in Nat \ {0}
        BY DEF Queued
    <2>2. IF i < L THEN frontier'[i] = frontier[i + 1]
          ELSE \E m \in new : frontier'[i] = <<m, d + 1>>
        BY DEF Queued
    <2>3. i < L => i + 1 \in 1 .. L
        BY <2>1
    <2> QED  BY <2>1, <2>2, <2>3
<1>5. ASSUME NEW i \in DOMAIN frontier', NEW j \in DOMAIN frontier', i <= j
      PROVE  frontier'[i][2] <= frontier'[j][2] /\ frontier'[j][2] <= frontier'[i][2] + 1
    <2>0. i \in Nat /\ j \in Nat
        BY <1>4
    <2>1. CASE j < L
        <3>1. i < L
            BY <1>5, <2>0, <2>1
        <3>2. /\ frontier'[i] = frontier[i + 1] /\ frontier'[j] = frontier[j + 1]
              /\ i + 1 \in DOMAIN frontier /\ j + 1 \in DOMAIN frontier
            BY <1>1, <1>4, <2>1, <3>1
        <3>3. i + 1 <= j + 1
            BY <1>5, <2>0
        <3> QED  BY <3>2, <3>3 DEF QueueIsSorted
    <2>2. CASE ~(j < L) /\ i < L
        <3>1. frontier'[j][2] = d + 1 /\ frontier'[i] = frontier[i + 1] /\ i + 1 \in 1 .. L
            BY <1>4, <2>2
        <3>2. /\ frontier[i + 1][2] \in Nat
              /\ d <= frontier[i + 1][2] /\ frontier[i + 1][2] <= d + 1
            BY <1>1, <1>3, <3>1
        <3> QED  BY <1>2, <3>1, <3>2
    <2>3. CASE ~(j < L) /\ ~(i < L)
        <3>1. frontier'[j][2] = d + 1 /\ frontier'[i][2] = d + 1
            BY <1>4, <2>3
        <3> QED  BY <1>2, <3>1
    <2> QED  BY <2>1, <2>2, <2>3
<1> QED  BY <1>5 DEF QueueIsSorted

(* A SELECT that returned every matching row makes its node complete, and  *)
(* leaves complete what was.                                               *)
LEMMA FetchedCompletes ==
    ASSUME Inv, NEW n \in Cast, NEW d \in 0 .. MaxDepth, Expanded(n, d),
           NEW S \in SUBSET EdgeId, Fetched(n, d, S), ~cut'
    PROVE  /\ Complete(n)'
           /\ \A m : Complete(m) => Complete(m)'
           /\ SteadyRows' = SteadyRows
<1>1. UNCHANGED <<edges, query, steady>> /\ steady \subseteq EdgeId
    BY DEF Expanded, Inv, TypeOK
<1>2. S = Matching(n)
    BY DEF Fetched
<1>3. /\ found' = [e \in EdgeId |-> IF e \in Kept(S, n) THEN edges[e] ELSE found[e]]
      /\ nodes' = nodes \cup Ends(S, n)
    BY DEF Fetched
<1>4. Complete(n)'
    <2> SUFFICES ASSUME NEW e \in steady, edges[e] # Absent, Follows(query, edges[e], n)
                 PROVE  /\ found'[e] = edges[e]
                        /\ edges[e].source \in nodes'
                        /\ edges[e].target \in nodes'
        BY <1>1 DEF Complete
    <2>1. e \in Kept(S, n)
        BY <1>1, <1>2 DEF Kept, Matching, Follows
    <2> QED  BY <1>1, <1>3, <2>1 DEF Ends, EndsOf
<1>5. ASSUME NEW m, Complete(m) PROVE Complete(m)'
    BY <1>1, <1>3, <1>5 DEF Complete
<1> QED  BY <1>1, <1>4, <1>5 DEF SteadyRows

(* After a SELECT that returned every matching row: a node of the first    *)
(* depth in the queue was within it, so its other nodes stay queued until  *)
(* they are complete too, and only then does the search go deeper.         *)
LEMMA FetchedFindsSteady ==
    ASSUME FoundInv, Searching, NEW n \in Cast, NEW d \in 0 .. MaxDepth,
           Expanded(n, d), NEW S \in SUBSET EdgeId, Fetched(n, d, S), ~cut'
    PROVE  NearerIsComplete' /\ LevelIsQueued' /\ VisitedIsQueued' /\ AllComplete'
<1> DEFINE Reach(k) == Within(query, SteadyRows, k)
<1>1. Inv /\ QueueIsSorted /\ query.root \in nodes
    BY DEF FoundInv, ClosedInv, RootIsVisited
<1>2. /\ UNCHANGED <<edges, query, steady>> /\ query \in Query
      /\ frontier # <<>> /\ frontier[1] = <<n, d>> /\ 1 \in DOMAIN frontier
      /\ d \in Nat /\ d < query.depth /\ query.depth \in Nat
      /\ nodes' = nodes \cup Ends(S, n)
      /\ Queued(d, Ends(S, n) \ nodes)
    BY DEF Expanded, Fetched, Query
<1>3. Complete(n)' /\ (\A m : Complete(m) => Complete(m)') /\ SteadyRows' = SteadyRows
    BY <1>1, FetchedCompletes
<1>4. NearerIsComplete /\ LevelIsQueued /\ VisitedIsQueued
    BY DEF FoundInv, SearchInv, Fetched
<1> PICK L \in Nat : L = Len(frontier)
    BY <1>1 DEF Inv, TypeOK
<1>5. DOMAIN frontier = 1 .. L /\ \A i \in 1 .. L : frontier[i] \in Cast \X (0 .. MaxDepth)
    BY <1>1 DEF Inv, TypeOK
<1>6. ASSUME NEW i \in 1 .. L
      PROVE  i = 1 \/ (i - 1 \in DOMAIN frontier' /\ frontier'[i - 1] = frontier[i])
    <2>1. CASE i # 1
        <3>1. i - 1 \in 1 .. L - 1 /\ i - 1 < L /\ (i - 1) + 1 = i
            BY <2>1
        <3>2. i - 1 \in DOMAIN frontier'
            BY <1>2, <3>1 DEF Queued
        <3>3. frontier'[i - 1] = frontier[(i - 1) + 1]
            BY <1>2, <3>1, <3>2 DEF Queued
        <3> QED  BY <3>1, <3>2, <3>3
    <2> QED  BY <2>1
<1>7. \A m \in Ends(S, n) \ nodes : \E i \in DOMAIN frontier' : frontier'[i] = <<m, d + 1>>
    BY <1>2 DEF Queued
\* Every entry is as deep as the first was, or one deeper.
<1>8. ASSUME NEW i \in DOMAIN frontier'
      PROVE  /\ frontier'[i] \in Cast \X (0 .. MaxDepth)
             /\ frontier'[i][2] = d \/ frontier'[i][2] = d + 1
    <2>1. /\ frontier'[i] \in Cast \X (0 .. MaxDepth) /\ i \in Nat \ {0}
          /\ IF i < L THEN frontier'[i] = frontier[i + 1]
             ELSE \E m \in Ends(S, n) \ nodes : frontier'[i] = <<m, d + 1>>
        BY <1>2 DEF Queued
    <2>2. CASE i < L
        <3>1. i + 1 \in 1 .. L /\ 1 <= i + 1
            BY <2>1, <2>2
        <3>2. frontier[1][2] <= frontier[i + 1][2] /\ frontier[i + 1][2] <= frontier[1][2] + 1
            BY <1>1, <1>2, <1>5, <3>1 DEF QueueIsSorted
        <3>3. frontier[i + 1][2] \in Nat
            BY <1>5, <3>1
        <3>4. frontier[i + 1][2] = d \/ frontier[i + 1][2] = d + 1
            BY <1>2, <3>2, <3>3
        <3> QED  BY <2>1, <2>2, <3>4
    <2>3. CASE ~(i < L)
        BY <2>1, <2>3
    <2> QED  BY <2>1, <2>2, <2>3
\* The same two invariants, of the queue without its first entry.
<1>9. ASSUME NEW m \in nodes'
      PROVE  Complete(m)' \/ \E i \in DOMAIN frontier' : frontier'[i][1] = m
    <2>1. CASE m \in nodes
        <3>1. Complete(m) \/ \E i \in 1 .. L : frontier[i][1] = m
            BY <1>2, <1>4, <1>5, <2>1 DEF VisitedIsQueued
        <3>2. ASSUME NEW i \in 1 .. L, frontier[i][1] = m
              PROVE  Complete(m)' \/ \E j \in DOMAIN frontier' : frontier'[j][1] = m
            <4>1. CASE i = 1
                <5>1. m = n
                    BY <1>2, <3>2, <4>1
                <5> QED  BY <1>3, <5>1
            <4>2. CASE i # 1
                BY <1>6, <3>2, <4>2
            <4> QED  BY <4>1, <4>2
        <3> QED  BY <1>3, <3>1, <3>2
    <2>2. CASE m \notin nodes
        <3>1. PICK i \in DOMAIN frontier' : frontier'[i] = <<m, d + 1>>
            BY <1>2, <1>7, <2>2
        <3> QED  BY <3>1
    <2> QED  BY <2>1, <2>2
<1>10. ASSUME NEW m \in Reach(d)
       PROVE  Complete(m)' \/ \E i \in DOMAIN frontier' : frontier'[i] = <<m, d>>
    <2>1. Complete(m) \/ \E i \in 1 .. L : frontier[i] = <<m, d>>
        BY <1>2, <1>4, <1>5 DEF LevelIsQueued
    <2>2. ASSUME NEW i \in 1 .. L, frontier[i] = <<m, d>>
          PROVE  Complete(m)' \/ \E j \in DOMAIN frontier' : frontier'[j] = <<m, d>>
        <3>1. CASE i = 1
            <4>1. m = n
                BY <1>2, <2>2, <3>1
            <4> QED  BY <1>3, <4>1
        <3>2. CASE i # 1
            BY <1>6, <2>2, <3>2
        <3> QED  BY <3>1, <3>2
    <2> QED  BY <1>3, <2>1, <2>2
<1>11. ASSUME NEW m, Complete(m)', NEW x, Leads(query, SteadyRows, m, x)
       PROVE  x \in nodes'
    <2>1. PICK row \in SteadyRows : Follows(query, row, m) /\ x \in {row.source, row.target}
        BY <1>11 DEF Leads
    <2>2. PICK e \in steady : row = edges[e] /\ edges[e] # Absent
        BY <2>1 DEF SteadyRows
    <2> QED  BY <1>2, <1>11, <2>1, <2>2 DEF Complete
<1>12. CASE frontier' = <<>>
    <2>1. \A m \in nodes' : Complete(m)'
        BY <1>9, <1>12
    <2>2. query.root \in nodes' /\ query.depth - 1 \in Nat
        BY <1>1, <1>2 DEF Query
    <2>3. NoWayOut(query, SteadyRows, nodes', query.depth - 1)
        BY <1>11, <2>1 DEF NoWayOut
    <2>4. \A m \in Reach(query.depth - 1) : m \in nodes'
        BY <1>2, <2>2, <2>3, WithinStaysIn
    <2>5. AllComplete'
        BY <1>2, <1>3, <2>1, <2>4 DEF AllComplete
    <2>6. NearerIsComplete' /\ LevelIsQueued' /\ VisitedIsQueued'
        BY <1>12 DEF NearerIsComplete, LevelIsQueued, VisitedIsQueued
    <2> QED  BY <2>5, <2>6
<1>13. CASE frontier' # <<>>
    <2>1. 1 \in DOMAIN frontier'
        BY <1>2, <1>13 DEF Queued
    <2>2. AllComplete'
        BY <1>13 DEF AllComplete
    <2>3. VisitedIsQueued'
        BY <1>9 DEF VisitedIsQueued
    <2>4. CASE frontier'[1][2] = d
        <3>1. LevelIsQueued'
            BY <1>2, <1>3, <1>10, <2>4 DEF LevelIsQueued
        <3>2. \A k \in Nat : k < d => \A m \in Reach(k) : Complete(m)
            BY <1>2, <1>4 DEF NearerIsComplete
        <3>3. NearerIsComplete'
            BY <1>2, <1>3, <2>4, <3>2 DEF NearerIsComplete
        <3> QED  BY <2>2, <2>3, <3>1, <3>3
    <2>5. CASE frontier'[1][2] = d + 1
        <3>1. \A i \in DOMAIN frontier' : frontier'[i][2] = d + 1
            <4> SUFFICES ASSUME NEW i \in DOMAIN frontier' PROVE frontier'[i][2] = d + 1
                OBVIOUS
            <4>1. QueueIsSorted'
                BY <1>1, <1>2, ExpandedKeepsSorted
            <4>2. 1 <= i
                BY <1>2 DEF Queued
            <4>3. d + 1 <= frontier'[i][2]
                BY <2>1, <2>5, <4>1, <4>2 DEF QueueIsSorted
            <4> QED  BY <1>2, <1>8, <4>3
        <3>2. ASSUME NEW m \in Reach(d) PROVE Complete(m)'
            <4>1. ASSUME NEW i \in DOMAIN frontier', frontier'[i] = <<m, d>> PROVE FALSE
                <5>1. d = d + 1
                    BY <3>1, <4>1
                <5> QED  BY <1>2, <5>1
            <4> QED  BY <1>10, <4>1
        <3>3. NearerIsComplete'
            <4>1. ASSUME NEW k \in Nat, k < d + 1, NEW m \in Reach(k) PROVE Complete(m)'
                <5>1. CASE k < d
                    <6>1. Complete(m)
                        BY <1>2, <1>4, <5>1 DEF NearerIsComplete
                    <6> QED  BY <1>3, <6>1
                <5>2. CASE k = d
                    BY <3>2, <5>2
                <5> QED  BY <1>2, <4>1, <5>1, <5>2
            <4> QED  BY <1>2, <1>3, <2>5, <4>1 DEF NearerIsComplete
        <3>4. ASSUME NEW m \in Reach(d + 1)
              PROVE  Complete(m)' \/ \E i \in DOMAIN frontier' : frontier'[i] = <<m, d + 1>>
            <4>1. PICK l \in Reach(d) : l = m \/ Leads(query, SteadyRows, l, m)
                BY <1>2, WithinLast
            <4>2. Complete(l)'
                BY <3>2
            <4>3. CASE l = m
                BY <4>2, <4>3
            <4>4. CASE l # m
                <5>1. m \in nodes'
                    BY <1>11, <4>1, <4>2, <4>4
                <5>2. ASSUME NEW i \in DOMAIN frontier', frontier'[i][1] = m
                      PROVE  frontier'[i] = <<m, d + 1>>
                    BY <1>8, <3>1, <5>2
                <5> QED  BY <1>9, <5>1, <5>2
            <4> QED  BY <4>3, <4>4
        <3>5. LevelIsQueued'
            BY <1>2, <1>3, <2>5, <3>4 DEF LevelIsQueued
        <3> QED  BY <2>2, <2>3, <3>3, <3>5
    <2> QED  BY <1>8, <2>1, <2>4, <2>5
<1> QED  BY <1>12, <1>13

(* Only nodes at max_depth are left in the queue: all that are nearer are  *)
(* complete already.                                                       *)
LEMMA DroppedFindsSteady ==
    ASSUME FoundInv, Searching, NEW n \in Cast, NEW d \in 0 .. MaxDepth,
           Expanded(n, d), Dropped(d), ~cut'
    PROVE  NearerIsComplete' /\ LevelIsQueued' /\ VisitedIsQueued' /\ AllComplete'
<1>1. Inv /\ QueueIsSorted
    BY DEF FoundInv, ClosedInv
<1>2. /\ UNCHANGED <<edges, query, steady, nodes, found, cut>> /\ query \in Query
      /\ frontier # <<>> /\ frontier[1] = <<n, d>> /\ 1 \in DOMAIN frontier
      /\ d = query.depth /\ query.depth \in Nat /\ query.depth - 1 \in Nat
      /\ Queued(d, {})
    BY DEF Expanded, Dropped, Query
<1>3. SteadyRows' = SteadyRows /\ \A m : Complete(m) => Complete(m)'
    BY <1>2 DEF SteadyRows, Complete
<1>4. \A k \in Nat : k < d => \A m \in Within(query, SteadyRows, k) : Complete(m)
    BY <1>2 DEF FoundInv, SearchInv, NearerIsComplete
<1>5. ASSUME frontier' # <<>>
      PROVE  frontier'[1][2] = d
    <2>1. 1 \in DOMAIN frontier'
        BY <1>2, <1>5 DEF Queued
    <2>2. 1 + 1 \in DOMAIN frontier /\ frontier'[1] = frontier[1 + 1]
        BY <1>1, <1>2, <2>1 DEF Queued, Inv, TypeOK
    <2>3. frontier[1][2] <= frontier[1 + 1][2]
        BY <1>1, <1>2, <2>2 DEF QueueIsSorted
    <2>4. frontier[1 + 1][2] <= query.depth /\ frontier[1 + 1][2] \in Nat
        BY <1>1, <2>2 DEF Inv, TypeOK
    <2> QED  BY <1>2, <2>2, <2>3, <2>4
<1>6. NearerIsComplete'
    BY <1>2, <1>3, <1>4, <1>5 DEF NearerIsComplete
<1>7. LevelIsQueued' /\ VisitedIsQueued'
    BY <1>2, <1>5 DEF LevelIsQueued, VisitedIsQueued
<1>8. AllComplete'
    <2>1. query.depth - 1 < d
        BY <1>2
    <2> QED  BY <1>2, <1>3, <1>4, <2>1 DEF AllComplete
<1> QED  BY <1>6, <1>7, <1>8

LEMMA ExpandFindsSteady ==
    ASSUME FoundInv, Expand
    PROVE  RootIsVisited' /\ QueueIsSorted' /\ SearchInv'
<1>1. Inv /\ RootIsVisited /\ QueueIsSorted
    BY DEF FoundInv, ClosedInv
<1>2. PICK n \in Cast, d \in 0 .. MaxDepth : Expanded(n, d)
    BY <1>1, ExpandIs
<1>3. query' = query /\ Searching
    BY <1>2, NoQueryIsNone DEF Expanded, Searching
<1>4. CASE Dropped(d)
    <2>1. QueueIsSorted'
        BY <1>1, <1>2, <1>4, ExpandedKeepsSorted DEF Dropped
    <2>2. RootIsVisited'
        BY <1>1, <1>3, <1>4 DEF RootIsVisited, Searching, Dropped
    <2>3. SearchInv'
        BY <1>2, <1>3, <1>4, DroppedFindsSteady DEF SearchInv
    <2> QED  BY <2>1, <2>2, <2>3
<1>5. ASSUME NEW S \in SUBSET EdgeId, Fetched(n, d, S)
      PROVE  RootIsVisited' /\ QueueIsSorted' /\ SearchInv'
    <2>1. QueueIsSorted'
        BY <1>1, <1>2, <1>5, ExpandedKeepsSorted DEF Fetched
    <2>2. RootIsVisited'
        BY <1>1, <1>3, <1>5 DEF RootIsVisited, Searching, Fetched
    <2>3. SearchInv'
        BY <1>2, <1>3, <1>5, FetchedFindsSteady DEF SearchInv
    <2> QED  BY <2>1, <2>2, <2>3
<1> QED  BY <1>2, <1>4, <1>5 DEF Expanded

LEMMA FoundNext == FoundInv /\ [Next]_vars => FoundInv'
<1> SUFFICES ASSUME FoundInv, [Next]_vars PROVE FoundInv'
    OBVIOUS
<1>1. ClosedInv' /\ Inv /\ RootIsVisited /\ QueueIsSorted /\ SearchInv
    BY ClosedNext DEF FoundInv, ClosedInv
<1> SUFFICES RootIsVisited' /\ QueueIsSorted' /\ SearchInv'
    BY <1>1 DEF FoundInv
<1>2. ASSUME NEW q \in Query, Begin(q)
      PROVE  RootIsVisited' /\ QueueIsSorted' /\ SearchInv'
    BY <1>2, BeginFindsSteady
<1>3. ASSUME Expand PROVE RootIsVisited' /\ QueueIsSorted' /\ SearchInv'
    BY <1>3, ExpandFindsSteady
<1>4. ASSUME NEW e \in EdgeId, NEW row \in Row, Write(e, row)
      PROVE  RootIsVisited' /\ QueueIsSorted' /\ SearchInv'
    BY <1>1, <1>4, WriteFindsSteady
<1>5. ASSUME NEW e \in EdgeId, Delete(e)
      PROVE  RootIsVisited' /\ QueueIsSorted' /\ SearchInv'
    <2>1. query \in Query
        BY <1>1, <1>5 DEF Delete, Inv, QueuedForQuery
    <2>2. [source |-> query.root, target |-> query.root, sort |-> "kept"] \in Row
        BY <2>1 DEF Query, Row
    <2> QED  BY <1>1, <1>5, <2>2, WriteFindsSteady
<1>6. CASE UNCHANGED vars
    BY <1>1, <1>6 DEF vars, searchVars, RootIsVisited, Searching, QueueIsSorted, SearchInv,
                      NearerIsComplete, LevelIsQueued, VisitedIsQueued, AllComplete,
                      SteadyRows, Complete
<1> QED  BY <1>2, <1>3, <1>4, <1>5, <1>6 DEF Next

LEMMA FoundInvIsEnough == FoundInv => SteadyIsFound
<1> SUFFICES ASSUME FoundInv, Done, ~cut
             PROVE  /\ Within(query, SteadyRows, query.depth) \subseteq nodes
                    /\ \A e \in steady : edges[e] # Absent /\ InReach(edges[e], SteadyRows)
                                           => found[e] = edges[e]
    BY DEF SteadyIsFound, SteadyRows
<1>1. query \in Query /\ frontier = <<>>
    BY DEF Done, Searching, FoundInv, ClosedInv, Inv, TypeOK
<1>2. PICK k \in Nat : query.depth = k + 1 /\ query.depth - 1 = k
    <2>1. query.depth - 1 \in Nat /\ query.depth = (query.depth - 1) + 1
        BY <1>1 DEF Query
    <2> QED  BY <2>1
<1>3. \A n \in Within(query, SteadyRows, k) : Complete(n)
    BY <1>1, <1>2 DEF FoundInv, SearchInv, AllComplete, Done
<1>4. NoWayOut(query, SteadyRows, nodes, query.depth)
    <2> SUFFICES ASSUME NEW j \in Nat, j < query.depth, NEW l \in Within(query, SteadyRows, j),
                        NEW x, Leads(query, SteadyRows, l, x)
                 PROVE  x \in nodes
        BY DEF NoWayOut
    <2>1. j <= k
        BY <1>2
    <2>2. l \in Within(query, SteadyRows, k)
        BY <1>1, <2>1, WithinLonger
    <2>3. Complete(l)
        BY <1>3, <2>2
    <2> QED  BY <2>3, CompleteLeadsToVisited
<1>5. query.root \in nodes /\ query.depth \in Nat
    BY <1>1 DEF Done, FoundInv, RootIsVisited, Query
<1>6. Within(query, SteadyRows, query.depth) \subseteq nodes
    BY <1>1, <1>4, <1>5, WithinStaysIn
<1>7. ASSUME NEW e \in steady, edges[e] # Absent, InReach(edges[e], SteadyRows)
      PROVE  found[e] = edges[e]
    BY <1>2, <1>3, <1>7 DEF InReach, Complete
<1> QED  BY <1>6, <1>7

(* causal_subgraph finds everything that is within max_depth of its root   *)
(* over the rows nobody touched while it ran, unless a SELECT ran into its *)
(* LIMIT: the queue is first-in first-out, so a node is expanded at its    *)
(* least depth, and no concurrent write makes it miss one.                 *)
THEOREM SteadyIsAlwaysFound == Spec => []SteadyIsFound
<1>1. Init => FoundInv
    BY TypeInit DEF Init, FoundInv, ClosedInv, FoundForQuery, EdgesAreClosed,
                    RootIsVisited, QueueIsSorted, SearchInv, Searching
<1> QED  BY <1>1, FoundNext, FoundInvIsEnough, PTL DEF Spec
=============================================================================
