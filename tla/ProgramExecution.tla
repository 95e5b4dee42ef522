-------------------------- MODULE ProgramExecution --------------------------
(***************************************************************************)
(* A semantic program from compile_program (mcp/tools/programs.py), which  *)
(* stores it, to the end of one execution by execute_program               *)
(* (engine/operations/programs.py), node by node in a topological order.   *)
(*                                                                         *)
(* Nodes are numbered in the order the program lists them, which is the    *)
(* order of every predecessor list.  The code visits them in the order     *)
(* ProgramOrder describes, the smallest id first; as ids are arbitrary     *)
(* names, that can be any topological order, and is one here.              *)
(*                                                                         *)
(* A cast is abstracted to the level of its adjusted resonance; its        *)
(* verdict is COHERENT from CoherentFrom on.  What the engine makes of a   *)
(* node is arbitrary: a cast of any level, or an exception.  CAST stands   *)
(* for the three node types that cast.  Durations and effect summaries are *)
(* left out, and so is the outcome of a postcondition, which is recorded   *)
(* and never acted on; that evaluating a condition may raise is not.       *)
(***************************************************************************)
EXTENDS Naturals, FiniteSets, SequencesExt

CONSTANTS
    Node,           \* nodes, numbered from 1 in listing order
    MaxLevel,       \* bound on the levels of adjusted resonance
    CoherentFrom,   \* the lowest level whose verdict is COHERENT
    MaxAttempts,    \* bound on retry_policy.max_attempts
    Programs        \* the programs that may be handed in

Level == 1 .. MaxLevel
Verdict == {"COHERENT", "OTHER"}
VerdictOf(l) == IF l >= CoherentFrom THEN "COHERENT" ELSE "OTHER"

\* need: the node's precondition is pred_count >= need (has_parent is need 1).
\* faulty: where it has a condition that compares with a value of another type.
NodeSpec == [type : {"CAST", "GATE", "MERGE"},
             successors : SUBSET (Node \cup {0}),       \* 0: no node's id
             need : 0 .. Cardinality(Node),
             faulty : SUBSET {"pre", "post"},
             attempts : 1 .. MaxAttempts,
             gate : Verdict,
             merge : {"FIRST_COHERENT", "BEST_RESONANCE"}]

ASSUME ExecutionAssumption ==
    /\ Node \subseteq Nat \ {0}
    /\ IsFiniteSet(Node)
    /\ {MaxLevel, CoherentFrom} \subseteq Nat
    /\ MaxAttempts \in Nat
    /\ Programs \subseteq [Node -> NodeSpec]

None == 0

VARIABLES
    program,    \* nodes: what is executed
    visited,    \* nodes the loop is done with
    blocked,    \* nodes the loop will pass over
    result,     \* results_by_node: the node whose cast is this node's result
    level,      \* adjusted resonance of the cast a node made
    parent,     \* lineage: the node whose cast a node's cast descends from
    queue,      \* rollback_queue
    receipts,   \* receipt_nodes
    current,    \* the node being attempted, None between nodes
    failures,   \* attempts of it that raised
    status      \* of the program, then of the execution

trail == <<result, level, parent, queue>>
vars == <<program, visited, blocked, trail, receipts, current, failures, status>>

Predecessors(n) == {p \in Node : n \in program[p].successors}

Receipt == [node : Node,
            status : {"OK", "SKIPPED", "FAILED", "ROLLED_BACK"},
            retries : 0 .. MaxAttempts - 1]

TypeOK ==
    /\ program \in [Node -> NodeSpec]
    /\ visited \subseteq Node
    /\ blocked \subseteq Node
    /\ result \in [Node -> Node \cup {None}]
    /\ level \in [Node -> Level \cup {0}]
    /\ parent \in [Node -> Node \cup {None}]
    /\ queue \in Seq(Node)
    /\ receipts \in Seq(Receipt)
    /\ current \in Node \cup {None}
    /\ failures \in 0 .. MaxAttempts
    /\ status \in {"DRAFT", "COMPILED", "STORED", "REJECTED", "REFUSED",
                   "RUNNING", "COMPLETED", "FAILED", "RAISED"}

\* No cast at any node.
Blank == [n \in Node |-> None]

Init ==
    /\ program \in Programs
    /\ visited = {}
    /\ blocked = {}
    /\ result = Blank
    /\ level = Blank
    /\ parent = Blank
    /\ queue = <<>>
    /\ receipts = <<>>
    /\ current = None
    /\ failures = 0
    /\ status = "DRAFT"

-----------------------------------------------------------------------------
(* compile_program and what precedes the loop of execute_program.          *)

\* "references unknown successor"
Known == \A n \in Node : program[n].successors \subseteq Node

\* topological_order places every node (ProgramOrder).
Ordered == \A S \in (SUBSET Node) \ {{}} : \E n \in S : Predecessors(n) \cap S = {}

\* validate_program: its errors are out of the schema's reach, so it can
\* only warn, here of a gate that is a dead end.
Warned == \E n \in Node : program[n].type = "GATE" /\ program[n].successors = {}

Compilable == Known /\ Ordered

Compile ==
    /\ status = "DRAFT"
    /\ status' = IF Compilable THEN "COMPILED" ELSE "REJECTED"
    /\ UNCHANGED <<program, visited, blocked, trail, receipts, current, failures>>

WriteProgram ==
    /\ status = "COMPILED"
    /\ status' \in {"STORED", "REJECTED"}
    /\ UNCHANGED <<program, visited, blocked, trail, receipts, current, failures>>

\* What has compiled with a warning is refused where warnings are denied.
Execute ==
    /\ status = "STORED"
    /\ \E denied \in BOOLEAN :
          status' = IF Ordered /\ ~(denied /\ Warned) THEN "RUNNING" ELSE "REFUSED"
    /\ UNCHANGED <<program, visited, blocked, trail, receipts, current, failures>>

-----------------------------------------------------------------------------
(* The loop variable and what the loop body reads.                         *)

\* Mutant: a node waits for the results of its predecessors.
TurnAwaitsResults(n) ==
    /\ status = "RUNNING"
    /\ current = None
    /\ n \notin visited
    /\ \A p \in Predecessors(n) : result[p] # None
\* The loop may take up n next.
Turn(n) ==
    /\ status = "RUNNING"
    /\ current = None
    /\ n \notin visited
    /\ Predecessors(n) \subseteq visited

\* pred_results, as the predecessors they belong to.
Sources(n) == {p \in Predecessors(n) : result[p] # None}

LevelAt(p) == level[result[p]]

FirstOf(S) == CHOOSE p \in S : \A q \in S : p <= q

\* max(pred_results): the first listed of the highest.
BestOf(S) ==
    CHOOSE p \in S : \A q \in S : \/ LevelAt(p) > LevelAt(q)
                                  \/ LevelAt(p) = LevelAt(q) /\ p <= q

\* Mutant: the first predecessor with a result, whatever its resonance.
FirstParentOf(n) == IF Sources(n) = {} THEN None ELSE result[FirstOf(Sources(n))]
\* parent_result, taken before the node runs.
ParentOf(n) == IF Sources(n) = {} THEN None ELSE result[BestOf(Sources(n))]

Prepared(n) == Cardinality(Sources(n)) >= program[n].need

\* _eval_condition raises TypeError for the node's pre- or postconditions.
Faulty(n, place) == place \in program[n].faulty

Entry(n, s, retries) == [node |-> n, status |-> s, retries |-> retries]

Leave(n) == visited' = visited \cup {n}

\* Mutant: the successors are not recorded.
BlockNobody(n) == blocked' = blocked
\* The successors of n, and only those, are passed over.
Block(n) == blocked' = blocked \cup program[n].successors

-----------------------------------------------------------------------------
\* A blocked node leaves no receipt and blocks nobody in turn.
PassOver(n) ==
    /\ Turn(n)
    /\ n \in blocked
    /\ Leave(n)
    /\ UNCHANGED <<program, blocked, trail, receipts, current, failures, status>>

\* The exception leaves execute_program, and its locals are lost: there is no
\* status, no receipt and no rollback.
Raise ==
    /\ status' = "RAISED"
    /\ visited' = {}
    /\ blocked' = {}
    /\ result' = Blank
    /\ level' = Blank
    /\ parent' = Blank
    /\ queue' = <<>>
    /\ receipts' = <<>>
    /\ current' = None
    /\ failures' = 0
    /\ UNCHANGED program

\* All preconditions are evaluated, outside the try of the attempts.
RaisePrecondition(n) ==
    /\ Turn(n)
    /\ n \notin blocked
    /\ Faulty(n, "pre")
    /\ Raise

\* The preconditions of n were evaluated; they hold if and only if ok.
Judged(n, ok) ==
    /\ Turn(n)
    /\ n \notin blocked
    /\ ~Faulty(n, "pre")
    /\ Prepared(n) <=> ok

\* precondition_failed
Refuse(n) ==
    /\ Judged(n, FALSE)
    /\ Leave(n)
    /\ Block(n)
    /\ receipts' = Append(receipts, Entry(n, "SKIPPED", 0))
    /\ UNCHANGED <<program, trail, current, failures, status>>

\* Any predecessor with the verdict the gate asks for opens it.
Opens(n) == \E p \in Sources(n) : VerdictOf(LevelAt(p)) = program[n].gate

Gate(n) ==
    /\ Judged(n, TRUE)
    /\ program[n].type = "GATE"
    /\ Leave(n)
    /\ \/ /\ Opens(n)
          /\ receipts' = Append(receipts, Entry(n, "OK", 0))
          /\ UNCHANGED blocked
       \/ /\ ~Opens(n)
          /\ receipts' = Append(receipts, Entry(n, "SKIPPED", 0))
          /\ Block(n)
    /\ UNCHANGED <<program, trail, current, failures, status>>

\* The predecessor whose result a MERGE takes over.
Merged(n) ==
    LET coherent == {p \in Sources(n) : VerdictOf(LevelAt(p)) = "COHERENT"}
    IN  IF program[n].merge = "FIRST_COHERENT"
        THEN FirstOf(IF coherent = {} THEN Sources(n) ELSE coherent)
        ELSE BestOf(Sources(n))

\* Without a result to merge the node is left without a trace.
Merge(n) ==
    /\ Judged(n, TRUE)
    /\ program[n].type = "MERGE"
    /\ Leave(n)
    /\ \/ /\ Sources(n) = {}
          /\ UNCHANGED <<result, receipts>>
       \/ /\ Sources(n) # {}
          /\ result' = [result EXCEPT ![n] = result[Merged(n)]]
          /\ receipts' = Append(receipts, Entry(n, "OK", 0))
    /\ UNCHANGED <<program, blocked, level, parent, queue, current, failures, status>>

\* Mutant: the attempts are counted instead of the retries.
RetriesFromOne == failures + 1
\* retries = attempt - 1
Retries == failures

\* A casting node is taken up, or the next attempt at it begins.
Attempting(n) ==
    \/ current = n
    \/ /\ Judged(n, TRUE)
       /\ program[n].type = "CAST"

\* cast_result_with_lineage, when there is a parent.  Without one the cast
\* keeps the lineage within its own chain an AUTO_CAST has, left out here.
Descends(n) == [parent EXCEPT ![n] = ParentOf(n)]

\* The cast was made and queued for rollback; its receipt is yet to come.
RaisePostcondition(n) ==
    /\ Attempting(n)
    /\ Faulty(n, "post")
    /\ Raise

\* The engine returned a cast of level l.
Succeed(n, l) ==
    /\ Attempting(n)
    /\ ~Faulty(n, "post")
    /\ result' = [result EXCEPT ![n] = n]
    /\ level' = [level EXCEPT ![n] = l]
    /\ parent' = Descends(n)
    /\ queue' = Append(queue, n)
    /\ receipts' = Append(receipts, Entry(n, "OK", Retries))
    /\ Leave(n)
    /\ current' = None
    /\ failures' = 0
    /\ UNCHANGED <<program, blocked, status>>

\* It raised, and an attempt is left: back off and try again.
Retry(n) ==
    /\ Attempting(n)
    /\ failures + 1 < program[n].attempts
    /\ current' = n
    /\ failures' = failures + 1
    /\ UNCHANGED <<program, visited, blocked, trail, receipts, status>>

\* Mutant: the receipts of the rollback come in the order of execution.
RolledBackForwards == [i \in 1 .. Len(queue) |-> Entry(queue[i], "ROLLED_BACK", 0)]
RolledBack == [i \in 1 .. Len(queue) |-> Entry(Reverse(queue)[i], "ROLLED_BACK", 0)]

\* The last attempt raised: roll back, newest first, and leave the loop.
Fail(n) ==
    /\ Attempting(n)
    /\ failures + 1 >= program[n].attempts
    /\ receipts' = Append(receipts, Entry(n, "FAILED", Retries)) \o RolledBack
    /\ status' = "FAILED"
    /\ current' = None
    /\ failures' = 0
    /\ UNCHANGED <<program, visited, blocked, trail>>

Complete ==
    /\ status = "RUNNING"
    /\ visited = Node
    /\ status' = "COMPLETED"
    /\ UNCHANGED <<program, visited, blocked, trail, receipts, current, failures>>

Visit(n) ==
    \/ PassOver(n) \/ Refuse(n) \/ Gate(n) \/ Merge(n)
    \/ RaisePrecondition(n) \/ RaisePostcondition(n)
    \/ Retry(n) \/ Fail(n) \/ \E l \in Level : Succeed(n, l)

Next == Compile \/ WriteProgram \/ Execute \/ (\E n \in Node : Visit(n)) \/ Complete

Spec == Init /\ [][Next]_vars

\* One thread runs the loop; every attempt returns or raises.
FairSpec == Spec /\ WF_vars(Next)

-----------------------------------------------------------------------------
(* Properties.                                                             *)

Casts(n) == program[n].type = "CAST"
Done(i) == receipts[i].status = "OK"

\* The receipts of the casting nodes that went through.
CastReceipts == {i \in DOMAIN receipts : Done(i) /\ Casts(receipts[i].node)}

(* A failed execution ends with the receipt of the node that failed and,   *)
(* newest first, one rollback receipt for every cast that had gone         *)
(* through: none forgotten, none twice, no gate or merge, nothing after.   *)
(* No other execution has any of these.                                    *)
FailureRollsBack ==
    LET failed == {i \in DOMAIN receipts : receipts[i].status = "FAILED"}
        undone == {i \in DOMAIN receipts : receipts[i].status = "ROLLED_BACK"}
        Undoes(i, k) == receipts[i].node = receipts[k].node
    IN  IF status = "FAILED"
        THEN /\ \E f \in DOMAIN receipts : failed = {f} /\ undone = f + 1 .. Len(receipts)
             /\ \A i \in undone : \E k \in CastReceipts : Undoes(i, k)
             /\ \A k \in CastReceipts : \E i \in undone : Undoes(i, k)
             /\ \A i, j \in undone : \A k, l \in CastReceipts :
                   i < j /\ Undoes(i, k) /\ Undoes(j, l) => k > l
        ELSE failed = {} /\ undone = {}

Skipped == {n \in Node : \E i \in 1 .. Len(receipts) :
                receipts[i].node = n /\ receipts[i].status = "SKIPPED"}
Traced == {receipts[i].node : i \in 1 .. Len(receipts)}

(* A closed gate or a failed precondition reaches its direct successors,   *)
(* every one of them and no further: those leave no receipt and no result, *)
(* and every other node the loop passed has a receipt, save a merge with   *)
(* nothing to merge.                                                       *)
SkipReachesOneStep ==
    \A n \in visited :
        IF Predecessors(n) \cap Skipped # {}
        THEN n \notin Traced /\ result[n] = None
        ELSE n \in Traced \/ (program[n].type = "MERGE" /\ Sources(n) = {})

(* The lineage of a cast points to the best result its predecessors will   *)
(* ever have: it was chosen when they all had had their turn, and the cast *)
(* it names was receipted before this one.                                 *)
LineageIsBest ==
    \A n \in Node : result[n] = n =>
        /\ parent[n] = None <=> Sources(n) = {}
        /\ parent[n] # None =>
              /\ \E p \in Sources(n) : result[p] = parent[n]
              /\ \A p \in Sources(n) : LevelAt(p) <= level[parent[n]]
              /\ \E i, j \in 1 .. Len(receipts) :
                    /\ i < j /\ Done(i) /\ Done(j)
                    /\ receipts[i].node = parent[n] /\ receipts[j].node = n

(* node_results names casts that were made: a merge repeats the cast of a  *)
(* predecessor, a coherent one under either strategy if there is one.      *)
MergeTakesOver ==
    \A n \in Node : program[n].type = "MERGE" /\ result[n] # None =>
        /\ Casts(result[n]) /\ result[result[n]] = result[n]
        /\ \E p \in Sources(n) : result[p] = result[n]
        /\ (\E p \in Sources(n) : VerdictOf(LevelAt(p)) = "COHERENT")
              => VerdictOf(level[result[n]]) = "COHERENT"

(* A gate is passed if and only if one of its predecessors ends up with    *)
(* the verdict it asks for.                                                *)
GateTellsVerdict ==
    \A i \in 1 .. Len(receipts) :
        LET n == receipts[i].node IN
        program[n].type = "GATE" /\ Prepared(n) =>
            (Done(i) <=> \E p \in Predecessors(n) :
                            result[p] # None /\ VerdictOf(LevelAt(p)) = program[n].gate)

(* The results that nodes hand on come from casts that were made: by the   *)
(* lineage of a cast, by a merge and through a gate.                       *)
ResultsComeFromCasts == LineageIsBest /\ MergeTakesOver /\ GateTellsVerdict

(* Every program comes to its end, however its nodes are connected: it is  *)
(* turned away, or its loop visits every node or breaks at a failure; only *)
(* out of a condition that cannot be evaluated does the loop raise.        *)
ExecutionEnds ==
    <>(\/ status \in {"REJECTED", "REFUSED", "COMPLETED", "FAILED"}
       \/ status = "RAISED" /\ \E n \in Node : \E place \in {"pre", "post"} : Faulty(n, place))
=============================================================================
