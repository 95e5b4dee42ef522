------------------------ MODULE ProgramExecutionProofs ------------------------
(***************************************************************************)
(* Proofs about ProgramExecution, for every set of programs.               *)
(*                                                                         *)
(* The loop visits every node once, its predecessors before it.  So what   *)
(* is known of the predecessors of a visited node is known for good, and   *)
(* a property that speaks of a node and of its predecessors is settled in  *)
(* the turn of the node.  Loop states this order and what the receipts     *)
(* and the rollback queue have in common.                                  *)
(***************************************************************************)
EXTENDS ProgramExecution, ProgramOrder, FiniteSetTheorems, SequenceTheorems,
        WellFoundedInduction, TLAPS

-----------------------------------------------------------------------------
(* Numbers.                                                                *)

(* A set of numbers that is not empty has a least one (the first node      *)
(* listed).                                                                *)
LEMMA LeastNumber ==
    ASSUME NEW T \in SUBSET Nat, T # {}
    PROVE  \E x \in T : \A y \in T : x <= y
<1> DEFINE R == OpToRel(<, Nat)
<1>1. IsWellFoundedOn(R, Nat)
    BY NatLessThanWellFounded
<1>2. PICK x \in T : \A y \in T : ~ (<<y, x>> \in R)
    <2> HIDE DEF R
    <2> QED BY <1>1, WFMin
<1>3. \A y \in T : ~ (y < x)
    BY <1>2 DEF OpToRel
<1> QED BY <1>3

(* One with a bound has a greatest one (ORDER BY ... DESC).                *)
LEMMA GreatestNumber ==
    ASSUME NEW T \in SUBSET Nat, T # {}, NEW m \in Nat, \A x \in T : x <= m
    PROVE  \E x \in T : \A y \in T : y <= x
<1> DEFINE D == {m - x : x \in T}
<1>1. D \in SUBSET Nat /\ D # {}
  <2>1. \A x \in T : m - x \in Nat
      OBVIOUS
  <2>2. PICK x \in T : TRUE
      OBVIOUS
  <2>3. m - x \in D
      BY <2>2
  <2>4. ASSUME NEW d \in D PROVE d \in Nat
    <3>1. PICK y \in T : d = m - y
        OBVIOUS
    <3> QED BY <3>1, <2>1
  <2> HIDE DEF D
  <2> QED BY <2>3, <2>4
<1>2. PICK d \in D : \A e \in D : d <= e
    <2> HIDE DEF D
    <2> QED BY <1>1, LeastNumber
<1>3. PICK x \in T : d = m - x
    BY <1>2
<1>4. ASSUME NEW y \in T PROVE y <= x
    BY <1>2, <1>3
<1> QED BY <1>4

-----------------------------------------------------------------------------
\* A program that is executed names no unknown successor.
KnownInv == status \notin {"DRAFT", "REJECTED"} => Known

\* What the loop has found out about n when it attempts it.
Due(n) ==
    /\ status = "RUNNING"
    /\ n \notin visited
    /\ Predecessors(n) \subseteq visited
    /\ n \notin blocked
    /\ Prepared(n)
    /\ Casts(n)
    /\ failures < program[n].attempts

TurnInv ==
    /\ current # None => Due(current)
    /\ current = None => failures = 0

VisitInv == \A n \in visited : Predecessors(n) \subseteq visited

BlockInv == \A n \in Node : n \in blocked <=> Predecessors(n) \cap Skipped # {}

\* While no attempt has failed for good, only visited nodes have a receipt.
ReceiptInv ==
    \A i \in DOMAIN receipts :
        receipts[i].status \in {"OK", "SKIPPED"} => receipts[i].node \in visited

\* A result is a cast that was made.
ResultInv ==
    \A n \in Node : result[n] # None =>
        /\ n \in visited
        /\ result[n] \in visited
        /\ Casts(result[n])
        /\ result[result[n]] = result[n]
        /\ \E i \in DOMAIN receipts : Done(i) /\ receipts[i].node = result[n]

\* rollback_queue holds the nodes of CastReceipts, in their order.
QueuedIsCast == \A a \in DOMAIN queue : \E k \in CastReceipts : receipts[k].node = queue[a]
CastIsQueued == \A k \in CastReceipts : \E a \in DOMAIN queue : receipts[k].node = queue[a]
QueueInOrder ==
    \A a, b \in DOMAIN queue : \A k, l \in CastReceipts :
        a < b /\ receipts[k].node = queue[a] /\ receipts[l].node = queue[b] => k < l
QueueInv == QueuedIsCast /\ CastIsQueued /\ QueueInOrder

Loop ==
    /\ TypeOK
    /\ KnownInv
    /\ TurnInv
    /\ VisitInv
    /\ BlockInv
    /\ ReceiptInv
    /\ ResultInv
    /\ QueueInv

ExecutionInv == Loop /\ FailureRollsBack /\ SkipReachesOneStep /\ ResultsComeFromCasts

-----------------------------------------------------------------------------
(* The choices of the code.                                                *)

(* FirstOf is a member of a set of nodes that is not empty.                *)
LEMMA FirstIsMember ==
    ASSUME NEW S \in SUBSET Node, S # {}
    PROVE  FirstOf(S) \in S
<1>1. \E p \in S : \A q \in S : p <= q
    BY LeastNumber, ExecutionAssumption
<1> QED BY <1>1 DEF FirstOf

(* BestOf is a member of a set of nodes that is not empty, and none of     *)
(* them has a result of a higher level.                                    *)
LEMMA BestIsHighest ==
    ASSUME TypeOK, NEW S \in SUBSET Node, S # {},
           \A p \in S : result[p] # None
    PROVE  /\ BestOf(S) \in S
           /\ \A q \in S : LevelAt(q) <= LevelAt(BestOf(S))
<1> DEFINE T == {LevelAt(p) : p \in S}
<1>0. MaxLevel \in Nat
    BY ExecutionAssumption
<1>1. ASSUME NEW p \in S PROVE LevelAt(p) \in 0 .. MaxLevel
  <2>1. result[p] \in Node
      BY DEF TypeOK
  <2>2. level[result[p]] \in (1 .. MaxLevel) \cup {0}
      BY <2>1 DEF TypeOK, Level
  <2> QED BY <1>0, <2>2 DEF LevelAt
<1>2. T \in SUBSET Nat /\ T # {} /\ \A x \in T : x <= MaxLevel
  <2>1. \A p \in S : LevelAt(p) \in Nat /\ LevelAt(p) <= MaxLevel
      BY <1>0, <1>1
  <2> QED BY <2>1
<1>3. PICK h \in T : \A x \in T : x <= h
  <2> HIDE DEF T
  <2> QED BY <1>0, <1>2, GreatestNumber
<1> DEFINE H == {p \in S : LevelAt(p) = h}
<1>4. H \in SUBSET Nat /\ H # {}
    BY <1>3, ExecutionAssumption
<1>5. PICK b \in H : \A p \in H : b <= p
  <2> HIDE DEF H
  <2> QED BY <1>4, LeastNumber
<1>6. \A q \in S : LevelAt(b) > LevelAt(q) \/ (LevelAt(b) = LevelAt(q) /\ b <= q)
  <2> TAKE q \in S
  <2>1. LevelAt(q) <= h /\ LevelAt(q) \in Nat /\ h \in Nat /\ LevelAt(b) = h
      BY <1>1, <1>2, <1>3
  <2>2. CASE LevelAt(q) = h
      BY <2>1, <2>2, <1>5
  <2>3. CASE LevelAt(q) < h
      BY <2>1, <2>3
  <2> QED BY <2>1, <2>2, <2>3
<1> HIDE DEF T, H
<1>7. \E p \in S : \A q \in S : LevelAt(p) > LevelAt(q) \/ (LevelAt(p) = LevelAt(q) /\ p <= q)
    BY <1>6, <1>4 DEF H
<1>8. BestOf(S) \in S /\ \A q \in S : \/ LevelAt(BestOf(S)) > LevelAt(q)
                                      \/ LevelAt(BestOf(S)) = LevelAt(q)
    BY <1>7 DEF BestOf
<1> QED BY <1>8, <1>1

-----------------------------------------------------------------------------
(* The turn of a node.                                                     *)

(* Whether it is the first attempt or a later one, an attempt is made at a *)
(* node that is due.                                                       *)
LEMMA AttemptIsDue ==
    ASSUME TypeOK, TurnInv, NEW n \in Node, Attempting(n)
    PROVE  Due(n) /\ (current = None \/ current = n)
<1>0. n # None
    BY ExecutionAssumption DEF None
<1>1. CASE current = n
    BY <1>0, <1>1 DEF TurnInv
<1>2. CASE Turn(n) /\ n \notin blocked /\ Prepared(n) /\ program[n].type = "CAST"
  <2>1. failures = 0
      BY <1>2 DEF TurnInv, Turn
  <2>2. program[n].attempts \in 1 .. MaxAttempts
      BY DEF TypeOK, NodeSpec
  <2> QED BY <1>2, <2>1, <2>2, ExecutionAssumption DEF Due, Turn, Casts
<1> QED BY <1>1, <1>2 DEF Attempting, Judged

\* A step of the loop that is about n: other nodes keep what they have.
About(n) ==
    /\ status = "RUNNING"
    /\ n \notin visited
    /\ Predecessors(n) \subseteq visited
    /\ program' = program
    /\ \A m \in Node \ {n} :
          result'[m] = result[m] /\ level'[m] = level[m] /\ parent'[m] = parent[m]

\* At most one receipt is written, and it is of n.
Receipted(n) ==
    \/ receipts' = receipts
    \/ \E e \in Receipt : /\ e.node = n
                          /\ e.status \in {"OK", "SKIPPED"}
                          /\ receipts' = Append(receipts, e)

\* The step ends the turn of n.
Passes(n) ==
    /\ About(n)
    /\ Receipted(n)
    /\ visited' = visited \cup {n}
    /\ status' = "RUNNING"
    /\ current' = None
    /\ failures' = 0

(* The predecessors of a node whose turn has come, their results and the   *)
(* levels of these are what they will be at the end.                       *)
LEMMA PastIsSettled ==
    ASSUME TypeOK, ResultInv, NEW n \in Node, About(n),
           NEW m \in Node, Predecessors(m) \subseteq visited
    PROVE  /\ Predecessors(m)' = Predecessors(m)
           /\ Sources(m)' = Sources(m)
           /\ \A p \in Sources(m) : /\ result'[p] = result[p]
                                    /\ level'[result[p]] = level[result[p]]
           /\ Prepared(m)' <=> Prepared(m)
<1>1. Predecessors(m)' = Predecessors(m)
    BY DEF About, Predecessors
<1>2. \A p \in Predecessors(m) : p \in Node \ {n}
    BY DEF About, Predecessors
<1>3. \A p \in Predecessors(m) : result'[p] = result[p]
    BY <1>2 DEF About
<1>4. Sources(m)' = Sources(m)
    BY <1>1, <1>3 DEF Sources
<1>5. ASSUME NEW p \in Sources(m) PROVE level'[result[p]] = level[result[p]]
  <2>1. p \in Node /\ result[p] # None
      BY <1>2, <1>5 DEF Sources
  <2>2. result[p] \in Node \ {n}
      BY <2>1 DEF TypeOK, ResultInv, About
  <2> QED BY <2>2 DEF About
<1>6. Prepared(m)' <=> Prepared(m)
    BY <1>4 DEF Prepared, About
<1> QED BY <1>1, <1>3, <1>4, <1>5, <1>6 DEF Sources

(* The receipts that were there stay, and a new one is the last.           *)
LEMMA ReceiptsGrow ==
    ASSUME TypeOK, NEW n \in Node, Receipted(n)
    PROVE  /\ receipts' \in Seq(Receipt)
           /\ DOMAIN receipts = 1 .. Len(receipts)
           /\ DOMAIN receipts' = 1 .. Len(receipts')
           /\ Len(receipts') \in {Len(receipts), Len(receipts) + 1}
           /\ \A i \in DOMAIN receipts : i \in DOMAIN receipts' /\ receipts'[i] = receipts[i]
           /\ \A i \in DOMAIN receipts' \ DOMAIN receipts :
                 /\ i = Len(receipts) + 1
                 /\ receipts'[i].node = n
                 /\ receipts'[i].status \in {"OK", "SKIPPED"}
<1>0. receipts \in Seq(Receipt)
    BY DEF TypeOK
<1>1. CASE receipts' = receipts
    BY <1>0, <1>1
<1>2. ASSUME NEW e \in Receipt, receipts' = Append(receipts, e),
             e.node = n, e.status \in {"OK", "SKIPPED"}
      PROVE  /\ receipts' \in Seq(Receipt)
             /\ DOMAIN receipts' = 1 .. Len(receipts) + 1
             /\ Len(receipts') = Len(receipts) + 1
             /\ \A i \in 1 .. Len(receipts) : receipts'[i] = receipts[i]
             /\ receipts'[Len(receipts) + 1] = e
    BY <1>0, <1>2, AppendProperties
<1> QED BY <1>0, <1>1, <1>2 DEF Receipted

(* What follows from a turn of n, whatever it does.                        *)
LEMMA PassKeepsTheOrder ==
    ASSUME TypeOK, VisitInv, ReceiptInv, NEW n \in Node, Passes(n)
    PROVE  /\ VisitInv'
           /\ ReceiptInv'
           /\ \A i \in DOMAIN receipts : receipts[i].node = n =>
                 receipts[i].status \notin {"OK", "SKIPPED"}
<1>1. VisitInv'
  <2>1. \A m \in Node : Predecessors(m)' = Predecessors(m)
      BY DEF Passes, About, Predecessors
  <2>2. visited \subseteq Node
      BY DEF TypeOK
  <2> QED BY <2>1, <2>2 DEF VisitInv, Passes, About
<1>2. ReceiptInv'
  <2> SUFFICES ASSUME NEW i \in DOMAIN receipts',
                      receipts'[i].status \in {"OK", "SKIPPED"}
               PROVE  receipts'[i].node \in visited'
      BY DEF ReceiptInv
  <2>1. CASE i \in DOMAIN receipts
    <3>1. receipts'[i] = receipts[i]
        BY <2>1, ReceiptsGrow DEF Passes
    <3> QED BY <2>1, <3>1 DEF ReceiptInv, Passes
  <2>2. CASE i \notin DOMAIN receipts
    <3>1. receipts'[i].node = n
        BY <2>2, ReceiptsGrow DEF Passes
    <3> QED BY <3>1 DEF Passes
  <2> QED BY <2>1, <2>2
<1> QED BY <1>1, <1>2 DEF ReceiptInv, Passes, About

(* Only n can come to be among the skipped, or among those with a receipt. *)
LEMMA PassLeavesTraces ==
    ASSUME TypeOK, NEW n \in Node, Passes(n)
    PROVE  /\ Skipped \subseteq Skipped' /\ Skipped' \subseteq Skipped \cup {n}
           /\ Traced \subseteq Traced' /\ Traced' \subseteq Traced \cup {n}
           /\ receipts' = receipts => Skipped' = Skipped /\ Traced' = Traced
           /\ \A e \in Receipt : receipts' = Append(receipts, e) =>
                 e.node \in Traced' /\ (e.status = "SKIPPED" => e.node \in Skipped')
<1>0. Receipted(n)
    BY DEF Passes
<1>1. Skipped \subseteq Skipped' /\ Traced \subseteq Traced'
    BY <1>0, ReceiptsGrow DEF Skipped, Traced
<1>2. Skipped' \subseteq Skipped \cup {n} /\ Traced' \subseteq Traced \cup {n}
  <2>1. ASSUME NEW i \in DOMAIN receipts', receipts'[i].node # n
        PROVE  i \in DOMAIN receipts /\ receipts'[i] = receipts[i]
      BY <1>0, <2>1, ReceiptsGrow
  <2> QED BY <1>0, <2>1, ReceiptsGrow DEF Skipped, Traced
<1>3. receipts' = receipts => Skipped' = Skipped /\ Traced' = Traced
    BY DEF Skipped, Traced
<1>4. ASSUME NEW e \in Receipt, receipts' = Append(receipts, e)
      PROVE  e.node \in Traced' /\ (e.status = "SKIPPED" => e.node \in Skipped')
  <2>1. receipts'[Len(receipts')] = e /\ Len(receipts') \in 1 .. Len(receipts')
      BY <1>4, AppendProperties DEF TypeOK
  <2> QED BY <2>1 DEF Skipped, Traced, Receipt
<1> QED BY <1>1, <1>2, <1>3, <1>4

(* If n is skipped, and only then, its successors are blocked.             *)
LEMMA PassBlocks ==
    ASSUME TypeOK, BlockInv, NEW n \in Node, Passes(n),
           \/ blocked' = blocked /\ Skipped' = Skipped
           \/ n \in Skipped' /\ blocked' = blocked \cup program[n].successors
    PROVE  BlockInv'
<1> SUFFICES ASSUME NEW m \in Node
             PROVE  m \in blocked' <=> Predecessors(m)' \cap Skipped' # {}
    BY DEF BlockInv
<1>1. Predecessors(m)' = Predecessors(m) /\ (n \in Predecessors(m) <=> m \in program[n].successors)
    BY DEF Passes, About, Predecessors
<1>2. m \in blocked <=> Predecessors(m) \cap Skipped # {}
    BY DEF BlockInv
<1>3. CASE blocked' = blocked /\ Skipped' = Skipped
    BY <1>1, <1>2, <1>3
<1>4. CASE n \in Skipped' /\ blocked' = blocked \cup program[n].successors
  <2>1. Skipped' = Skipped \cup {n}
      BY <1>4, PassLeavesTraces
  <2> HIDE DEF BlockInv, Skipped, Predecessors
  <2>2. m \in blocked' <=> m \in blocked \/ m \in program[n].successors
      BY <1>4
  <2>3. Predecessors(m)' \cap Skipped' # {} <=>
            Predecessors(m) \cap Skipped # {} \/ n \in Predecessors(m)
      BY <2>1, <1>1
  <2> QED BY <1>1, <1>2, <2>2, <2>3
<1> QED BY <1>3, <1>4

(* n has no result, the result of a predecessor, or its own cast.          *)
LEMMA PassGivesResult ==
    ASSUME TypeOK, ResultInv, NEW n \in Node, Passes(n),
           \/ result'[n] = None
           \/ \E q \in Sources(n) : result'[n] = result[q]
           \/ /\ result'[n] = n
              /\ Casts(n)
              /\ \E i \in DOMAIN receipts' : receipts'[i].status = "OK" /\ receipts'[i].node = n
    PROVE  ResultInv'
<1> DEFINE Made(r) == /\ r \in visited'
                      /\ program'[r].type = "CAST"
                      /\ result'[r] = r
                      /\ \E i \in DOMAIN receipts' :
                            receipts'[i].status = "OK" /\ receipts'[i].node = r
<1>1. ASSUME NEW m \in Node, result[m] # None
      PROVE  m \in visited /\ Made(result[m])
  <2> PICK r \in Node : r = result[m]
      BY <1>1 DEF TypeOK
  <2>1. /\ m \in visited /\ r \in visited /\ Casts(r) /\ result[r] = r
        /\ \E i \in DOMAIN receipts : Done(i) /\ receipts[i].node = r
      BY <1>1 DEF ResultInv
  <2>2. r # n /\ result'[r] = r /\ r \in visited' /\ program'[r].type = "CAST"
      BY <2>1 DEF Passes, About, Casts
  <2>3. PICK i \in DOMAIN receipts : Done(i) /\ receipts[i].node = r
      BY <2>1
  <2>4. i \in DOMAIN receipts' /\ receipts'[i] = receipts[i]
      BY ReceiptsGrow DEF Passes
  <2> QED BY <2>1, <2>2, <2>3, <2>4 DEF Done
<1>2. ASSUME NEW m \in Node \ {n}, result'[m] # None
      PROVE  m \in visited' /\ Made(result'[m])
  <2>1. result'[m] = result[m]
      BY DEF Passes, About
  <2> QED BY <1>1, <1>2, <2>1 DEF Passes
<1>3. ASSUME result'[n] # None
      PROVE  n \in visited' /\ Made(result'[n])
  <2>1. n \in visited'
      BY DEF Passes
  <2>2. CASE \E q \in Sources(n) : result'[n] = result[q]
    <3>1. PICK q \in Node : result[q] # None /\ result'[n] = result[q]
        BY <2>2 DEF Sources, Predecessors
    <3> QED BY <3>1, <1>1, <2>1
  <2>3. CASE /\ result'[n] = n
             /\ Casts(n)
             /\ \E i \in DOMAIN receipts' : receipts'[i].status = "OK" /\ receipts'[i].node = n
      BY <2>1, <2>3 DEF Casts, Passes, About
  <2> QED BY <1>3, <2>1, <2>2, <2>3
<1> QED BY <1>2, <1>3 DEF ResultInv, Done, Casts

-----------------------------------------------------------------------------
(* What the properties say, node by node, and how a turn settles it.       *)

SkipAt(n) ==
    IF Predecessors(n) \cap Skipped # {}
    THEN n \notin Traced /\ result[n] = None
    ELSE n \in Traced \/ (program[n].type = "MERGE" /\ Sources(n) = {})

(* A node that the loop has not visited has no receipt before a failure.   *)
LEMMA RunningReceipts ==
    ASSUME TypeOK, FailureRollsBack, status # "FAILED"
    PROVE  \A i \in DOMAIN receipts : receipts[i].status \in {"OK", "SKIPPED"}
<1> SUFFICES ASSUME NEW i \in DOMAIN receipts
             PROVE  receipts[i].status \in {"OK", "SKIPPED"}
    OBVIOUS
<1>1. receipts[i] \in Receipt
    BY DEF TypeOK
<1> QED BY <1>1 DEF FailureRollsBack, Receipt

(* n is passed over with no trace if it is blocked, and only then, save a  *)
(* merge that has nothing to merge.                                        *)
LEMMA PassSkips ==
    ASSUME TypeOK, VisitInv, BlockInv, ReceiptInv, ResultInv, FailureRollsBack,
           SkipReachesOneStep, NEW n \in Node, Passes(n),
           IF n \in blocked THEN receipts' = receipts /\ result'[n] = None
           ELSE n \in Traced' \/ (program[n].type = "MERGE" /\ Sources(n) = {})
    PROVE  SkipReachesOneStep'
<1> SUFFICES ASSUME NEW m \in visited' PROVE SkipAt(m)'
    BY DEF SkipReachesOneStep, SkipAt
<1>0. m \in Node /\ Predecessors(m) \subseteq visited /\ n \notin Predecessors(m)
    BY DEF Passes, About, VisitInv, TypeOK
<1>1. Predecessors(m)' = Predecessors(m) /\ Sources(m)' = Sources(m)
    BY <1>0, PastIsSettled DEF Passes
<1>2. Predecessors(m)' \cap Skipped' = Predecessors(m) \cap Skipped
    BY <1>0, <1>1, PassLeavesTraces
<1>3. program' = program
    BY DEF Passes, About
<1>4. CASE m = n
  <2>1. n \notin Traced
    <3>1. ASSUME NEW i \in DOMAIN receipts PROVE receipts[i].node # n
        BY RunningReceipts, PassKeepsTheOrder DEF Passes, About
    <3> QED BY <3>1, ReceiptsGrow DEF Traced, Passes
  <2>2. n \in blocked <=> Predecessors(n) \cap Skipped # {}
      BY DEF BlockInv
  <2>3. receipts' = receipts => Traced' = Traced
      BY PassLeavesTraces
  <2> QED BY <1>1, <1>2, <1>3, <1>4, <2>1, <2>2, <2>3 DEF SkipAt
<1>5. CASE m # n
  <2>1. m \in visited /\ result'[m] = result[m]
      BY <1>0, <1>5 DEF Passes, About
  <2>2. m \in Traced' <=> m \in Traced
      BY <1>5, PassLeavesTraces
  <2>3. SkipAt(m)
      BY <2>1 DEF SkipReachesOneStep, SkipAt
  <2> QED BY <1>1, <1>2, <1>3, <2>1, <2>2, <2>3 DEF SkipAt
<1> QED BY <1>4, <1>5

(* A turn is no failure.                                                   *)
LEMMA PassIsNoFailure ==
    ASSUME TypeOK, FailureRollsBack, NEW n \in Node, Passes(n)
    PROVE  FailureRollsBack'
<1>1. \A i \in DOMAIN receipts' : receipts'[i].status \in {"OK", "SKIPPED"}
    BY RunningReceipts, ReceiptsGrow DEF Passes, About
<1>2. status' # "FAILED"
    BY DEF Passes
<1> QED BY <1>1, <1>2 DEF FailureRollsBack

LineageAt(n) ==
    result[n] = n =>
        /\ parent[n] = None <=> Sources(n) = {}
        /\ parent[n] # None =>
              /\ \E p \in Sources(n) : result[p] = parent[n]
              /\ \A p \in Sources(n) : LevelAt(p) <= level[parent[n]]
              /\ \E i, j \in 1 .. Len(receipts) :
                    /\ i < j /\ Done(i) /\ Done(j)
                    /\ receipts[i].node = parent[n] /\ receipts[j].node = n

\* Receipts are only appended.
Extended ==
    /\ Len(receipts) \in Nat /\ Len(receipts') \in Nat
    /\ \A i \in 1 .. Len(receipts) : i <= Len(receipts') /\ receipts'[i] = receipts[i]

(* The lineage of another node is what it was.                             *)
LEMMA LineageStays ==
    ASSUME TypeOK, VisitInv, ResultInv, NEW n \in Node, About(n), Extended,
           NEW m \in Node \ {n}, LineageAt(m)
    PROVE  LineageAt(m)'
<1> SUFFICES ASSUME result'[m] = m PROVE LineageAt(m)'
    BY DEF LineageAt
<1>1. /\ result[m] = m /\ parent'[m] = parent[m] /\ m \in visited
      /\ Predecessors(m) \subseteq visited
  <2>1. result[m] = m /\ parent'[m] = parent[m]
      BY DEF About
  <2>2. m # None
      BY ExecutionAssumption DEF None
  <2> QED BY <2>1, <2>2 DEF ResultInv, VisitInv
<1>2. /\ Sources(m)' = Sources(m)
      /\ \A p \in Sources(m) : result'[p] = result[p] /\ level'[result[p]] = level[result[p]]
    BY <1>1, PastIsSettled
<1>3. CASE parent[m] = None
    BY <1>1, <1>2, <1>3 DEF LineageAt
<1>4. CASE parent[m] # None
  <2>1. PICK q \in Sources(m) : result[q] = parent[m]
      BY <1>1, <1>4 DEF LineageAt
  <2>2. level'[parent[m]] = level[parent[m]]
      BY <1>2, <2>1
  <2>3. \A p \in Sources(m) : LevelAt(p) <= level[parent[m]]
      BY <1>1, <1>4 DEF LineageAt
  <2>4. \A p \in Sources(m)' : LevelAt(p)' <= level'[parent'[m]]
      BY <1>1, <1>2, <2>2, <2>3 DEF LevelAt
  <2>5. PICK i, j \in 1 .. Len(receipts) :
                    /\ i < j /\ Done(i) /\ Done(j)
                    /\ receipts[i].node = parent[m] /\ receipts[j].node = m
      BY <1>1, <1>4 DEF LineageAt
  <2>6. /\ i \in 1 .. Len(receipts') /\ receipts'[i] = receipts[i]
        /\ j \in 1 .. Len(receipts') /\ receipts'[j] = receipts[j]
      BY DEF Extended
  <2>7. Sources(m) # {}
      BY <2>1
  <2> QED BY <1>1, <1>2, <1>4, <2>1, <2>4, <2>5, <2>6, <2>7 DEF LineageAt, Done
<1> QED BY <1>3, <1>4

MergeAt(n) ==
    program[n].type = "MERGE" /\ result[n] # None =>
        /\ Casts(result[n]) /\ result[result[n]] = result[n]
        /\ \E p \in Sources(n) : result[p] = result[n]
        /\ (\E p \in Sources(n) : VerdictOf(LevelAt(p)) = "COHERENT")
              => VerdictOf(level[result[n]]) = "COHERENT"

(* What another merge has taken over is what it was.                       *)
LEMMA MergeStays ==
    ASSUME TypeOK, VisitInv, ResultInv, NEW n \in Node, About(n),
           NEW m \in Node \ {n}, MergeAt(m)
    PROVE  MergeAt(m)'
<1> SUFFICES ASSUME program'[m].type = "MERGE", result'[m] # None PROVE MergeAt(m)'
    BY DEF MergeAt
<1> PICK r : r = result[m]
    OBVIOUS
<1>1. /\ result'[m] = r /\ r # None /\ program' = program /\ program[m].type = "MERGE"
      /\ m \in visited /\ Predecessors(m) \subseteq visited
    BY DEF About, ResultInv, VisitInv
<1>2. /\ Sources(m)' = Sources(m)
      /\ \A p \in Sources(m) : result'[p] = result[p] /\ level'[result[p]] = level[result[p]]
    BY <1>1, PastIsSettled
<1>3. r \in Node \ {n} /\ result[r] = r
    BY <1>1 DEF ResultInv, TypeOK, About
<1>4. result'[r] = r /\ level'[r] = level[r]
    BY <1>3 DEF About
<1>5. /\ Casts(r)
      /\ \E p \in Sources(m) : result[p] = r
      /\ (\E p \in Sources(m) : VerdictOf(LevelAt(p)) = "COHERENT")
              => VerdictOf(level[r]) = "COHERENT"
    BY <1>1 DEF MergeAt
<1>6. program'[r].type = "CAST"
    BY <1>1, <1>5 DEF Casts
<1>7. \E p \in Sources(m)' : result'[p] = r
    BY <1>2, <1>5
<1>8. (\E p \in Sources(m)' : VerdictOf(level'[result'[p]]) = "COHERENT")
              => VerdictOf(level'[r]) = "COHERENT"
    BY <1>2, <1>4, <1>5 DEF LevelAt
<1> QED BY <1>1, <1>4, <1>6, <1>7, <1>8 DEF MergeAt, Casts, LevelAt

GateAt(i) ==
    LET n == receipts[i].node IN
    program[n].type = "GATE" /\ Prepared(n) =>
        (Done(i) <=> \E p \in Predecessors(n) :
                        result[p] # None /\ VerdictOf(LevelAt(p)) = program[n].gate)

(* The receipt of another gate still tells its verdict.                    *)
LEMMA GateStays ==
    ASSUME TypeOK, VisitInv, ReceiptInv, ResultInv, FailureRollsBack,
           NEW n \in Node, About(n),
           NEW i \in DOMAIN receipts, i \in DOMAIN receipts', receipts'[i] = receipts[i],
           GateAt(i)
    PROVE  GateAt(i)'
<1>0. receipts[i] \in Receipt
    BY DEF TypeOK
<1> PICK m \in Node : m = receipts[i].node
    BY <1>0 DEF Receipt
<1>1. m \in visited /\ Predecessors(m) \subseteq visited /\ m # n
    BY RunningReceipts DEF About, ReceiptInv, VisitInv
<1>2. /\ Predecessors(m)' = Predecessors(m)
      /\ Sources(m)' = Sources(m)
      /\ \A p \in Sources(m) : result'[p] = result[p] /\ level'[result[p]] = level[result[p]]
      /\ Prepared(m)' <=> Prepared(m)
    BY <1>1, PastIsSettled
<1>3. program' = program
    BY DEF About
<1>4. (\E p \in Predecessors(m)' : result'[p] # None /\ VerdictOf(level'[result'[p]]) = program'[m].gate)
      <=> \E p \in Predecessors(m) : result[p] # None /\ VerdictOf(LevelAt(p)) = program[m].gate
  <2>1. (\E p \in Predecessors(m) : result[p] # None /\ VerdictOf(LevelAt(p)) = program[m].gate)
        <=> \E p \in Sources(m) : VerdictOf(LevelAt(p)) = program[m].gate
      BY DEF Sources
  <2>2. (\E p \in Predecessors(m)' : result'[p] # None /\ VerdictOf(level'[result'[p]]) = program'[m].gate)
        <=> \E p \in Sources(m)' : VerdictOf(level'[result'[p]]) = program'[m].gate
      BY DEF Sources
  <2> QED BY <1>2, <1>3, <2>1, <2>2 DEF LevelAt
<1>5. program[m].type = "GATE" /\ Prepared(m) =>
        (Done(i) <=> \E p \in Predecessors(m) :
                        result[p] # None /\ VerdictOf(LevelAt(p)) = program[m].gate)
    BY DEF GateAt
<1>6. program'[m].type = "GATE" /\ Prepared(m)' =>
        (Done(i)' <=> \E p \in Predecessors(m)' :
                        result'[p] # None /\ VerdictOf(level'[result'[p]]) = program'[m].gate)
    BY <1>2, <1>3, <1>4, <1>5 DEF Done
<1> QED BY <1>6 DEF GateAt, LevelAt

-----------------------------------------------------------------------------
(* The rollback queue.                                                     *)

(* A turn that makes no cast leaves the queue as it is.                    *)
LEMMA QueueStays ==
    ASSUME TypeOK, QueueInv, NEW n \in Node, Receipted(n), queue' = queue, program' = program,
           \A i \in DOMAIN receipts' \ DOMAIN receipts :
              ~ (receipts'[i].status = "OK" /\ Casts(n))
    PROVE  QueueInv'
<1>1. CastReceipts' = CastReceipts
  <2>1. ASSUME NEW i \in DOMAIN receipts
        PROVE  i \in DOMAIN receipts' /\ receipts'[i] = receipts[i]
      BY ReceiptsGrow
  <2>2. ASSUME NEW i \in DOMAIN receipts' \ DOMAIN receipts
        PROVE  receipts'[i].node = n
      BY ReceiptsGrow
  <2> QED BY <2>1, <2>2 DEF CastReceipts, Done, Casts
<1>2. \A k \in CastReceipts : receipts'[k] = receipts[k]
    BY ReceiptsGrow DEF CastReceipts
<1> HIDE DEF CastReceipts
<1>3. QueuedIsCast'
    BY <1>1, <1>2 DEF QueueInv, QueuedIsCast
<1>4. CastIsQueued'
    BY <1>1, <1>2 DEF QueueInv, CastIsQueued
<1>5. QueueInOrder'
    BY <1>1, <1>2 DEF QueueInv, QueueInOrder
<1> QED BY <1>3, <1>4, <1>5 DEF QueueInv

\* A cast of n is queued, with the receipt e.
Queued(n, e) == queue' = Append(queue, n) /\ receipts' = Append(receipts, e)

(* A cast is queued with its receipt, behind all others.                   *)
LEMMA QueueGrows ==
    ASSUME TypeOK, QueueInv, ReceiptInv, NEW n \in Node, Casts(n), n \notin visited,
           NEW e \in Receipt, e.node = n, e.status = "OK", program' = program, Queued(n, e)
    PROVE  QueueInv'
<1> DEFINE c == Len(receipts) + 1
           b == Len(queue) + 1
<1>0. Len(receipts) \in Nat /\ Len(queue) \in Nat
    BY DEF TypeOK
<1>1. /\ DOMAIN receipts = 1 .. Len(receipts)
      /\ DOMAIN receipts' = 1 .. c
      /\ \A i \in DOMAIN receipts : receipts'[i] = receipts[i]
      /\ receipts'[c] = e
    BY AppendProperties DEF TypeOK, Queued
<1>2. /\ DOMAIN queue = 1 .. Len(queue)
      /\ DOMAIN queue' = 1 .. b
      /\ \A a \in DOMAIN queue : queue'[a] = queue[a]
      /\ queue'[b] = n
    BY AppendProperties DEF TypeOK, Queued
<1>3. CastReceipts' = CastReceipts \cup {c}
    BY <1>0, <1>1 DEF CastReceipts, Done, Casts
<1>4. \A k \in CastReceipts : k \in DOMAIN receipts /\ receipts[k].node # n /\ receipts'[k] = receipts[k] /\ k < c
    BY <1>0, <1>1 DEF CastReceipts, ReceiptInv, Done
<1>5. \A a \in DOMAIN queue : queue[a] # n /\ queue'[a] = queue[a] /\ a < b
  <2>1. \A a \in DOMAIN queue : queue[a] # n
      BY <1>4 DEF QueueInv, QueuedIsCast
  <2> QED BY <1>0, <1>2, <2>1
<1>6. DOMAIN queue' = DOMAIN queue \cup {b} /\ b \notin DOMAIN queue
    BY <1>0, <1>2
<1> HIDE DEF CastReceipts, c, b
<1>7. ASSUME NEW a \in DOMAIN queue'
      PROVE  \E k \in CastReceipts' : receipts'[k].node = queue'[a]
  <2>1. CASE a = b
      BY <1>1, <1>2, <1>3, <2>1
  <2>2. CASE a \in DOMAIN queue
    <3>1. PICK k \in CastReceipts : receipts[k].node = queue[a]
        BY <2>2 DEF QueueInv, QueuedIsCast
    <3> QED BY <1>3, <1>4, <1>5, <2>2, <3>1
  <2> QED BY <1>6, <2>1, <2>2
<1>8. ASSUME NEW k \in CastReceipts'
      PROVE  \E a \in DOMAIN queue' : receipts'[k].node = queue'[a]
  <2>1. CASE k = c
      BY <1>1, <1>2, <1>6, <2>1
  <2>2. CASE k \in CastReceipts
    <3>1. PICK a \in DOMAIN queue : receipts[k].node = queue[a]
        BY <2>2 DEF QueueInv, CastIsQueued
    <3> QED BY <1>4, <1>5, <1>6, <2>2, <3>1
  <2> QED BY <1>3, <2>1, <2>2
<1>9. ASSUME NEW x \in DOMAIN queue', NEW y \in DOMAIN queue',
             NEW k \in CastReceipts', NEW l \in CastReceipts',
             x < y, receipts'[k].node = queue'[x], receipts'[l].node = queue'[y]
      PROVE  k < l
  <2>0. x # b
      BY <1>0, <1>2, <1>6, <1>9 DEF b
  <2>1. x \in DOMAIN queue
      BY <1>6, <2>0
  <2>2. k \in CastReceipts
      BY <1>1, <1>3, <1>5, <1>9, <2>1
  <2>3. CASE y = b
    <3>1. l = c
        BY <1>2, <1>3, <1>4, <1>9, <2>3
    <3> QED BY <1>4, <2>2, <3>1
  <2>4. CASE y \in DOMAIN queue
    <3>1. l \in CastReceipts
        BY <1>1, <1>3, <1>5, <1>9, <2>4
    <3>2. receipts[k].node = queue[x] /\ receipts[l].node = queue[y]
        BY <1>4, <1>5, <1>9, <2>1, <2>2, <2>4, <3>1
    <3> QED BY <1>9, <2>1, <2>2, <2>4, <3>1, <3>2 DEF QueueInv, QueueInOrder
  <2> QED BY <1>6, <2>3, <2>4
<1>10. QueuedIsCast' /\ CastIsQueued'
    BY <1>7, <1>8 DEF QueuedIsCast, CastIsQueued
<1>11. QueueInOrder'
    BY <1>9 DEF QueueInOrder
<1> QED BY <1>10, <1>11 DEF QueueInv

-----------------------------------------------------------------------------
(* The handlers of the loop.                                               *)

(* ResultsComeFromCasts, taken apart into nodes and receipts.              *)
LEMMA ResultsNodeByNode ==
    ResultsComeFromCasts <=> /\ \A n \in Node : LineageAt(n) /\ MergeAt(n)
                             /\ \A i \in 1 .. Len(receipts) : GateAt(i)
BY DEF ResultsComeFromCasts, LineageIsBest, MergeTakesOver, GateTellsVerdict,
       LineageAt, MergeAt, GateAt

(* A turn that settles its own node settles everything.                    *)
LEMMA PassSettles ==
    ASSUME ExecutionInv, TypeOK', NEW n \in Node, Passes(n),
           SkipReachesOneStep', BlockInv', ResultInv', QueueInv',
           LineageAt(n)', MergeAt(n)',
           \A i \in DOMAIN receipts' \ DOMAIN receipts : GateAt(i)'
    PROVE  ExecutionInv'
<1>1. /\ TypeOK /\ VisitInv /\ ReceiptInv /\ ResultInv /\ KnownInv /\ FailureRollsBack
      /\ About(n) /\ Receipted(n)
    BY DEF ExecutionInv, Loop, Passes
<1>2. VisitInv' /\ ReceiptInv'
    BY <1>1, PassKeepsTheOrder
<1>3. KnownInv' /\ TurnInv'
    BY <1>1 DEF KnownInv, Known, TurnInv, Passes, About
<1>4. FailureRollsBack'
    BY <1>1, PassIsNoFailure
<1>5. Extended
    BY <1>1, ReceiptsGrow DEF Extended, TypeOK
<1>6. ASSUME NEW m \in Node PROVE LineageAt(m)' /\ MergeAt(m)'
  <2>1. CASE m = n
      BY <2>1
  <2>2. CASE m # n
    <3>1. LineageAt(m) /\ MergeAt(m) /\ m \in Node \ {n}
        BY <2>2, ResultsNodeByNode DEF ExecutionInv
    <3> QED BY <1>1, <1>5, <3>1, LineageStays, MergeStays
  <2> QED BY <2>1, <2>2
<1>7. ASSUME NEW i \in 1 .. Len(receipts') PROVE GateAt(i)'
  <2>0. DOMAIN receipts = 1 .. Len(receipts) /\ DOMAIN receipts' = 1 .. Len(receipts')
      BY <1>1, ReceiptsGrow
  <2>1. CASE i \in DOMAIN receipts
    <3>1. i \in DOMAIN receipts' /\ receipts'[i] = receipts[i] /\ GateAt(i)
        BY <1>1, <2>0, <2>1, ReceiptsGrow, ResultsNodeByNode DEF ExecutionInv
    <3> QED BY <1>1, <2>1, <3>1, GateStays
  <2>2. CASE i \notin DOMAIN receipts
      BY <2>0, <2>2
  <2> QED BY <2>1, <2>2
<1>8. ResultsComeFromCasts'
  <2>1. /\ \A m \in Node : LineageAt(m)' /\ MergeAt(m)'
        /\ \A i \in 1 .. Len(receipts') : GateAt(i)'
      BY <1>6, <1>7
  <2> QED BY <2>1 DEF ResultsComeFromCasts, LineageIsBest, MergeTakesOver, GateTellsVerdict,
                      LineageAt, MergeAt, GateAt
<1> QED BY <1>2, <1>3, <1>4, <1>8 DEF ExecutionInv, Loop

(* A node that is visited for the first time has no result yet.            *)
LEMMA UnvisitedIsBare ==
    ASSUME ExecutionInv, NEW n \in Node, Turn(n)
    PROVE  /\ result[n] = None
           /\ current = None /\ failures = 0
           /\ n # None
           /\ n \in blocked <=> Predecessors(n) \cap Skipped # {}
<1>1. n # None
    BY ExecutionAssumption DEF None
<1> QED BY <1>1 DEF ExecutionInv, Loop, ResultInv, TurnInv, BlockInv, Turn

(* The turn of a node that gets no result.                                 *)
LEMMA BareTurn ==
    ASSUME ExecutionInv, TypeOK', NEW n \in Node, Turn(n), Passes(n), result' = result,
           SkipReachesOneStep', BlockInv', QueueInv',
           \A i \in DOMAIN receipts' \ DOMAIN receipts : GateAt(i)'
    PROVE  ExecutionInv'
<1>1. result'[n] = None /\ n # None
    BY UnvisitedIsBare
<1>2. ResultInv'
    BY <1>1, PassGivesResult DEF ExecutionInv, Loop
<1>3. LineageAt(n)' /\ MergeAt(n)'
    BY <1>1 DEF LineageAt, MergeAt
<1> QED BY <1>2, <1>3, PassSettles

(* A blocked node is passed over.                                          *)
LEMMA PassOverKeeps ==
    ASSUME ExecutionInv, NEW n \in Node, PassOver(n)
    PROVE  ExecutionInv'
<1>1. /\ Turn(n) /\ n \in blocked /\ visited' = visited \cup {n}
      /\ UNCHANGED <<program, blocked, result, level, parent, queue, receipts, current,
                     failures, status>>
    BY DEF PassOver, Leave, trail
<1>2. TypeOK /\ TypeOK'
    BY <1>1 DEF ExecutionInv, Loop, TypeOK
<1>3. result[n] = None /\ current = None /\ failures = 0
    BY <1>1, UnvisitedIsBare
<1>4. Passes(n)
    BY <1>1, <1>3 DEF Passes, About, Receipted, Turn
<1>5. Skipped' = Skipped
    BY <1>1 DEF Skipped
<1>6. BlockInv'
    BY <1>1, <1>2, <1>4, <1>5, PassBlocks DEF ExecutionInv, Loop
<1>7. QueueInv'
    BY <1>1, <1>2, <1>4, QueueStays DEF ExecutionInv, Loop, Passes
<1>8. SkipReachesOneStep'
    BY <1>1, <1>3, <1>4, PassSkips DEF ExecutionInv, Loop
<1> QED BY <1>1, <1>2, <1>4, <1>6, <1>7, <1>8, BareTurn

\* n gets a receipt and no result.
Marks(n, s) ==
    /\ Turn(n)
    /\ n \notin blocked
    /\ visited' = visited \cup {n}
    /\ receipts' = Append(receipts, Entry(n, s, 0))
    /\ blocked' = IF s = "SKIPPED" THEN blocked \cup program[n].successors ELSE blocked
    /\ UNCHANGED <<program, result, level, parent, queue, current, failures, status>>

(* An entry for n is a receipt.                                            *)
LEMMA EntryIsReceipt ==
    ASSUME TypeOK, NEW n \in Node, NEW s \in {"OK", "SKIPPED"}, NEW r \in 0 .. program[n].attempts - 1
    PROVE  /\ Entry(n, s, r) \in Receipt
           /\ Entry(n, s, r).node = n
           /\ Entry(n, s, r).status = s
<1>1. program[n].attempts \in 1 .. MaxAttempts
    BY DEF TypeOK, NodeSpec
<1>2. r \in 0 .. MaxAttempts - 1
    BY <1>1, ExecutionAssumption
<1> QED BY <1>2 DEF Entry, Receipt

(* A refused node, and a gate, leave a receipt and no result.              *)
LEMMA MarkKeeps ==
    ASSUME ExecutionInv, NEW n \in Node, NEW s \in {"OK", "SKIPPED"}, Marks(n, s),
           s = "OK" => ~ Casts(n),
           program[n].type = "GATE" /\ Prepared(n) =>
              (s = "OK" <=> \E p \in Sources(n) : VerdictOf(LevelAt(p)) = program[n].gate)
    PROVE  ExecutionInv'
<1> PICK e : e = Entry(n, s, 0)
    OBVIOUS
<1>0. TypeOK /\ Turn(n) /\ n \notin blocked
    BY DEF ExecutionInv, Loop, Marks
<1>1. e \in Receipt /\ e.node = n /\ e.status = s
  <2>1. program[n].attempts \in 1 .. MaxAttempts
      BY <1>0 DEF TypeOK, NodeSpec
  <2>2. 0 \in 0 .. program[n].attempts - 1
      BY <2>1, ExecutionAssumption
  <2> QED BY <1>0, <2>2, EntryIsReceipt
<1>2. receipts' = Append(receipts, e)
    BY DEF Marks
<1>3. result[n] = None /\ current = None /\ failures = 0
    BY <1>0, UnvisitedIsBare
<1>4. Passes(n)
    BY <1>0, <1>1, <1>2, <1>3 DEF Passes, About, Receipted, Turn, Marks
<1>5. TypeOK'
  <2>1. program[n].successors \subseteq Node
      BY <1>0 DEF ExecutionInv, Loop, KnownInv, Known, Turn
  <2>2. blocked' \subseteq Node
      BY <1>0, <2>1 DEF TypeOK, Marks
  <2>3. receipts' \in Seq(Receipt)
      BY <1>0, <1>4, ReceiptsGrow DEF Passes
  <2> QED BY <1>0, <2>2, <2>3 DEF TypeOK, Marks
<1>6. /\ Len(receipts) + 1 \in DOMAIN receipts'
      /\ \A i \in DOMAIN receipts' \ DOMAIN receipts :
            receipts'[i] = e /\ i = Len(receipts) + 1
    BY <1>0, <1>1, <1>2, AppendProperties DEF TypeOK
<1>7. n \in Traced' /\ (s = "SKIPPED" => n \in Skipped')
    BY <1>0, <1>1, <1>2, <1>4, PassLeavesTraces
<1>8. s = "OK" => Skipped' = Skipped
    BY <1>0, <1>1, <1>4, <1>6, ReceiptsGrow DEF Skipped, Passes
<1>9. BlockInv'
    BY <1>0, <1>4, <1>7, <1>8, PassBlocks DEF ExecutionInv, Loop, Marks
<1>10. QueueInv'
    BY <1>0, <1>1, <1>4, <1>6, QueueStays DEF ExecutionInv, Loop, Marks, Passes
<1>11. SkipReachesOneStep'
    BY <1>0, <1>4, <1>7, PassSkips DEF ExecutionInv, Loop
<1>12. ASSUME NEW i \in DOMAIN receipts' \ DOMAIN receipts PROVE GateAt(i)'
  <2>1. receipts'[i].node = n /\ receipts'[i].status = s
      BY <1>1, <1>6
  <2>2. /\ Predecessors(n)' = Predecessors(n) /\ Sources(n)' = Sources(n)
        /\ Prepared(n)' <=> Prepared(n)
      BY <1>0, <1>4, PastIsSettled DEF ExecutionInv, Loop, Passes, Turn
  <2>3. \A p \in Predecessors(n) : p \in Sources(n) <=> result[p] # None
      BY DEF Sources
  <2>4. Sources(n) \subseteq Predecessors(n)
      BY DEF Sources
  <2>5. program' = program /\ result' = result /\ level' = level
      BY DEF Marks
  <2>6. program'[n].type = "GATE" /\ Prepared(n)' =>
           (s = "OK" <=> \E p \in Predecessors(n)' :
                result'[p] # None /\ VerdictOf(level'[result'[p]]) = program'[n].gate)
      BY <2>2, <2>3, <2>4, <2>5 DEF LevelAt
  <2> QED BY <2>1, <2>6 DEF GateAt, Done, LevelAt
<1>13. result' = result
    BY DEF Marks
<1> QED BY <1>0, <1>4, <1>5, <1>9, <1>10, <1>11, <1>12, <1>13, BareTurn

(* precondition_failed                                                     *)
LEMMA RefuseKeeps ==
    ASSUME ExecutionInv, NEW n \in Node, Refuse(n)
    PROVE  ExecutionInv'
<1>1. Marks(n, "SKIPPED") /\ ~ Prepared(n)
    BY DEF Refuse, Judged, Marks, Leave, Block, trail
<1> QED BY <1>1, MarkKeeps

(* A gate, open or closed.                                                 *)
LEMMA GateKeeps ==
    ASSUME ExecutionInv, NEW n \in Node, Gate(n)
    PROVE  ExecutionInv'
<1>1. ~ Casts(n)
    BY DEF Gate, Judged, Casts
<1>2. CASE Opens(n) /\ blocked' = blocked /\ receipts' = Append(receipts, Entry(n, "OK", 0))
  <2>1. Marks(n, "OK")
      BY <1>2 DEF Gate, Judged, Marks, Leave, trail
  <2> QED BY <1>1, <1>2, <2>1, MarkKeeps DEF Opens
<1>3. CASE ~ Opens(n) /\ Block(n) /\ receipts' = Append(receipts, Entry(n, "SKIPPED", 0))
  <2>1. Marks(n, "SKIPPED")
      BY <1>3 DEF Gate, Judged, Marks, Leave, Block, trail
  <2> QED BY <1>1, <1>3, <2>1, MarkKeeps DEF Opens
<1> QED BY <1>2, <1>3 DEF Gate, Judged

(* A merge takes over the result of a predecessor that has one, and of a   *)
(* coherent one if there is any.                                           *)
LEMMA MergedIsCoherent ==
    ASSUME TypeOK, NEW n \in Node, Sources(n) # {}
    PROVE  /\ Merged(n) \in Sources(n)
           /\ (\E p \in Sources(n) : VerdictOf(LevelAt(p)) = "COHERENT")
                 => VerdictOf(LevelAt(Merged(n))) = "COHERENT"
<1> DEFINE coherent == {p \in Sources(n) : VerdictOf(LevelAt(p)) = "COHERENT"}
<1>0. Sources(n) \subseteq Node /\ \A p \in Sources(n) : result[p] # None
    BY DEF Sources, Predecessors
<1>1. CASE program[n].merge = "FIRST_COHERENT" /\ coherent # {}
  <2>1. Merged(n) = FirstOf(coherent)
      BY <1>1 DEF Merged
  <2>2. coherent \in SUBSET Node
      BY <1>0
  <2>3. FirstOf(coherent) \in coherent
    <3> HIDE DEF coherent
    <3> QED BY <1>1, <2>2, FirstIsMember
  <2> QED BY <2>1, <2>3
<1>2. CASE program[n].merge = "FIRST_COHERENT" /\ coherent = {}
  <2>1. Merged(n) = FirstOf(Sources(n))
      BY <1>2 DEF Merged
  <2> QED BY <1>0, <1>2, <2>1, FirstIsMember
<1>3. CASE program[n].merge # "FIRST_COHERENT"
  <2>1. Merged(n) = BestOf(Sources(n))
      BY <1>3 DEF Merged
  <2>2. /\ Merged(n) \in Sources(n)
        /\ \A q \in Sources(n) : LevelAt(q) <= LevelAt(Merged(n))
      BY <1>0, <2>1, BestIsHighest
  <2>3. \A q \in Sources(n) : LevelAt(q) \in Nat
    <3> SUFFICES ASSUME NEW q \in Sources(n) PROVE LevelAt(q) \in Nat
        OBVIOUS
    <3>1. result[q] \in Node
        BY <1>0 DEF TypeOK
    <3>2. level[result[q]] \in (1 .. MaxLevel) \cup {0}
        BY <3>1 DEF TypeOK, Level
    <3> QED BY <3>2 DEF LevelAt
  <2>4. CoherentFrom \in Nat
      BY ExecutionAssumption
  <2> QED BY <2>2, <2>3, <2>4 DEF VerdictOf
<1> QED BY <1>1, <1>2, <1>3

(* A merge that has something to merge takes over a cast of a predecessor. *)
LEMMA MergeTakes ==
    ASSUME ExecutionInv, NEW n \in Node, Turn(n), n \notin blocked, program[n].type = "MERGE",
           Sources(n) # {}, visited' = visited \cup {n},
           result' = [result EXCEPT ![n] = result[Merged(n)]],
           receipts' = Append(receipts, Entry(n, "OK", 0)),
           UNCHANGED <<program, blocked, level, parent, queue, current, failures, status>>
    PROVE  ExecutionInv'
<1> PICK e : e = Entry(n, "OK", 0)
    OBVIOUS
<1> PICK q : q = Merged(n)
    OBVIOUS
<1>0. TypeOK /\ VisitInv /\ ResultInv
    BY DEF ExecutionInv, Loop
<1>1. e \in Receipt /\ e.node = n /\ e.status = "OK"
  <2>1. program[n].attempts \in 1 .. MaxAttempts
      BY <1>0 DEF TypeOK, NodeSpec
  <2>2. 0 \in 0 .. program[n].attempts - 1
      BY <2>1, ExecutionAssumption
  <2> QED BY <1>0, <2>2, EntryIsReceipt
<1>2. /\ q \in Sources(n)
      /\ (\E p \in Sources(n) : VerdictOf(LevelAt(p)) = "COHERENT")
            => VerdictOf(LevelAt(q)) = "COHERENT"
    BY <1>0, MergedIsCoherent
<1> PICK r : r = result[q]
    OBVIOUS
<1>3. q \in Node /\ r \in Node /\ r # None
    BY <1>0, <1>2 DEF Sources, Predecessors, TypeOK
<1>4. n # None /\ current = None /\ failures = 0 /\ result[n] = None
    BY UnvisitedIsBare
<1>5. result'[n] = r /\ \A m \in Node \ {n} : result'[m] = result[m]
    BY <1>0 DEF TypeOK
<1>6. Passes(n)
    BY <1>1, <1>4, <1>5 DEF Passes, About, Receipted, Turn
<1>7. TypeOK'
  <2>1. receipts' \in Seq(Receipt)
      BY <1>0, <1>6, ReceiptsGrow DEF Passes
  <2>2. result' \in [Node -> Node \cup {None}]
      BY <1>0, <1>3 DEF TypeOK
  <2> QED BY <1>0, <2>1, <2>2 DEF TypeOK
<1>8. \A i \in DOMAIN receipts' \ DOMAIN receipts : receipts'[i] = e
    BY <1>0, <1>1, AppendProperties DEF TypeOK
<1>9. n \in Traced'
    BY <1>0, <1>1, <1>6, PassLeavesTraces
<1>10. Skipped' = Skipped
    BY <1>0, <1>1, <1>6, <1>8, ReceiptsGrow DEF Skipped, Passes
<1>11. BlockInv'
    BY <1>0, <1>6, <1>10, PassBlocks DEF ExecutionInv, Loop
<1>12. QueueInv'
    BY <1>0, <1>6, QueueStays DEF ExecutionInv, Loop, Passes, Casts
<1>13. SkipReachesOneStep'
    BY <1>0, <1>6, <1>9, PassSkips DEF ExecutionInv, Loop
<1>14. ResultInv'
    BY <1>0, <1>2, <1>5, <1>6, PassGivesResult
<1>15. /\ Sources(n)' = Sources(n)
       /\ \A p \in Sources(n) : result'[p] = result[p] /\ level'[result[p]] = level[result[p]]
    BY <1>0, <1>6, PastIsSettled DEF Passes, Turn
<1>16. r \in visited /\ r # n /\ Casts(r) /\ result[r] = r
    BY <1>0, <1>3 DEF ResultInv, Turn
<1>17. LineageAt(n)'
    BY <1>5, <1>16 DEF LineageAt
<1>18. MergeAt(n)'
  <2>1. result'[q] = r /\ result'[r] = r /\ program'[r].type = "CAST"
      BY <1>2, <1>3, <1>5, <1>15, <1>16 DEF Casts
  <2>2. (\E p \in Sources(n)' : VerdictOf(level'[result'[p]]) = "COHERENT")
            => VerdictOf(level'[r]) = "COHERENT"
      BY <1>2, <1>15 DEF LevelAt
  <2> QED BY <1>2, <1>5, <1>15, <2>1, <2>2 DEF MergeAt, Casts, LevelAt
<1>19. \A i \in DOMAIN receipts' \ DOMAIN receipts : GateAt(i)'
    BY <1>1, <1>8 DEF GateAt
<1> QED BY <1>6, <1>7, <1>11, <1>12, <1>13, <1>14, <1>17, <1>18, <1>19, PassSettles

(* A merge, with or without something to merge.                            *)
LEMMA MergeKeeps ==
    ASSUME ExecutionInv, NEW n \in Node, Merge(n)
    PROVE  ExecutionInv'
<1>1. CASE Sources(n) = {} /\ UNCHANGED <<result, receipts>>
  <2>1. /\ Turn(n) /\ n \notin blocked /\ visited' = visited \cup {n}
        /\ program[n].type = "MERGE"
        /\ UNCHANGED <<program, blocked, result, level, parent, queue, receipts, current,
                       failures, status>>
      BY <1>1 DEF Merge, Judged, Leave
  <2>2. TypeOK /\ TypeOK'
      BY <2>1 DEF ExecutionInv, Loop, TypeOK
  <2>3. result[n] = None /\ current = None /\ failures = 0
      BY <2>1, UnvisitedIsBare
  <2>4. Passes(n)
      BY <2>1, <2>3 DEF Passes, About, Receipted, Turn
  <2>5. Skipped' = Skipped
      BY <2>1 DEF Skipped
  <2>6. BlockInv'
      BY <2>1, <2>2, <2>4, <2>5, PassBlocks DEF ExecutionInv, Loop
  <2>7. QueueInv'
      BY <2>1, <2>2, <2>4, QueueStays DEF ExecutionInv, Loop, Passes
  <2>8. SkipReachesOneStep'
      BY <1>1, <2>1, <2>4, PassSkips DEF ExecutionInv, Loop
  <2> QED BY <2>1, <2>2, <2>4, <2>6, <2>7, <2>8, BareTurn
<1>2. CASE /\ Sources(n) # {}
           /\ result' = [result EXCEPT ![n] = result[Merged(n)]]
           /\ receipts' = Append(receipts, Entry(n, "OK", 0))
    BY <1>2, MergeTakes DEF Merge, Judged, Leave
<1> QED BY <1>1, <1>2 DEF Merge, Judged

(* The parent of a cast is a cast that has a receipt, and no predecessor   *)
(* has a result of a higher level.                                         *)
LEMMA ParentIsBest ==
    ASSUME TypeOK, ResultInv, NEW n \in Node
    PROVE  \/ Sources(n) = {} /\ ParentOf(n) = None
           \/ \E p \in Sources(n) :
                 /\ ParentOf(n) = result[p] /\ result[p] # None
                 /\ \A q \in Sources(n) : LevelAt(q) <= level[result[p]]
                 /\ \E i \in DOMAIN receipts : Done(i) /\ receipts[i].node = result[p]
<1>1. CASE Sources(n) = {}
    BY <1>1 DEF ParentOf
<1>2. CASE Sources(n) # {}
  <2> DEFINE b == BestOf(Sources(n))
  <2>1. Sources(n) \in SUBSET Node /\ \A p \in Sources(n) : result[p] # None
      BY DEF Sources, Predecessors
  <2>2. b \in Sources(n) /\ \A q \in Sources(n) : LevelAt(q) <= LevelAt(b)
      BY <1>2, <2>1, BestIsHighest
  <2>3. ParentOf(n) = result[b]
      BY <1>2 DEF ParentOf
  <2>4. \E i \in DOMAIN receipts : Done(i) /\ receipts[i].node = result[b]
      BY <2>1, <2>2 DEF ResultInv
  <2> HIDE DEF b
  <2> QED BY <2>1, <2>2, <2>3, <2>4 DEF LevelAt
<1> QED BY <1>1, <1>2

(* The engine returned a cast.                                             *)
LEMMA SucceedKeeps ==
    ASSUME ExecutionInv, NEW n \in Node, NEW l \in Level, Succeed(n, l)
    PROVE  ExecutionInv'
<1> PICK e : e = Entry(n, "OK", Retries)
    OBVIOUS
<1>0. TypeOK /\ VisitInv /\ ResultInv /\ TurnInv /\ ReceiptInv /\ QueueInv
    BY DEF ExecutionInv, Loop
<1>a. Due(n)
    BY <1>0, AttemptIsDue DEF Succeed
<1>b. /\ n # None
      /\ n \notin visited
      /\ Predecessors(n) \subseteq visited
      /\ result[n] = None
    BY <1>0, <1>a, ExecutionAssumption DEF Due, ResultInv, None
<1>1. e \in Receipt /\ e.node = n /\ e.status = "OK"
  <2>1. program[n].attempts \in 1 .. MaxAttempts /\ failures \in 0 .. MaxAttempts
      BY <1>0 DEF TypeOK, NodeSpec
  <2>2. failures \in 0 .. program[n].attempts - 1
      BY <1>a, <2>1, ExecutionAssumption DEF Due
  <2> QED BY <1>0, <2>2, EntryIsReceipt DEF Retries
<1>2. Queued(n, e)
    BY DEF Succeed, Queued
<1>3. /\ result' = [result EXCEPT ![n] = n]
      /\ level' = [level EXCEPT ![n] = l]
      /\ parent' = [parent EXCEPT ![n] = ParentOf(n)]
      /\ receipts' = Append(receipts, e)
      /\ visited' = visited \cup {n} /\ current' = None /\ failures' = 0
      /\ UNCHANGED <<program, blocked, status>>
    BY DEF Succeed, Descends, Leave
<1>4. /\ result'[n] = n /\ level'[n] = l /\ parent'[n] = ParentOf(n)
      /\ \A m \in Node \ {n} :
            result'[m] = result[m] /\ level'[m] = level[m] /\ parent'[m] = parent[m]
    BY <1>0, <1>3 DEF TypeOK
<1>5. Passes(n)
    BY <1>1, <1>3, <1>4, <1>a DEF Passes, About, Receipted, Due
<1>6. \/ Sources(n) = {} /\ ParentOf(n) = None
      \/ \E p \in Sources(n) :
                 /\ ParentOf(n) = result[p] /\ result[p] # None
                 /\ \A q \in Sources(n) : LevelAt(q) <= level[result[p]]
                 /\ \E i \in DOMAIN receipts : Done(i) /\ receipts[i].node = result[p]
    BY <1>0, ParentIsBest
<1>7. TypeOK'
  <2>1. receipts' \in Seq(Receipt)
      BY <1>0, <1>5, ReceiptsGrow DEF Passes
  <2>2. queue' \in Seq(Node)
      BY <1>0, <1>2, AppendProperties DEF TypeOK, Queued
  <2>3. ParentOf(n) \in Node \cup {None}
      BY <1>0, <1>6 DEF TypeOK, Sources, Predecessors
  <2>4. /\ result' \in [Node -> Node \cup {None}]
        /\ level' \in [Node -> Level \cup {0}]
        /\ parent' \in [Node -> Node \cup {None}]
      BY <1>0, <1>3, <2>3 DEF TypeOK
  <2>5. MaxAttempts \in Nat
      BY ExecutionAssumption
  <2> QED BY <1>0, <1>3, <2>1, <2>2, <2>4, <2>5 DEF TypeOK
<1>8. /\ DOMAIN receipts = 1 .. Len(receipts) /\ Len(receipts) \in Nat
      /\ DOMAIN receipts' = 1 .. Len(receipts) + 1 /\ Len(receipts') = Len(receipts) + 1
      /\ \A i \in DOMAIN receipts : receipts'[i] = receipts[i]
      /\ receipts'[Len(receipts) + 1] = e
    BY <1>0, <1>1, <1>3, AppendProperties DEF TypeOK
<1>9. \A i \in DOMAIN receipts' \ DOMAIN receipts : receipts'[i] = e
    BY <1>8
<1>10. n \in Traced'
    BY <1>0, <1>1, <1>3, <1>5, PassLeavesTraces
<1>11. Skipped' = Skipped
    BY <1>0, <1>1, <1>5, <1>9, ReceiptsGrow DEF Skipped, Passes
<1>12. BlockInv'
    BY <1>0, <1>3, <1>5, <1>11, PassBlocks DEF ExecutionInv, Loop
<1>13. QueueInv'
    BY <1>0, <1>1, <1>2, <1>3, <1>a, QueueGrows DEF Due
<1>14. SkipReachesOneStep'
    BY <1>0, <1>5, <1>10, <1>a, PassSkips DEF ExecutionInv, Loop, Due
<1>15. ResultInv'
    BY <1>0, <1>1, <1>4, <1>5, <1>8, <1>a, PassGivesResult DEF Due
<1>16. /\ Sources(n)' = Sources(n)
       /\ \A p \in Sources(n) : result'[p] = result[p] /\ level'[result[p]] = level[result[p]]
    BY <1>0, <1>5, <1>b, PastIsSettled DEF Passes
<1>17. LineageAt(n)'
  <2>1. CASE Sources(n) = {} /\ ParentOf(n) = None
      BY <1>4, <1>16, <2>1 DEF LineageAt
  <2>2. ASSUME NEW p \in Sources(n),
               ParentOf(n) = result[p], result[p] # None,
               \A q \in Sources(n) : LevelAt(q) <= level[result[p]],
               NEW i \in DOMAIN receipts, Done(i), receipts[i].node = result[p]
        PROVE  LineageAt(n)'
    <3> PICK r : r = result[p]
        OBVIOUS
    <3>1. parent'[n] = r /\ result'[p] = r /\ r # None /\ p \in Sources(n)'
        BY <1>4, <1>16, <2>2
    <3>2. \A q \in Sources(n)' : level'[result'[q]] <= level'[r]
        BY <1>16, <2>2 DEF LevelAt
    <3>3. /\ i \in 1 .. Len(receipts') /\ Len(receipts) + 1 \in 1 .. Len(receipts')
          /\ i < Len(receipts) + 1
          /\ receipts'[i].status = "OK" /\ receipts'[i].node = r
          /\ receipts'[Len(receipts) + 1].status = "OK"
          /\ receipts'[Len(receipts) + 1].node = n
        BY <1>1, <1>8, <2>2 DEF Done
    <3>4. \E k, j \in 1 .. Len(receipts') :
                    /\ k < j /\ receipts'[k].status = "OK" /\ receipts'[j].status = "OK"
                    /\ receipts'[k].node = r /\ receipts'[j].node = n
        BY <3>3
    <3>5. Sources(n)' # {}
        BY <3>1
    <3> QED BY <3>1, <3>2, <3>4, <3>5 DEF LineageAt, LevelAt, Done
  <2> QED BY <1>6, <2>1, <2>2
<1>18. MergeAt(n)'
    BY <1>3, <1>a DEF MergeAt, Due, Casts
<1>19. \A i \in DOMAIN receipts' \ DOMAIN receipts : GateAt(i)'
    BY <1>1, <1>3, <1>9, <1>a DEF GateAt, Due, Casts
<1> QED BY <1>5, <1>7, <1>12, <1>13, <1>14, <1>15, <1>17, <1>18, <1>19, PassSettles

(* Outside the loop, and in a retry, only the status and the attempt move. *)
LEMMA StillKeeps ==
    ASSUME ExecutionInv, TypeOK', KnownInv', TurnInv', status = "FAILED" <=> status' = "FAILED",
           UNCHANGED <<program, visited, blocked, result, level, parent, queue, receipts>>
    PROVE  ExecutionInv'
<1>1. VisitInv' /\ BlockInv' /\ ReceiptInv' /\ ResultInv'
    BY DEF ExecutionInv, Loop, VisitInv, BlockInv, ReceiptInv, ResultInv, Predecessors, Skipped,
           Casts, Done
<1>2. CastReceipts' = CastReceipts
    BY DEF CastReceipts, Done, Casts
<1>3. QueueInv'
    BY <1>2 DEF ExecutionInv, Loop, QueueInv, QueuedIsCast, CastIsQueued, QueueInOrder
<1>4. FailureRollsBack'
    BY <1>2 DEF ExecutionInv, FailureRollsBack
<1>5. \A n : Predecessors(n)' = Predecessors(n) /\ Sources(n)' = Sources(n)
    BY DEF Sources, Predecessors
<1>6. SkipReachesOneStep'
    BY <1>5 DEF ExecutionInv, SkipReachesOneStep, Skipped, Traced
<1>7. ResultsComeFromCasts'
  <2>1. LineageIsBest'
      BY <1>5 DEF ExecutionInv, ResultsComeFromCasts, LineageIsBest, LevelAt, Done
  <2>2. MergeTakesOver'
      BY <1>5 DEF ExecutionInv, ResultsComeFromCasts, MergeTakesOver, LevelAt, Casts
  <2>3. GateTellsVerdict'
      BY <1>5 DEF ExecutionInv, ResultsComeFromCasts, GateTellsVerdict, LevelAt, Done, Prepared
  <2> QED BY <2>1, <2>2, <2>3 DEF ResultsComeFromCasts
<1> QED BY <1>1, <1>3, <1>4, <1>6, <1>7 DEF ExecutionInv, Loop

(* The engine raised, and there is an attempt left.                        *)
LEMMA RetryKeeps ==
    ASSUME ExecutionInv, NEW n \in Node, Retry(n)
    PROVE  ExecutionInv'
<1>0. TypeOK /\ TurnInv /\ KnownInv
    BY DEF ExecutionInv, Loop
<1>1. /\ Due(n) /\ failures + 1 < program[n].attempts
      /\ current' = n /\ failures' = failures + 1
      /\ UNCHANGED <<program, visited, blocked, result, level, parent, queue, receipts, status>>
    BY <1>0, AttemptIsDue DEF Retry, trail
<1>2. failures + 1 \in 0 .. MaxAttempts
  <2>1. program[n].attempts \in 1 .. MaxAttempts /\ failures \in 0 .. MaxAttempts
      BY <1>0 DEF TypeOK, NodeSpec
  <2> QED BY <1>1, <2>1, ExecutionAssumption
<1>3. TypeOK'
    BY <1>0, <1>1, <1>2 DEF TypeOK
<1>4. Due(n)'
  <2>1. Predecessors(n)' = Predecessors(n) /\ Sources(n)' = Sources(n)
      BY <1>1 DEF Sources, Predecessors
  <2> QED BY <1>1, <2>1 DEF Due, Prepared, Casts
<1>5. TurnInv'
  <2>1. n # None
      BY ExecutionAssumption DEF None
  <2> QED BY <1>1, <1>4, <2>1 DEF TurnInv, Due
<1>6. KnownInv'
    BY <1>0, <1>1 DEF KnownInv, Known
<1> QED BY <1>1, <1>3, <1>5, <1>6, StillKeeps

(* compile_program, and execute_program before and after its loop.         *)
LEMMA CallKeeps ==
    ASSUME ExecutionInv, Compile \/ WriteProgram \/ Execute \/ Complete \/ UNCHANGED vars
    PROVE  ExecutionInv'
<1>0. TypeOK /\ TurnInv /\ KnownInv
    BY DEF ExecutionInv, Loop
<1>1. UNCHANGED <<program, visited, blocked, result, level, parent, queue, receipts, current,
                  failures>>
    BY DEF Compile, WriteProgram, Execute, Complete, trail, vars
<1>2. TypeOK' /\ (status = "FAILED" <=> status' = "FAILED")
    BY <1>0, <1>1 DEF TypeOK, Compile, WriteProgram, Execute, Complete, vars
<1>3. KnownInv'
  <2>1. Known' <=> Known
      BY <1>1 DEF Known
  <2>2. CASE Compile
      BY <2>1, <2>2 DEF Compile, Compilable, KnownInv
  <2>3. CASE WriteProgram \/ Execute \/ Complete \/ UNCHANGED vars
      BY <1>0, <2>1, <2>3 DEF WriteProgram, Execute, Complete, KnownInv, vars
  <2> QED BY <2>2, <2>3
<1>4. TurnInv'
  <2>1. CASE current = None
      BY <1>0, <1>1, <2>1 DEF TurnInv
  <2>2. CASE current # None
    <3>1. Due(current) /\ status = "RUNNING" /\ current \notin visited /\ current \in Node
        BY <1>0, <2>2 DEF TurnInv, Due, TypeOK
    <3>2. UNCHANGED vars
        BY <3>1 DEF Compile, WriteProgram, Execute, Complete
    <3>3. \A n \in Node : Due(n) => Due(n)'
      <4> TAKE n \in Node
      <4>1. Predecessors(n)' = Predecessors(n) /\ Sources(n)' = Sources(n)
          BY <1>1 DEF Sources, Predecessors
      <4> QED BY <1>1, <3>2, <4>1 DEF Due, Prepared, Casts, vars
    <3>4. PICK c \in Node : c = current
        BY <3>1
    <3>5. Due(c)' /\ current' = c
        BY <1>1, <3>1, <3>3, <3>4
    <3> QED BY <2>2, <3>4, <3>5 DEF TurnInv
  <2> QED BY <2>1, <2>2
<1> QED BY <1>1, <1>2, <1>3, <1>4, StillKeeps

\* A sequence with an element and more appended.
Joined(s, e, t) == Append(s, e) \o t

\* r is such a sequence, place by place.
IsJoined(r, S, s, e, t) ==
    /\ r \in Seq(S)
    /\ Len(r) = Len(s) + 1 + Len(t)
    /\ DOMAIN r = 1 .. Len(r)
    /\ \A i \in 1 .. Len(s) : r[i] = s[i]
    /\ r[Len(s) + 1] = e
    /\ \A d \in 1 .. Len(t) : r[Len(s) + 1 + d] = t[d]

(* What stands where when an element and more are appended.                *)
LEMMA AppendedTwice ==
    ASSUME NEW S, NEW s \in Seq(S), NEW e \in S, NEW t \in Seq(S)
    PROVE  IsJoined(Joined(s, e, t), S, s, e, t)
<1> PICK a : a = Append(s, e)
    OBVIOUS
<1> PICK f : f = Len(s) + 1
    OBVIOUS
<1>1. /\ a \in Seq(S) /\ Len(a) = f /\ a[f] = e /\ f \in Nat /\ Len(s) \in Nat
      /\ \A i \in 1 .. Len(s) : a[i] = s[i]
    BY AppendProperties
<1> PICK q : q = Len(t)
    OBVIOUS
<1>2. q \in Nat
    BY LenProperties
<1> PICK c : c = a \o t
    OBVIOUS
<1>3. /\ c \in Seq(S) /\ Len(c) = f + q
      /\ \A i \in 1 .. f + q : c[i] = IF i <= f THEN a[i] ELSE t[i - f]
  <2>1. /\ a \o t \in Seq(S)
        /\ Len(a \o t) = Len(a) + Len(t)
        /\ \A i \in 1 .. Len(a) + Len(t) :
              (a \o t)[i] = IF i <= Len(a) THEN a[i] ELSE t[i - Len(a)]
      BY <1>1, <1>2, ConcatProperties
  <2> QED BY <1>1, <1>2, <2>1
<1>4. \A i \in 1 .. f : c[i] = a[i]
    BY <1>1, <1>3
<1>5. ASSUME NEW d \in 1 .. q PROVE c[f + d] = t[d]
  <2>1. f + d \in 1 .. f + q /\ ~ (f + d <= f) /\ (f + d) - f = d
      BY <1>1
  <2> QED BY <1>3, <2>1
<1>6. Joined(s, e, t) = c
    BY DEF Joined
<1>7. DOMAIN c = 1 .. Len(c)
    BY <1>3
<1>8. Len(s) + 1 \in 1 .. f /\ \A i \in 1 .. Len(s) : i \in 1 .. f
    BY <1>1
<1>9. IsJoined(c, S, s, e, t)
  <2>1. \A i \in 1 .. Len(s) : c[i] = s[i]
      BY <1>1, <1>4, <1>8
  <2>2. c[Len(s) + 1] = e
      BY <1>1, <1>4, <1>8
  <2>3. \A d \in 1 .. Len(t) : c[Len(s) + 1 + d] = t[d]
      BY <1>5
  <2> QED BY <1>3, <1>7, <2>1, <2>2, <2>3 DEF IsJoined
<1> QED BY <1>6, <1>9

\* The last attempt at n fails: its receipt, and those of the rollback.
Breaks(n) == receipts' = Append(receipts, Entry(n, "FAILED", Retries)) \o RolledBack

(* The receipts of a failure: those there were, the one of n, and behind   *)
(* it the queue backwards.                                                 *)
LEMMA FailureReceipts ==
    ASSUME TypeOK, NEW n \in Node, Due(n), Breaks(n)
    PROVE  /\ receipts' \in Seq(Receipt)
           /\ DOMAIN receipts = 1 .. Len(receipts) /\ Len(receipts) \in Nat
           /\ DOMAIN queue = 1 .. Len(queue) /\ Len(queue) \in Nat
           /\ DOMAIN receipts' = 1 .. Len(receipts')
           /\ Len(receipts') = Len(receipts) + 1 + Len(queue)
           /\ \A i \in DOMAIN receipts : receipts'[i] = receipts[i]
           /\ receipts'[Len(receipts) + 1].node = n
           /\ receipts'[Len(receipts) + 1].status = "FAILED"
           /\ \A d \in 1 .. Len(queue) :
                 /\ receipts'[Len(receipts) + 1 + d].node = queue[Len(queue) - d + 1]
                 /\ receipts'[Len(receipts) + 1 + d].status = "ROLLED_BACK"
<1> PICK e : e = Entry(n, "FAILED", Retries)
    OBVIOUS
<1> PICK t : t = RolledBack
    OBVIOUS
<1> PICK q : q = Len(queue)
    OBVIOUS
<1>1. program[n].attempts \in 1 .. MaxAttempts /\ failures \in 0 .. MaxAttempts
    BY DEF TypeOK, NodeSpec
<1>2. failures \in 0 .. MaxAttempts - 1 /\ 0 \in 0 .. MaxAttempts - 1
    BY <1>1, ExecutionAssumption DEF Due
<1>3. e \in Receipt /\ e.node = n /\ e.status = "FAILED"
    BY <1>2 DEF Entry, Receipt, Retries
<1>4. /\ receipts \in Seq(Receipt) /\ Len(receipts) \in Nat /\ DOMAIN receipts = 1 .. Len(receipts)
      /\ q \in Nat /\ DOMAIN queue = 1 .. q
      /\ \A d \in 1 .. q : queue[q - d + 1] \in Node
    BY DEF TypeOK
<1>5. \A d \in 1 .. q : t[d] = Entry(queue[q - d + 1], "ROLLED_BACK", 0)
    BY DEF RolledBack, Reverse
<1>6. t \in Seq(Receipt) /\ Len(t) = q
  <2>1. \A d \in 1 .. q : Entry(queue[q - d + 1], "ROLLED_BACK", 0) \in Receipt
      BY <1>2, <1>4 DEF Entry, Receipt
  <2>2. t = [d \in 1 .. q |-> t[d]]
      BY DEF RolledBack
  <2>3. t \in [1 .. q -> Receipt]
      BY <1>5, <2>1, <2>2
  <2>4. t \in Seq(Receipt)
      BY <1>4, <2>3, SeqDef
  <2>5. DOMAIN t = 1 .. q /\ DOMAIN t = 1 .. Len(t) /\ Len(t) \in Nat
      BY <2>3, <2>4, LenProperties
  <2> QED BY <1>4, <2>4, <2>5
<1> PICK r : r = receipts'
    OBVIOUS
<1>7. r = Joined(receipts, e, t)
    BY DEF Breaks, Joined
<1>8. /\ r \in Seq(Receipt)
      /\ Len(r) = Len(receipts) + 1 + q
      /\ DOMAIN r = 1 .. Len(r)
      /\ \A i \in 1 .. Len(receipts) : r[i] = receipts[i]
      /\ r[Len(receipts) + 1] = e
      /\ \A d \in 1 .. q : r[Len(receipts) + 1 + d] = t[d]
  <2>1. IsJoined(r, Receipt, receipts, e, t)
    <3>1. e \in Receipt /\ receipts \in Seq(Receipt) /\ t \in Seq(Receipt)
        BY <1>3, <1>4, <1>6
    <3>2. IsJoined(Joined(receipts, e, t), Receipt, receipts, e, t)
        BY <3>1, AppendedTwice
    <3> QED BY <1>7, <3>2
  <2> QED BY <1>6, <2>1 DEF IsJoined
<1>9. ASSUME NEW d \in 1 .. q
      PROVE  t[d].node = queue[q - d + 1] /\ t[d].status = "ROLLED_BACK"
  <2>1. t[d] = [node |-> queue[q - d + 1], status |-> "ROLLED_BACK", retries |-> 0]
      BY <1>5 DEF Entry
  <2> QED BY <2>1
<1>10. ASSUME NEW d \in 1 .. q
       PROVE  /\ r[Len(receipts) + 1 + d].node = queue[Len(queue) - d + 1]
              /\ r[Len(receipts) + 1 + d].status = "ROLLED_BACK"
    BY <1>8, <1>9
<1>11. r[Len(receipts) + 1].node = n /\ r[Len(receipts) + 1].status = "FAILED"
    BY <1>3, <1>8
<1> QED BY <1>4, <1>8, <1>10, <1>11

(* The rollback receipts undo every cast, once and newest first.           *)
LEMMA FailureIsUndone ==
    ASSUME ExecutionInv, NEW n \in Node, Due(n), Breaks(n), queue' = queue, program' = program,
           status' = "FAILED"
    PROVE  FailureRollsBack' /\ CastReceipts' = CastReceipts
<1> DEFINE f == Len(receipts) + 1
           q == Len(queue)
<1>0. TypeOK /\ QueueInv /\ FailureRollsBack /\ status # "FAILED"
    BY DEF ExecutionInv, Loop, Due
<1>1. /\ DOMAIN receipts = 1 .. Len(receipts) /\ Len(receipts) \in Nat
      /\ DOMAIN queue = 1 .. q /\ q \in Nat
      /\ DOMAIN receipts' = 1 .. Len(receipts')
      /\ Len(receipts') = f + q
      /\ \A i \in DOMAIN receipts : receipts'[i] = receipts[i]
      /\ receipts'[f].node = n /\ receipts'[f].status = "FAILED"
      /\ \A d \in 1 .. q : /\ receipts'[f + d].node = queue[q - d + 1]
                           /\ receipts'[f + d].status = "ROLLED_BACK"
    BY <1>0, FailureReceipts
<1>2. f \in Nat /\ q \in Nat
    BY <1>1
<1> HIDE DEF f, q
<1>3. \A i \in DOMAIN receipts : i < f /\ receipts'[i].status \in {"OK", "SKIPPED"}
    BY <1>0, <1>1, RunningReceipts DEF f
<1>4. \A i \in f + 1 .. f + q : i - f \in 1 .. q /\ f + (i - f) = i
    BY <1>2
<1>5. \A i \in f + 1 .. f + q : /\ receipts'[i].node = queue[q - (i - f) + 1]
                                /\ receipts'[i].status = "ROLLED_BACK"
    BY <1>1, <1>4
<1>6. DOMAIN receipts' = DOMAIN receipts \cup {f} \cup (f + 1 .. f + q)
    BY <1>1, <1>2 DEF f
<1>7. CastReceipts' = CastReceipts
    BY <1>1, <1>3, <1>5, <1>6 DEF CastReceipts, Done, Casts
<1>8. {i \in DOMAIN receipts' : receipts'[i].status = "FAILED"} = {f}
    BY <1>1, <1>3, <1>5, <1>6
<1>9. {i \in DOMAIN receipts' : receipts'[i].status = "ROLLED_BACK"} = f + 1 .. Len(receipts')
    BY <1>1, <1>3, <1>5, <1>6
<1>10. \A k \in CastReceipts : receipts'[k] = receipts[k]
    BY <1>1 DEF CastReceipts
<1> HIDE DEF CastReceipts
<1>11. ASSUME NEW i \in f + 1 .. f + q
       PROVE  \E k \in CastReceipts : receipts'[i].node = receipts'[k].node
  <2>1. q - (i - f) + 1 \in DOMAIN queue
      BY <1>1, <1>2
  <2>2. PICK k \in CastReceipts : receipts[k].node = queue[q - (i - f) + 1]
      BY <1>0, <2>1 DEF QueueInv, QueuedIsCast
  <2> QED BY <1>5, <1>10, <2>2
<1>12. ASSUME NEW k \in CastReceipts
       PROVE  \E i \in f + 1 .. f + q : receipts'[i].node = receipts'[k].node
  <2>1. PICK a \in 1 .. q : receipts[k].node = queue[a]
      BY <1>0, <1>1 DEF QueueInv, CastIsQueued
  <2> DEFINE i == f + (q - a + 1)
  <2>2. i \in f + 1 .. f + q /\ q - (i - f) + 1 = a
      BY <1>2
  <2> HIDE DEF i
  <2>3. receipts'[i].node = queue[a]
      BY <1>5, <2>2
  <2> QED BY <1>10, <2>1, <2>2, <2>3
<1>13. ASSUME NEW i \in f + 1 .. f + q, NEW j \in f + 1 .. f + q,
              NEW k \in CastReceipts, NEW l \in CastReceipts, i < j,
              receipts'[i].node = receipts'[k].node, receipts'[j].node = receipts'[l].node
       PROVE  k > l
  <2> DEFINE a == q - (i - f) + 1
             b == q - (j - f) + 1
  <2>1. a \in 1 .. q /\ b \in 1 .. q /\ b < a
      BY <1>2, <1>13
  <2>2. receipts'[i].node = queue[a] /\ receipts'[j].node = queue[b]
      BY <1>5
  <2> HIDE DEF a, b
  <2>3. receipts[k].node = queue[a] /\ receipts[l].node = queue[b]
      BY <1>10, <1>13, <2>2
  <2>4. l < k
      BY <1>0, <1>1, <2>1, <2>3 DEF QueueInv, QueueInOrder
  <2>5. k \in Nat /\ l \in Nat
      BY <1>1 DEF CastReceipts
  <2> QED BY <2>4, <2>5
<1>14. f \in DOMAIN receipts'
    BY <1>6
<1>15. FailureRollsBack'
  <2> DEFINE undone == {i \in DOMAIN receipts' : receipts'[i].status = "ROLLED_BACK"}
             failed == {i \in DOMAIN receipts' : receipts'[i].status = "FAILED"}
  <2>1. undone = f + 1 .. f + q /\ undone = f + 1 .. Len(receipts') /\ failed = {f}
      BY <1>1, <1>8, <1>9
  <2> HIDE DEF undone, failed
  <2>2. \E g \in DOMAIN receipts' : failed = {g} /\ undone = g + 1 .. Len(receipts')
      BY <1>14, <2>1
  <2>3. \A i \in undone : \E k \in CastReceipts' : receipts'[i].node = receipts'[k].node
      BY <1>7, <1>11, <2>1
  <2>4. \A k \in CastReceipts' : \E i \in undone : receipts'[i].node = receipts'[k].node
      BY <1>7, <1>12, <2>1
  <2>5. \A i, j \in undone : \A k, l \in CastReceipts' :
            /\ i < j
            /\ receipts'[i].node = receipts'[k].node
            /\ receipts'[j].node = receipts'[l].node
            => k > l
      BY <1>7, <1>13, <2>1
  <2> QED BY <2>2, <2>3, <2>4, <2>5 DEF FailureRollsBack, undone, failed
<1> QED BY <1>7, <1>15

(* The last attempt raised.                                                *)
LEMMA FailKeeps ==
    ASSUME ExecutionInv, NEW n \in Node, Fail(n)
    PROVE  ExecutionInv'
<1>0. /\ TypeOK /\ TurnInv /\ KnownInv /\ VisitInv /\ BlockInv /\ ReceiptInv /\ ResultInv
      /\ QueueInv /\ FailureRollsBack
    BY DEF ExecutionInv, Loop
<1>1. /\ Due(n) /\ Breaks(n)
      /\ status' = "FAILED" /\ current' = None /\ failures' = 0
      /\ UNCHANGED <<program, visited, blocked, result, level, parent, queue>>
    BY <1>0, AttemptIsDue DEF Fail, Breaks, trail
<1>2. /\ receipts' \in Seq(Receipt)
      /\ DOMAIN receipts = 1 .. Len(receipts) /\ Len(receipts) \in Nat
      /\ DOMAIN queue = 1 .. Len(queue) /\ Len(queue) \in Nat
      /\ DOMAIN receipts' = 1 .. Len(receipts')
      /\ Len(receipts') = Len(receipts) + 1 + Len(queue)
      /\ \A i \in DOMAIN receipts : receipts'[i] = receipts[i]
      /\ receipts'[Len(receipts) + 1].node = n
      /\ receipts'[Len(receipts) + 1].status = "FAILED"
      /\ \A d \in 1 .. Len(queue) :
            /\ receipts'[Len(receipts) + 1 + d].node = queue[Len(queue) - d + 1]
            /\ receipts'[Len(receipts) + 1 + d].status = "ROLLED_BACK"
    BY <1>0, <1>1, FailureReceipts
<1>3. FailureRollsBack' /\ CastReceipts' = CastReceipts
    BY <1>1, FailureIsUndone
<1>4. TypeOK'
  <2>1. MaxAttempts \in Nat
      BY ExecutionAssumption
  <2> QED BY <1>0, <1>1, <1>2, <2>1 DEF TypeOK
<1>5. KnownInv' /\ TurnInv' /\ VisitInv'
    BY <1>0, <1>1 DEF KnownInv, Known, TurnInv, VisitInv, Predecessors, Due
\* What is new: the receipt of n, and receipts of casts that have one already.
<1>6. ASSUME NEW i \in DOMAIN receipts' \ DOMAIN receipts
      PROVE  /\ receipts'[i].status \in {"FAILED", "ROLLED_BACK"}
             /\ \/ receipts'[i].node = n
                \/ \E k \in CastReceipts : receipts[k].node = receipts'[i].node
  <2>1. CASE i = Len(receipts) + 1
      BY <1>2, <2>1
  <2>2. CASE i # Len(receipts) + 1
    <3> PICK l \in Nat : l = Len(receipts)
        BY <1>2
    <3> PICK q \in Nat : q = Len(queue)
        BY <1>2
    <3>0. i \in 1 .. l + 1 + q /\ i \notin 1 .. l /\ i # l + 1
        BY <1>2, <2>2
    <3> PICK d : d = i - (l + 1)
        OBVIOUS
    <3>1. d \in 1 .. q /\ l + 1 + d = i /\ q - d + 1 \in 1 .. q
        BY <3>0
    <3>2. receipts'[i].node = queue[Len(queue) - d + 1] /\ receipts'[i].status = "ROLLED_BACK"
        BY <1>2, <3>1
    <3>3. q - d + 1 \in DOMAIN queue
        BY <1>2, <3>1
    <3> QED BY <1>0, <3>2, <3>3 DEF QueueInv, QueuedIsCast
  <2> QED BY <2>1, <2>2
<1>7. \A i \in DOMAIN receipts : i \in DOMAIN receipts' /\ receipts'[i] = receipts[i]
    BY <1>2
<1>8. Skipped' = Skipped
  <2>1. Skipped = {m \in Node : \E i \in DOMAIN receipts :
                       receipts[i].node = m /\ receipts[i].status = "SKIPPED"}
      BY <1>2 DEF Skipped
  <2>2. Skipped' = {m \in Node : \E i \in DOMAIN receipts' :
                       receipts'[i].node = m /\ receipts'[i].status = "SKIPPED"}
      BY <1>2 DEF Skipped
  <2> QED BY <1>6, <1>7, <2>1, <2>2
<1>9. Traced \subseteq Traced' /\ Traced' \subseteq Traced \cup {n}
  <2>1. Traced = {receipts[i].node : i \in DOMAIN receipts}
      BY <1>2 DEF Traced
  <2>2. Traced' = {receipts'[i].node : i \in DOMAIN receipts'}
      BY <1>2 DEF Traced
  <2>3. \A k \in CastReceipts : receipts[k].node \in Traced
      BY <2>1 DEF CastReceipts
  <2> QED BY <1>6, <1>7, <2>1, <2>2, <2>3
<1>10. BlockInv'
  <2>1. \A m \in Node : Predecessors(m)' = Predecessors(m)
      BY <1>1 DEF Predecessors
  <2> QED BY <1>0, <1>1, <1>8, <2>1 DEF BlockInv
<1>11. ReceiptInv'
    BY <1>0, <1>1, <1>6, <1>7 DEF ReceiptInv
<1>12. ResultInv'
  <2> SUFFICES ASSUME NEW m \in Node, result[m] # None
               PROVE  /\ m \in visited /\ result[m] \in visited
                      /\ program[result[m]].type = "CAST"
                      /\ result[result[m]] = result[m]
                      /\ \E i \in DOMAIN receipts' :
                            receipts'[i].status = "OK" /\ receipts'[i].node = result[m]
      BY <1>1 DEF ResultInv, Casts, Done
  <2> QED BY <1>0, <1>7 DEF ResultInv, Casts, Done
<1>13. QueueInv'
  <2>1. \A k \in CastReceipts : receipts'[k] = receipts[k]
      BY <1>7 DEF CastReceipts
  <2> HIDE DEF CastReceipts
  <2> QED BY <1>0, <1>1, <1>3, <2>1 DEF QueueInv, QueuedIsCast, CastIsQueued, QueueInOrder
<1>14. About(n)
    BY <1>1 DEF About, Due
<1>15. SkipReachesOneStep'
  <2> SUFFICES ASSUME NEW m \in visited PROVE SkipAt(m)'
      BY <1>1 DEF SkipReachesOneStep, SkipAt
  <2>1. m \in Node /\ m # n /\ Predecessors(m)' = Predecessors(m) /\ Sources(m)' = Sources(m)
      BY <1>0, <1>1 DEF Due, TypeOK, Sources, Predecessors
  <2>2. m \in Traced' <=> m \in Traced
      BY <1>9, <2>1
  <2>3. SkipAt(m)
      BY DEF ExecutionInv, SkipReachesOneStep, SkipAt
  <2> QED BY <1>1, <1>8, <2>1, <2>2, <2>3 DEF SkipAt
<1>16. Extended
    BY <1>2 DEF Extended
<1>17. ASSUME NEW m \in Node PROVE LineageAt(m)' /\ MergeAt(m)'
  <2>1. CASE m = n
    <3>1. result'[n] = None /\ n # None
        BY <1>0, <1>1, ExecutionAssumption DEF ResultInv, Due, None
    <3> QED BY <2>1, <3>1 DEF LineageAt, MergeAt
  <2>2. CASE m # n
    <3>1. LineageAt(m) /\ MergeAt(m) /\ m \in Node \ {n}
        BY <2>2, ResultsNodeByNode DEF ExecutionInv
    <3> QED BY <1>0, <1>14, <1>16, <3>1, LineageStays, MergeStays
  <2> QED BY <2>1, <2>2
<1>18. ASSUME NEW i \in 1 .. Len(receipts') PROVE GateAt(i)'
  <2>1. CASE i \in DOMAIN receipts
    <3>1. i \in DOMAIN receipts' /\ receipts'[i] = receipts[i] /\ GateAt(i)
        BY <1>2, <1>7, <2>1, ResultsNodeByNode DEF ExecutionInv
    <3> QED BY <1>0, <1>14, <2>1, <3>1, GateStays
  <2>2. CASE i \notin DOMAIN receipts
    <3>1. \A k \in CastReceipts : Casts(receipts[k].node)
        BY DEF CastReceipts
    <3> PICK m : m = receipts'[i].node
        OBVIOUS
    <3>2. m = n \/ \E k \in CastReceipts : receipts[k].node = m
        BY <1>2, <1>6, <2>2
    <3>3. Casts(m)
        BY <1>1, <3>1, <3>2 DEF Due
    <3>4. program'[receipts'[i].node].type = "CAST"
        BY <1>1, <3>3 DEF Casts
    <3> QED BY <3>4 DEF GateAt
  <2> QED BY <2>1, <2>2
<1>19. ResultsComeFromCasts'
  <2>1. /\ \A m \in Node : LineageAt(m)' /\ MergeAt(m)'
        /\ \A i \in 1 .. Len(receipts') : GateAt(i)'
      BY <1>17, <1>18
  <2> QED BY <2>1 DEF ResultsComeFromCasts, LineageIsBest, MergeTakesOver, GateTellsVerdict,
                      LineageAt, MergeAt, GateAt
<1> QED BY <1>3, <1>4, <1>5, <1>10, <1>11, <1>12, <1>13, <1>15, <1>19 DEF ExecutionInv, Loop

-----------------------------------------------------------------------------
(* The specification.                                                      *)

\* No node has been taken up, and no execution has succeeded or failed.
Unstarted ==
    /\ program \in [Node -> NodeSpec] /\ KnownInv
    /\ visited = {} /\ blocked = {}
    /\ result = Blank /\ level = Blank /\ parent = Blank
    /\ queue = <<>> /\ receipts = <<>>
    /\ current = None /\ failures = 0
    /\ status \in {"DRAFT", "RAISED"}

(* Whatever the loop promises, it promises before it starts.               *)
LEMMA UnstartedIsWell == Unstarted => ExecutionInv
<1> SUFFICES ASSUME Unstarted PROVE ExecutionInv
    OBVIOUS
<1>0. MaxAttempts \in Nat
    BY ExecutionAssumption
<1>1. TypeOK
  <2>1. receipts \in Seq(Receipt) /\ queue \in Seq(Node)
      BY DEF Unstarted
  <2>2. None = 0 /\ Blank \in [Node -> {0}]
      BY DEF None, Blank
  <2> QED BY <1>0, <2>1, <2>2 DEF Unstarted, TypeOK
<1>2. DOMAIN receipts = {} /\ DOMAIN queue = {} /\ Len(receipts) = 0 /\ 1 .. Len(receipts) = {}
    BY DEF Unstarted
<1>3. CastReceipts = {} /\ Skipped = {}
    BY <1>2 DEF CastReceipts, Skipped
<1>4. KnownInv /\ TurnInv /\ VisitInv /\ ReceiptInv
    BY <1>2 DEF Unstarted, TurnInv, VisitInv, ReceiptInv
<1>5. BlockInv /\ QueueInv
    BY <1>2, <1>3 DEF Unstarted, BlockInv, QueueInv, QueuedIsCast, CastIsQueued, QueueInOrder
<1>6. \A n \in Node : result[n] = None /\ n # None
    BY ExecutionAssumption DEF Unstarted, Blank, None
<1>7. ResultInv
    BY <1>6 DEF ResultInv
<1>8. FailureRollsBack
    BY <1>2 DEF Unstarted, FailureRollsBack
<1>9. SkipReachesOneStep
    BY DEF Unstarted, SkipReachesOneStep
<1>10. ResultsComeFromCasts
    BY <1>2, <1>6 DEF ResultsComeFromCasts, LineageIsBest, MergeTakesOver, GateTellsVerdict
<1> QED BY <1>1, <1>4, <1>5, <1>7, <1>8, <1>9, <1>10 DEF ExecutionInv, Loop

LEMMA StartsWell == Init => ExecutionInv
<1> SUFFICES ASSUME Init PROVE ExecutionInv
    OBVIOUS
<1>1. Unstarted
    BY ExecutionAssumption DEF Init, Unstarted, KnownInv
<1> QED BY <1>1, UnstartedIsWell

(* An exception out of a condition leaves nothing of the execution behind. *)
LEMMA RaiseKeeps ==
    ASSUME ExecutionInv, Known, Raise
    PROVE  ExecutionInv'
<1>1. Unstarted'
    BY DEF Raise, Unstarted, Blank, None, KnownInv, Known, ExecutionInv, Loop, TypeOK
<1> QED BY <1>1, UnstartedIsWell, PTL

LEMMA StepsWell == ExecutionInv /\ [Next]_vars => ExecutionInv'
<1> SUFFICES ASSUME ExecutionInv, [Next]_vars PROVE ExecutionInv'
    OBVIOUS
<1>1. ASSUME Compile \/ WriteProgram \/ Execute \/ Complete \/ UNCHANGED vars
      PROVE  ExecutionInv'
    BY <1>1, CallKeeps
<1>2. ASSUME NEW n \in Node, PassOver(n) PROVE ExecutionInv'
    BY <1>2, PassOverKeeps
<1>3. ASSUME NEW n \in Node, Refuse(n) PROVE ExecutionInv'
    BY <1>3, RefuseKeeps
<1>4. ASSUME NEW n \in Node, Gate(n) PROVE ExecutionInv'
    BY <1>4, GateKeeps
<1>5. ASSUME NEW n \in Node, Merge(n) PROVE ExecutionInv'
    BY <1>5, MergeKeeps
<1>6. ASSUME NEW n \in Node, Retry(n) PROVE ExecutionInv'
    BY <1>6, RetryKeeps
<1>7. ASSUME NEW n \in Node, Fail(n) PROVE ExecutionInv'
    BY <1>7, FailKeeps
<1>8. ASSUME NEW n \in Node, NEW l \in Level, Succeed(n, l) PROVE ExecutionInv'
    BY <1>8, SucceedKeeps
<1>9. ASSUME NEW n \in Node, RaisePrecondition(n) \/ RaisePostcondition(n)
      PROVE  ExecutionInv'
  <2>1. status = "RUNNING"
      BY <1>9, AttemptIsDue DEF RaisePrecondition, RaisePostcondition, Turn, Due,
                               ExecutionInv, Loop
  <2>2. Known
      BY <2>1 DEF ExecutionInv, Loop, KnownInv
  <2> QED BY <1>9, <2>2, RaiseKeeps DEF RaisePrecondition, RaisePostcondition
<1> QED BY <1>1, <1>2, <1>3, <1>4, <1>5, <1>6, <1>7, <1>8, <1>9 DEF Next, Visit

(* The loop visits predecessors first, blocks the successors of what it    *)
(* skips, hands on results of casts it has receipts for, and queues every  *)
(* cast for the rollback, in the order of the receipts.                    *)
THEOREM LoopInvariance == Spec => []ExecutionInv
BY StartsWell, StepsWell, PTL DEF Spec

(* The state of an execution is what TypeOK says: what is blocked, queued  *)
(* and receipted are nodes of the program, a retry never outruns the       *)
(* policy, and a level is one of a cast.                                   *)
THEOREM TypeCorrect == Spec => []TypeOK
<1>1. ExecutionInv => TypeOK
    BY DEF ExecutionInv, Loop
<1> QED BY <1>1, LoopInvariance, PTL

(* A failed execution undoes every cast it made, newest first and once,    *)
(* and nothing else; no other execution undoes anything.                   *)
THEOREM FailureUndoesEveryCast == Spec => []FailureRollsBack
<1>1. ExecutionInv => FailureRollsBack
    BY DEF ExecutionInv
<1> QED BY <1>1, LoopInvariance, PTL

(* A skip reaches all direct successors and none behind them, in every     *)
(* graph.                                                                  *)
THEOREM SkipsReachOneStep == Spec => []SkipReachesOneStep
<1>1. ExecutionInv => SkipReachesOneStep
    BY DEF ExecutionInv
<1> QED BY <1>1, LoopInvariance, PTL

(* Lineage, merges and gates go by the results predecessors end up with.   *)
THEOREM ResultsAreCast == Spec => []ResultsComeFromCasts
<1>1. ExecutionInv => ResultsComeFromCasts
    BY DEF ExecutionInv
<1> QED BY <1>1, LoopInvariance, PTL

-----------------------------------------------------------------------------
(* The order (ProgramOrder), for every finite set of ids and every bound   *)
(* on repeated edges.                                                      *)
(*                                                                         *)
(* The argument: with cur placed, the in-degree of a node is the number of *)
(* its incoming edges from nodes that are not placed yet, so the ready     *)
(* list is exactly the set of unplaced nodes all of whose predecessors are *)
(* placed.  What is left when it runs empty is a knot, or nothing.         *)

\* The incoming edges of m that are not accounted for yet.
Pending(m) == {e \in (Id \ Placed) \X (1 .. MaxEdges) : e[2] <= edges[e[1]][m]}

IndegreeIsPending == \A m \in Id : indegree[m] = Cardinality(Pending(m))

Free(m) == \A n \in Id : Precedes(n, m) => n \in Placed

ReadyIsFree == \A m \in Id : m \in ready <=> m \notin Placed /\ Free(m)

\* A program that has been given a verdict has nothing left that is ready.
VerdictIsLast ==
    outcome # "running" => ready = {} /\ outcome = OrderVerdict

OrderInv ==
    /\ OrderTypeOK
    /\ IndegreeIsPending
    /\ ReadyIsFree
    /\ OrderIsTopological
    /\ OrderIsLeast
    /\ VerdictIsLast

-----------------------------------------------------------------------------
(* Facts about numbers, sets and edges.                                    *)

\* ready.pop(0) is well defined.
LEMMA SmallestIsLeast ==
    ASSUME NEW S \in SUBSET Id, S # {}
    PROVE  Smallest(S) \in S /\ \A m \in S : Smallest(S) <= m
<1>1. \E n \in S : \A m \in S : n <= m
    BY LeastNumber, OrderAssumption
<1> QED  BY <1>1 DEF Smallest

\* There are finitely many edges.
LEMMA FiniteEdges ==
    ASSUME NEW S \in SUBSET (Id \X (1 .. MaxEdges))
    PROVE  IsFiniteSet(S) /\ Cardinality(S) \in Nat
<1>1. IsFiniteSet(1 .. MaxEdges)
    BY FS_Interval, OrderAssumption
<1>2. IsFiniteSet(Id \X (1 .. MaxEdges))
    BY <1>1, FS_Product, OrderAssumption
<1>3. IsFiniteSet(S)
    BY <1>2, FS_Subset
<1> QED  BY <1>3, FS_CardinalityType

\* A node contributes as many edges to m as it names m.
LEMMA EdgesOfOne ==
    ASSUME NEW cur \in Id, NEW k \in 0 .. MaxEdges
    PROVE  Cardinality({cur} \X (1 .. k)) = k /\ IsFiniteSet({cur} \X (1 .. k))
<1>1. k \in Nat
    BY OrderAssumption
<1>2. IsFiniteSet(1 .. k) /\ Cardinality(1 .. k) = k
    BY <1>1, FS_Interval
<1>3. IsFiniteSet({cur}) /\ Cardinality({cur}) = 1
    BY FS_Singleton
<1>4. /\ IsFiniteSet({cur} \X (1 .. k))
      /\ Cardinality({cur} \X (1 .. k)) = Cardinality({cur}) * Cardinality(1 .. k)
    BY <1>2, <1>3, FS_Product, Zenon
<1>5. 1 * k = k
    BY <1>1
<1> QED  BY <1>2, <1>3, <1>4, <1>5

\* An order without repetitions is as long as the set of its nodes.
LEMMA LengthOfOrder ==
    ASSUME OrderTypeOK, OrderIsTopological
    PROVE  /\ Placed \subseteq Id
           /\ IsFiniteSet(Placed)
           /\ Cardinality(Placed) = Len(order)
<1>1. order \in Seq(Id) /\ Len(order) \in Nat
    BY DEF OrderTypeOK
<1>2. Placed \subseteq Id
    BY <1>1 DEF Placed
<1>3. order \in [1 .. Len(order) -> Placed]
    BY <1>1 DEF Placed
<1>4. \A i, j \in 1 .. Len(order) : order[i] = order[j] => i = j
    BY DEF OrderIsTopological
<1>5. order \in Bijection(1 .. Len(order), Placed)
    BY <1>3, <1>4 DEF Bijection, Injection, Surjection, IsInjective, Placed
<1>6. /\ IsFiniteSet(1 .. Len(order))
      /\ Cardinality(1 .. Len(order)) = Len(order)
    BY <1>1, FS_Interval
<1>7. ExistsBijection(1 .. Len(order), Placed)
    BY <1>5 DEF ExistsBijection
<1> QED  BY <1>2, <1>6, <1>7, FS_Bijection

\* The verdict "ordered" means that every node is placed.
LEMMA CompleteOrder ==
    ASSUME OrderTypeOK, OrderIsTopological
    PROVE  EveryNodePlaced <=> Placed = Id
<1>1. /\ Placed \subseteq Id
      /\ Cardinality(Placed) = Len(order)
    BY LengthOfOrder
<1>2. Cardinality(Placed) = Cardinality(Id) => Placed = Id
    BY <1>1, FS_Subset, OrderAssumption
<1> QED  BY <1>1, <1>2 DEF EveryNodePlaced

-----------------------------------------------------------------------------
(* The initial state.                                                      *)

LEMMA OrderInvInit == OrderInit => OrderInv
<1> SUFFICES ASSUME OrderInit PROVE OrderInv
    OBVIOUS
<1>1. Placed = {} /\ order = <<>> /\ Len(order) = 0
    BY DEF OrderInit, Placed
<1>2. ASSUME NEW m \in Id
      PROVE  /\ Pending(m) = {e \in Id \X (1 .. MaxEdges) : e[2] <= edges[e[1]][m]}
             /\ Incoming(m) = Cardinality(Pending(m))
             /\ Incoming(m) \in Nat
             /\ Incoming(m) = 0 <=> Pending(m) = {}
    <2>1. Pending(m) = {e \in Id \X (1 .. MaxEdges) : e[2] <= edges[e[1]][m]}
        BY <1>1 DEF Pending
    <2>2. Pending(m) \in SUBSET (Id \X (1 .. MaxEdges))
        BY DEF Pending
    <2>3. IsFiniteSet(Pending(m)) /\ Cardinality(Pending(m)) \in Nat
        BY <2>2, FiniteEdges
    <2>4. Incoming(m) = Cardinality(Pending(m))
        BY <2>1 DEF Incoming
    <2> QED  BY <2>1, <2>3, <2>4, FS_EmptySet
<1>3. OrderTypeOK
    BY <1>2 DEF OrderInit, OrderTypeOK
<1>4. IndegreeIsPending
    BY <1>2 DEF OrderInit, IndegreeIsPending
<1>5. ReadyIsFree
    <2> SUFFICES ASSUME NEW m \in Id
                 PROVE  m \in ready <=> m \notin Placed /\ Free(m)
        BY DEF ReadyIsFree
    <2>1. m \in ready <=> Pending(m) = {}
        BY <1>2 DEF OrderInit
    <2>2. Free(m) <=> \A n \in Id : ~(edges[n][m] > 0)
        BY <1>1 DEF Free, Precedes
    <2>3. \A n \in Id : edges[n][m] \in 0 .. MaxEdges
        BY DEF OrderInit, Graph
    <2>4. \A n \in Id : edges[n][m] > 0 <=> <<n, 1>> \in Pending(m)
        BY <1>1, <2>3, OrderAssumption DEF Pending
    <2>5. Pending(m) = {} <=> \A n \in Id : ~(edges[n][m] > 0)
        <3>1. ASSUME NEW e \in Pending(m) PROVE edges[e[1]][m] > 0 /\ e[1] \in Id
            <4>1. e[1] \in Id /\ e[2] \in 1 .. MaxEdges /\ e[2] <= edges[e[1]][m]
                BY DEF Pending
            <4>2. edges[e[1]][m] \in 0 .. MaxEdges
                BY <2>3, <4>1
            <4> QED  BY <4>1, <4>2, OrderAssumption
        <3> QED  BY <2>4, <3>1
    <2> QED  BY <1>1, <2>1, <2>2, <2>5
<1>6. OrderIsTopological /\ OrderIsLeast
    BY <1>1 DEF OrderIsTopological, OrderIsLeast
<1>7. VerdictIsLast
    BY DEF OrderInit, VerdictIsLast
<1> QED  BY <1>3, <1>4, <1>5, <1>6, <1>7 DEF OrderInv

-----------------------------------------------------------------------------
(* One turn of the loop.                                                   *)

(* What the loop takes is free, and everything smaller that is not placed  *)
(* still waits for a predecessor.                                          *)
LEMMA NextToPlace ==
    ASSUME OrderInv, ready # {}
    PROVE  LET cur == Smallest(ready)
           IN  /\ cur \in Id /\ cur \in ready
               /\ cur \notin Placed /\ Free(cur)
               /\ \A m \in Id : m < cur => m \in Placed \/ ~Free(m)
<1> DEFINE cur == Smallest(ready)
<1>1. ready \subseteq Id
    BY DEF OrderInv, OrderTypeOK
<1>2. cur \in ready /\ \A m \in ready : cur <= m
    BY <1>1, SmallestIsLeast
<1> HIDE DEF cur
<1>3. ASSUME NEW m \in Id, m < cur PROVE m \notin ready
    BY <1>1, <1>2, <1>3, OrderAssumption
<1> QED  BY <1>1, <1>2, <1>3 DEF cur, OrderInv, ReadyIsFree

(* The order grows at its end.                                             *)
LEMMA AppendToOrder ==
    ASSUME OrderTypeOK, NEW cur \in Id, order' = Append(order, cur)
    PROVE  /\ Len(order) \in Nat
           /\ order' \in Seq(Id)
           /\ Len(order') = Len(order) + 1
           /\ \A i \in 1 .. Len(order) : order'[i] = order[i]
           /\ order'[Len(order) + 1] = cur
           /\ Placed' = Placed \cup {cur}
<1>1. order \in Seq(Id) /\ Len(order) \in Nat
    BY DEF OrderTypeOK
<1>2. /\ order' \in Seq(Id)
      /\ Len(order') = Len(order) + 1
      /\ \A i \in 1 .. Len(order) : order'[i] = order[i]
      /\ order'[Len(order) + 1] = cur
    BY <1>1
<1>3. ASSUME NEW x PROVE x \in Placed' <=> x \in Placed \cup {cur}
    <2>1. x \in Placed' <=> \E i \in 1 .. Len(order) + 1 : order'[i] = x
        BY <1>2 DEF Placed
    <2>2. x \in Placed <=> \E i \in 1 .. Len(order) : order[i] = x
        BY DEF Placed
    <2> QED  BY <1>1, <1>2, <2>1, <2>2
<1> QED  BY <1>1, <1>2, <1>3

(* With cur placed, its edges are accounted for, and only they.            *)
LEMMA EdgesAccountedFor ==
    ASSUME OrderTypeOK, NEW cur \in Id, cur \notin Placed,
           Placed' = Placed \cup {cur}, edges' = edges, NEW m \in Id
    PROVE  /\ Pending(m)' = Pending(m) \ ({cur} \X (1 .. edges[cur][m]))
           /\ Cardinality(Pending(m)') = Cardinality(Pending(m)) - edges[cur][m]
           /\ Cardinality(Pending(m)') \in Nat
           /\ Cardinality(Pending(m)') = 0 <=> Pending(m)' = {}
<1> DEFINE Gone == {cur} \X (1 .. edges[cur][m])
<1>1. edges[cur][m] \in 0 .. MaxEdges
    BY DEF OrderTypeOK, Graph
<1>2. Gone \subseteq Pending(m)
    BY <1>1, OrderAssumption DEF Pending
<1>3. Pending(m)' = Pending(m) \ Gone
    <2>1. ASSUME NEW e \in (Id \ Placed) \X (1 .. MaxEdges)
          PROVE  e \in Pending(m) /\ e[1] = cur => e \in Gone
        BY <1>1, OrderAssumption DEF Pending
    <2>2. Pending(m)' = {e \in (Id \ Placed') \X (1 .. MaxEdges) : e[2] <= edges[e[1]][m]}
        BY DEF Pending
    <2>3. \A e \in Pending(m) : e[1] # cur => e \notin Gone
        OBVIOUS
    <2> HIDE DEF Gone
    <2> QED  BY <2>1, <2>2, <2>3 DEF Pending
<1>4. /\ IsFiniteSet(Pending(m))
      /\ Cardinality(Pending(m)) \in Nat
    BY FiniteEdges DEF Pending
<1>5. Cardinality(Gone) = edges[cur][m]
    BY <1>1, EdgesOfOne
<1>6. Pending(m) \cap Gone = Gone
    BY <1>2
<1>7. /\ IsFiniteSet(Pending(m) \ Gone)
      /\ Cardinality(Pending(m) \ Gone) = Cardinality(Pending(m)) - Cardinality(Pending(m) \cap Gone)
    <2> HIDE DEF Gone
    <2> QED  BY <1>4, FS_Difference
<1>8. Cardinality(Pending(m) \ Gone) \in Nat
    BY <1>7, FS_CardinalityType
<1> HIDE DEF Gone
<1> QED  BY <1>3, <1>5, <1>6, <1>7, <1>8, FS_EmptySet DEF Gone

(* A node has edges from outside a set unless the set holds all its        *)
(* predecessors.                                                           *)
LEMMA EdgesFromOutside ==
    ASSUME OrderTypeOK, NEW m \in Id, NEW P
    PROVE  {e \in (Id \ P) \X (1 .. MaxEdges) : e[2] <= edges[e[1]][m]} = {}
           <=> \A n \in Id : Precedes(n, m) => n \in P
<1> DEFINE E == {e \in (Id \ P) \X (1 .. MaxEdges) : e[2] <= edges[e[1]][m]}
<1>1. \A n \in Id : edges[n][m] \in 0 .. MaxEdges
    BY DEF OrderTypeOK, Graph
<1>2. ASSUME NEW n \in Id, Precedes(n, m), n \notin P
      PROVE  <<n, 1>> \in E
    BY <1>1, <1>2, OrderAssumption DEF Precedes
<1>3. ASSUME NEW e \in E
      PROVE  e[1] \in Id /\ e[1] \notin P /\ Precedes(e[1], m)
    <2>1. /\ e[1] \in Id \ P
          /\ e[2] \in 1 .. MaxEdges /\ e[2] <= edges[e[1]][m]
        OBVIOUS
    <2>2. edges[e[1]][m] \in 0 .. MaxEdges
        BY <1>1, <2>1
    <2> QED  BY <2>1, <2>2, OrderAssumption DEF Precedes
<1> HIDE DEF E
<1> QED  BY <1>2, <1>3 DEF E

LEMMA PlaceStep == OrderInv /\ Place => OrderInv'
<1> SUFFICES ASSUME OrderInv, Place PROVE OrderInv'
    OBVIOUS
<1> DEFINE cur == Smallest(ready)
<1>1. /\ outcome = "running" /\ ready # {}
      /\ order' = Append(order, cur)
      /\ indegree' = [m \in Id |-> indegree[m] - edges[cur][m]]
      /\ ready' = (ready \ {cur}) \cup Released(cur)
      /\ edges' = edges /\ outcome' = outcome
    BY DEF Place
<1>2. /\ cur \in Id /\ cur \in ready
      /\ cur \notin Placed /\ Free(cur)
      /\ \A m \in Id : m < cur => m \in Placed \/ ~Free(m)
    BY <1>1, NextToPlace
<1> HIDE DEF cur
<1>3. OrderTypeOK
    BY DEF OrderInv
<1>4. /\ Len(order) \in Nat
      /\ order' \in Seq(Id)
      /\ Len(order') = Len(order) + 1
      /\ \A i \in 1 .. Len(order) : order'[i] = order[i]
      /\ order'[Len(order) + 1] = cur
      /\ Placed' = Placed \cup {cur}
    BY <1>1, <1>2, <1>3, AppendToOrder
<1>5. ASSUME NEW m \in Id
      PROVE  /\ indegree[m] = Cardinality(Pending(m)) /\ indegree[m] \in Nat
             /\ edges[cur][m] \in Nat
             /\ indegree'[m] = Cardinality(Pending(m)') /\ indegree'[m] \in Nat
             /\ indegree[m] = edges[cur][m] <=> Free(m)'
    <2>1. indegree[m] = Cardinality(Pending(m)) /\ indegree[m] \in Nat
        BY DEF OrderInv, IndegreeIsPending, OrderTypeOK
    <2>2. edges[cur][m] \in Nat
        BY <1>2, <1>3, OrderAssumption DEF OrderTypeOK, Graph
    <2>3. /\ Cardinality(Pending(m)') = Cardinality(Pending(m)) - edges[cur][m]
          /\ Cardinality(Pending(m)') \in Nat
          /\ Cardinality(Pending(m)') = 0 <=> Pending(m)' = {}
        BY <1>1, <1>2, <1>3, <1>4, EdgesAccountedFor
    <2>4. indegree'[m] = indegree[m] - edges[cur][m]
        BY <1>1
    <2>5. Pending(m)' = {e \in (Id \ Placed') \X (1 .. MaxEdges) : e[2] <= edges[e[1]][m]}
        BY <1>1 DEF Pending
    <2>6. Pending(m)' = {} <=> \A n \in Id : Precedes(n, m) => n \in Placed'
        <3> DEFINE P == Placed'
        <3>1. {e \in (Id \ P) \X (1 .. MaxEdges) : e[2] <= edges[e[1]][m]} = {}
              <=> \A n \in Id : Precedes(n, m) => n \in P
            <4> HIDE DEF P
            <4> QED  BY <1>3, EdgesFromOutside
        <3> QED  BY <2>5, <3>1
    <2>7. Free(m)' <=> \A n \in Id : Precedes(n, m) => n \in Placed'
        BY <1>1 DEF Free, Precedes
    <2> QED  BY <2>1, <2>2, <2>3, <2>4, <2>6, <2>7
<1>6. ready' \subseteq Id
    BY <1>1, <1>3 DEF OrderTypeOK, Released
<1>7. OrderTypeOK'
    <2>1. indegree' \in [Id -> Nat]
        BY <1>1, <1>5
    <2> QED  BY <1>1, <1>3, <1>4, <1>6, <2>1 DEF OrderTypeOK
<1>8. IndegreeIsPending'
    BY <1>5 DEF IndegreeIsPending
<1>9. \A i \in 1 .. Len(order) : \A n \in Id : Precedes(n, order[i]) => n \in Placed
    BY DEF OrderInv, OrderIsTopological, Placed
<1>10. ReadyIsFree'
    <2> SUFFICES ASSUME NEW m \in Id
                 PROVE  m \in ready' <=> m \notin Placed' /\ Free(m)'
        BY DEF ReadyIsFree
    <2>1. m \in ready <=> m \notin Placed /\ Free(m)
        BY DEF OrderInv, ReadyIsFree
    <2>2. m \in Released(cur) <=> Precedes(cur, m) /\ Free(m)'
        BY <1>5 DEF Released
    <2>3. Free(m)' <=> \A n \in Id : Precedes(n, m) => n \in Placed \cup {cur}
        BY <1>1, <1>4 DEF Free, Precedes
    <2>4. CASE m = cur
        BY <1>1, <1>2, <1>4, <2>2, <2>4 DEF Free
    <2>5. CASE m # cur
        <3>1. CASE m \in ready
            BY <1>1, <1>4, <2>1, <2>3, <2>5, <3>1 DEF Free
        <3>2. ASSUME m \notin ready, m \in ready' PROVE m \notin Placed' /\ Free(m)'
            <4>1. Precedes(cur, m) /\ Free(m)'
                BY <1>1, <2>2, <3>2
            <4>2. m \notin Placed
                BY <1>2, <1>9, <4>1 DEF Placed
            <4> QED  BY <1>4, <2>5, <4>1, <4>2
        <3>3. ASSUME m \notin ready, m \notin Placed', Free(m)' PROVE m \in ready'
            <4>1. Precedes(cur, m)
                BY <1>4, <2>1, <2>3, <3>3 DEF Free
            <4> QED  BY <1>1, <2>2, <3>3, <4>1
        <3> QED  BY <3>1, <3>2, <3>3
    <2> QED  BY <2>4, <2>5
<1>11. OrderIsTopological'
    <2> SUFFICES ASSUME NEW i \in 1 .. Len(order'), NEW j \in 1 .. Len(order')
                 PROVE  /\ i # j => order'[i] # order'[j]
                        /\ \A n \in Id : Precedes(n, order'[j]) =>
                              \E k \in 1 .. j - 1 : order'[k] = n
        BY <1>1 DEF OrderIsTopological, Precedes
    <2>1. \A k \in 1 .. Len(order) : order[k] # cur
        BY <1>2 DEF Placed
    <2>2. i # j => order'[i] # order'[j]
        <3>1. CASE i \in 1 .. Len(order) /\ j \in 1 .. Len(order)
            BY <1>4, <3>1 DEF OrderInv, OrderIsTopological
        <3>2. CASE i = Len(order) + 1 \/ j = Len(order) + 1
            BY <1>4, <2>1, <3>2
        <3> QED  BY <1>4, <3>1, <3>2
    <2>3. ASSUME NEW n \in Id, Precedes(n, order'[j])
          PROVE  \E k \in 1 .. j - 1 : order'[k] = n
        <3>1. CASE j \in 1 .. Len(order)
            <4>1. PICK k \in 1 .. j - 1 : order[k] = n
                BY <1>4, <2>3, <3>1 DEF OrderInv, OrderIsTopological
            <4> QED  BY <1>4, <3>1, <4>1
        <3>2. CASE j = Len(order) + 1
            <4>1. n \in Placed
                BY <1>2, <1>4, <2>3, <3>2 DEF Free
            <4>2. PICK k \in 1 .. Len(order) : order[k] = n
                BY <4>1 DEF Placed
            <4> QED  BY <1>4, <3>2, <4>2
        <3> QED  BY <1>4, <3>1, <3>2
    <2> QED  BY <2>2, <2>3
<1>12. OrderIsLeast'
    <2> SUFFICES ASSUME NEW i \in 1 .. Len(order'), NEW m \in Id
                 PROVE  \/ order'[i] <= m
                        \/ \E k \in 1 .. i - 1 : order'[k] = m
                        \/ \E n \in Id : Precedes(n, m) /\ \A k \in 1 .. i - 1 : order'[k] # n
        BY <1>1 DEF OrderIsLeast, Precedes
    <2>1. CASE i \in 1 .. Len(order)
        <3>1. \A k \in 1 .. i - 1 : k \in 1 .. Len(order)
            BY <1>4, <2>1
        <3>2. \/ order[i] <= m
              \/ \E k \in 1 .. i - 1 : order[k] = m
              \/ \E n \in Id : Precedes(n, m) /\ \A k \in 1 .. i - 1 : order[k] # n
            BY <2>1 DEF OrderInv, OrderIsLeast
        <3> QED  BY <1>4, <2>1, <3>1, <3>2
    <2>2. CASE i = Len(order) + 1
        <3>1. cur <= m \/ m < cur
            BY <1>2, OrderAssumption
        <3>2. ASSUME m \in Placed PROVE \E k \in 1 .. i - 1 : order'[k] = m
            BY <1>4, <2>2, <3>2 DEF Placed
        <3>3. ASSUME ~Free(m)
              PROVE  \E n \in Id : Precedes(n, m) /\ \A k \in 1 .. i - 1 : order'[k] # n
            BY <1>4, <2>2, <3>3 DEF Free, Placed
        <3> QED  BY <1>2, <1>4, <2>2, <3>1, <3>2, <3>3
    <2> QED  BY <1>4, <2>1, <2>2
<1>13. VerdictIsLast'
    BY <1>1 DEF VerdictIsLast
<1> QED  BY <1>7, <1>8, <1>10, <1>11, <1>12, <1>13 DEF OrderInv

LEMMA StopStep == OrderInv /\ Stop => OrderInv'
<1> SUFFICES ASSUME OrderInv, Stop PROVE OrderInv'
    OBVIOUS
<1>1. /\ ready = {} /\ outcome' = OrderVerdict
      /\ UNCHANGED <<edges, indegree, ready, order>>
    BY DEF Stop
<1>2. OrderTypeOK'
    BY <1>1 DEF OrderInv, OrderTypeOK, OrderVerdict
<1>3. (IndegreeIsPending /\ ReadyIsFree)'
    BY <1>1 DEF OrderInv, IndegreeIsPending, ReadyIsFree, Pending, Free, Precedes, Placed
<1>4. (OrderIsTopological /\ OrderIsLeast)'
    BY <1>1 DEF OrderInv, OrderIsTopological, OrderIsLeast, Precedes
<1>5. VerdictIsLast'
    BY <1>1 DEF VerdictIsLast, OrderVerdict, EveryNodePlaced
<1> QED  BY <1>2, <1>3, <1>4, <1>5 DEF OrderInv

LEMMA OrderInvNext == OrderInv /\ [OrderNext]_orderVars => OrderInv'
<1> SUFFICES ASSUME OrderInv, [OrderNext]_orderVars PROVE OrderInv'
    OBVIOUS
<1>1. CASE UNCHANGED orderVars
    BY <1>1 DEF orderVars, OrderInv, OrderTypeOK, IndegreeIsPending, ReadyIsFree, Pending, Free,
                Precedes, Placed, OrderIsTopological, OrderIsLeast, VerdictIsLast,
                OrderVerdict, EveryNodePlaced
<1> QED  BY <1>1, PlaceStep, StopStep DEF OrderNext

THEOREM OrderInvariance == OrderSpec => []OrderInv
    BY OrderInvInit, OrderInvNext, PTL DEF OrderSpec

-----------------------------------------------------------------------------
(* The theorems.                                                           *)

(* topological_order keeps its data well formed; the in-degrees it counts  *)
(* down never get below zero.                                              *)
THEOREM OrderTypeCorrect == OrderSpec => []OrderTypeOK
<1>1. OrderInv => OrderTypeOK
    BY DEF OrderInv
<1> QED  BY <1>1, OrderInvariance, PTL

(* The order is topological and names no node twice.                       *)
THEOREM Topological == OrderSpec => []OrderIsTopological
<1>1. OrderInv => OrderIsTopological
    BY DEF OrderInv
<1> QED  BY <1>1, OrderInvariance, PTL

(* Of all topological orders it is the least, hence a function of the      *)
(* graph: compilation, execution and replay agree on it.                   *)
THEOREM Least == OrderSpec => []OrderIsLeast
<1>1. OrderInv => OrderIsLeast
    BY DEF OrderInv
<1> QED  BY <1>1, OrderInvariance, PTL

(* A set of placed nodes is no knot: its first node has all predecessors   *)
(* in front of it.                                                         *)
LEMMA PlacedIsNoKnot ==
    ASSUME OrderTypeOK, OrderIsTopological, NEW S \in SUBSET Placed
    PROVE  ~Knot(S)
<1> SUFFICES ASSUME Knot(S) PROVE FALSE
    OBVIOUS
<1> DEFINE T == {i \in 1 .. Len(order) : order[i] \in S}
<1>1. Len(order) \in Nat /\ Placed \subseteq Id
    BY LengthOfOrder DEF OrderTypeOK
<1>2. T \in SUBSET Nat /\ T # {}
    BY <1>1 DEF Knot, Placed
<1>3. PICK x \in T : \A y \in T : x <= y
    <2> HIDE DEF T
    <2> QED  BY <1>2, LeastNumber
<1>4. PICK n \in S : Precedes(n, order[x])
    BY DEF Knot
<1>5. PICK k \in 1 .. x - 1 : order[k] = n
    BY <1>1, <1>4 DEF OrderIsTopological
<1>6. k \in T /\ k < x
    BY <1>1, <1>4, <1>5
<1> QED  BY <1>1, <1>2, <1>3, <1>6

(* compile_program's verdict is right on every graph: it reports a cycle   *)
(* if and only if there is a set of nodes that wait for each other.        *)
THEOREM CycleDetection == OrderSpec => []CycleIsDetected
<1>1. OrderInv => CycleIsDetected
    <2> SUFFICES ASSUME OrderInv, outcome # "running"
                 PROVE  outcome = "cycle" <=> \E S \in SUBSET Id : Knot(S)
        BY DEF CycleIsDetected
    <2>1. /\ OrderTypeOK /\ OrderIsTopological /\ ReadyIsFree
          /\ ready = {} /\ outcome = OrderVerdict
        BY DEF OrderInv, VerdictIsLast
    <2>2. Placed \subseteq Id
        BY <2>1, LengthOfOrder
    <2>3. outcome = "cycle" <=> Placed # Id
        BY <2>1, CompleteOrder DEF OrderVerdict
    <2>4. ASSUME Placed # Id PROVE Knot(Id \ Placed)
        <3>1. Id \ Placed # {}
            BY <2>2, <2>4
        <3>2. ASSUME NEW m \in Id \ Placed
              PROVE  \E n \in Id \ Placed : Precedes(n, m)
            BY <2>1 DEF ReadyIsFree, Free
        <3> QED  BY <3>1, <3>2 DEF Knot
    <2>5. ASSUME Placed = Id, NEW S \in SUBSET Id PROVE ~Knot(S)
        BY <2>1, <2>5, PlacedIsNoKnot
    <2> QED  BY <2>3, <2>4, <2>5
<1> QED  BY <1>1, OrderInvariance, PTL

-----------------------------------------------------------------------------
(* The order and the compiler.                                             *)

\* The graph that is ordered is the program's.
OrdersProgram == Id = Node /\ \A n, m \in Node : Precedes(n, m) <=> m \in program[n].successors

(* compile_program's test of the order's length is what Ordered says: the  *)
(* program compiles when no set of its nodes waits for itself, and         *)
(* topological_order has then placed every node behind its predecessors.   *)
THEOREM VerdictIsOrdered ==
    OrderSpec =>
        [](outcome # "running" /\ OrdersProgram =>
             /\ outcome = "ordered" <=> Ordered
             /\ Ordered => \A n \in Node : \E i \in 1 .. Len(order) :
                             /\ order[i] = n
                             /\ \A p \in Predecessors(n) :
                                   \E k \in 1 .. i - 1 : order[k] = p)
<1>1. ASSUME OrderInv, CycleIsDetected, outcome # "running", OrdersProgram
      PROVE  /\ outcome = "ordered" <=> Ordered
             /\ Ordered => \A n \in Node : \E i \in 1 .. Len(order) :
                             /\ order[i] = n
                             /\ \A p \in Predecessors(n) :
                                   \E k \in 1 .. i - 1 : order[k] = p
    <2>0. Id = Node
        BY <1>1 DEF OrdersProgram
    <2>1. /\ outcome = "ordered" \/ outcome = "cycle"
          /\ outcome = OrderVerdict
          /\ OrderTypeOK /\ OrderIsTopological
        BY <1>1 DEF OrderInv, VerdictIsLast, OrderTypeOK
    <2>2. ASSUME NEW S \in SUBSET Node, S # {}
          PROVE  Knot(S) <=> \A n \in S : Predecessors(n) \cap S # {}
        BY <1>1, <2>2 DEF Knot, OrdersProgram, Predecessors
    <2>3. Ordered <=> ~(\E S \in SUBSET Node : Knot(S))
        <3>1. ASSUME Ordered, NEW S \in SUBSET Node, Knot(S) PROVE FALSE
            <4>1. S # {}
                BY <3>1 DEF Knot
            <4>2. PICK n \in S : Predecessors(n) \cap S = {}
                BY <3>1, <4>1 DEF Ordered
            <4> QED  BY <2>2, <3>1, <4>1, <4>2
        <3>2. ASSUME ~Ordered PROVE \E S \in SUBSET Node : Knot(S)
            <4>1. PICK S \in (SUBSET Node) \ {{}} : \A n \in S : Predecessors(n) \cap S # {}
                BY <3>2 DEF Ordered
            <4>2. S \in SUBSET Node /\ S # {}
                BY <4>1
            <4>3. Knot(S)
                BY <2>2, <4>1, <4>2
            <4> QED  BY <4>2, <4>3
        <3> QED  BY <3>1, <3>2
    <2>4. outcome = "ordered" <=> Ordered
        BY <1>1, <2>0, <2>1, <2>3 DEF CycleIsDetected
    <2>5. ASSUME Ordered, NEW n \in Node
          PROVE  \E i \in 1 .. Len(order) :
                   /\ order[i] = n
                   /\ \A p \in Predecessors(n) : \E k \in 1 .. i - 1 : order[k] = p
        <3>1. Placed = Node
            BY <2>0, <2>1, <2>4, <2>5, CompleteOrder DEF OrderVerdict
        <3>2. PICK i \in 1 .. Len(order) : order[i] = n
            BY <3>1 DEF Placed
        <3>3. ASSUME NEW p \in Predecessors(n) PROVE \E k \in 1 .. i - 1 : order[k] = p
            <4>1. p \in Node /\ Precedes(p, order[i])
                BY <1>1, <3>2 DEF OrdersProgram, Predecessors
            <4> QED  BY <2>0, <2>1, <4>1 DEF OrderIsTopological
        <3> QED  BY <3>2, <3>3
    <2> QED  BY <2>4, <2>5
<1> QED  BY <1>1, OrderInvariance, CycleDetection, PTL
=============================================================================
