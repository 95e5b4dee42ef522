-------------------------- MODULE McpServerProofs --------------------------
(***************************************************************************)
(* Theorems about McpServer, for any processes, callers, sigils, distances *)
(* and thresholds, and any number of casts, calls and starts.              *)
(*                                                                         *)
(* The ids a call was given are its own until it has stored their rows, a  *)
(* stored row never changes, and a report is written before its row: so    *)
(* whatever a call read of a parent still holds when its cast is stored.   *)
(***************************************************************************)
EXTENDS McpServer, FiniteSetTheorems, SequenceTheorems, WellFoundedInduction, TLAPS

-----------------------------------------------------------------------------
(* Numbers.                                                                *)

(* A set of numbers that is not empty has a least one.                     *)
LEMMA LeastNumber ==
    ASSUME NEW T \in SUBSET Nat, T # {}
    PROVE  \E x \in T : \A y \in T : x <= y
<1> DEFINE R == OpToRel(<, Nat)
<1>1. IsWellFoundedOn(R, Nat)
    BY NatLessThanWellFounded
<1>2. PICK x \in T : \A y \in T : ~ (<<y, x>> \in R)
    <2> HIDE DEF R
    <2> QED BY <1>1, WFMin
<1>3. \A y \in T : ~ (y < x)
    BY <1>2 DEF OpToRel
<1> QED BY <1>3

(* One with a bound has a greatest one (ORDER BY ... DESC).                *)
LEMMA GreatestNumber ==
    ASSUME NEW T \in SUBSET Nat, T # {}, NEW m \in Nat, \A x \in T : x <= m
    PROVE  \E x \in T : \A y \in T : y <= x
<1> DEFINE D == {m - x : x \in T}
<1>1. D \in SUBSET Nat /\ D # {}
  <2>1. \A x \in T : m - x \in Nat
      OBVIOUS
  <2>2. PICK x \in T : TRUE
      OBVIOUS
  <2>3. m - x \in D
      BY <2>2
  <2>4. ASSUME NEW d \in D PROVE d \in Nat
    <3>1. PICK y \in T : d = m - y
        OBVIOUS
    <3> QED BY <3>1, <2>1
  <2> HIDE DEF D
  <2> QED BY <2>3, <2>4
<1>2. PICK d \in D : \A e \in D : d <= e
    <2> HIDE DEF D
    <2> QED BY <1>1, LeastNumber
<1>3. PICK x \in T : d = m - x
    BY <1>2
<1>4. ASSUME NEW y \in T PROVE y <= x
    BY <1>2, <1>3
<1> QED BY <1>4

-----------------------------------------------------------------------------
Row == [sigil : Sigil, parent : Nat, depth : Nat]
Drift == [parent : Nat, l2 : Nat, cosine : Nat, status : Standing]
Levels == [Field -> Nat]
Item == [id : CastId, row : Row]
Label == {"idle", "parent", "report", "insert", "predict", "keep", "kept", "set_row",
          "set_memory", "fill", "fill_write", "returned", "raised"}
CallFrame == [pc : Label, todo : Seq(Item), asked : Nat, report : Drift \cup {NoReport},
              wanted : Levels \cup {NoThresholds}, pairs : SUBSET CastId,
              answer : Drift \cup {NoReport}]

Typed ==
    /\ casts \in [CastId -> Row \cup {NoRow}]
    /\ reports \in [CastId -> Drift \cup {NoReport}]
    /\ thresholds \in Levels \cup {NoThresholds}
    /\ active \in [Process -> Levels]
    /\ cached \in [Process -> [CastId -> Drift \cup {NoReport}]]
    /\ frame \in [Caller -> CallFrame]
    /\ issued \in Nat
    /\ inForce \subseteq Levels
    /\ detached \subseteq CastId
    /\ running \subseteq Process
    /\ old \subseteq Nat

-----------------------------------------------------------------------------
(* Answers.                                                                *)

\* What the loop owes, and that its call is one of the message in hand.
LoopInv ==
    /\ due \in Nat /\ sent \in Nat
    /\ IF Up(Loop)
       THEN due = sent + (IF request = NoRequest THEN 0 ELSE 1)
       ELSE due = 0 /\ sent = 0 /\ request = NoRequest
    /\ ~At(Loop, "idle") => request \notin {NoRequest, "elsewhere"}

-----------------------------------------------------------------------------
(* Thresholds.                                                             *)

\* One call at a time is between the row and the memory, and until it is
\* through only its own process has other thresholds than the row.
Agreed ==
    IF \E c \in Caller : At(c, "set_memory")
    THEN \A c \in Caller : At(c, "set_memory") =>
            /\ \A d \in Caller \ {c} : ~At(d, "set_memory")
            /\ frame[c].wanted = Effective
            /\ \A p \in running \ {Home[c]} : active[p] = Effective
    ELSE \A p \in running : active[p] = Effective

ThresholdInv ==
    /\ Effective \in inForce /\ Default \in inForce
    /\ \A p \in Process : active[p] \in inForce
    /\ \A c \in Caller : Setting(c) => frame[c].wanted \in Levels
    /\ \A c \in Caller : At(c, "set_memory") => frame[c].wanted \in inForce
    /\ contended \in BOOLEAN
    /\ ~contended => Agreed

-----------------------------------------------------------------------------
(* Casts and reports.                                                      *)

Casting(c) == frame[c].pc \in {"parent", "report", "insert", "predict", "keep"}
Holds(c, i) == Casting(c) /\ \E k \in DOMAIN frame[c].todo : frame[c].todo[k].id = i

\* An id whose row was dropped: nobody will write it.
Skipped(i) ==
    i \in CastId /\ i <= issued /\ ~Stored(i) /\ \A c \in Caller : ~Holds(c, i)

Justified(parent, sigil, r) ==
    \E t \in inForce : r = Report(parent, casts[parent].sigil, sigil, t)

Child(i, row) ==
    /\ row.parent # 0
    /\ row.parent < i
    /\ Stored(row.parent)
    /\ row.depth = casts[row.parent].depth + 1

RowInv(i) ==
    IF casts[i].parent = 0
    THEN casts[i].depth = 0 /\ reports[i] = NoReport
    ELSE /\ casts[i].parent < i
         /\ IF i \in detached THEN Skipped(casts[i].parent) ELSE Child(i, casts[i])
         /\ IF i \in detached THEN reports[i] = NoReport
            ELSE \/ i \in old /\ reports[i] = NoReport
                 \/ Justified(casts[i].parent, casts[i].sigil, reports[i])

TableInv ==
    /\ \A i \in CastId : Stored(i) => RowInv(i)
    /\ \A i \in CastId : i > issued => ~Stored(i) /\ reports[i] = NoReport
    /\ \A i \in detached : Stored(i)
    /\ \A i \in old : i <= issued

\* The casts a call still has to write: a chain, and no one else's.
TodoInv(c) ==
    LET todo == frame[c].todo
    IN  /\ todo # <<>>
        /\ \A k \in DOMAIN todo :
              /\ todo[k].id = todo[1].id + (k - 1)
              /\ todo[k].id <= issued
              /\ ~Stored(todo[k].id)
              /\ todo[k].id \notin old \cup detached
              /\ \A d \in Caller \ {c} : ~Holds(d, todo[k].id)
        /\ \A k \in DOMAIN todo \ {1} :
              /\ todo[k].row.parent = todo[k - 1].id
              /\ todo[k].row.depth = todo[k - 1].row.depth + 1
              /\ reports[todo[k].id] = NoReport

\* The cast in front.
HeadInv(c) ==
    LET i == frame[c].todo[1].id
        row == frame[c].todo[1].row
    IN  /\ At(c, "parent") =>
              /\ reports[i] = NoReport
              /\ IF frame[c].asked = 0 THEN Child(i, row)
                 ELSE frame[c].asked < i /\ Len(frame[c].todo) = 1
        /\ At(c, "report") =>
              Child(i, row) /\ Justified(row.parent, row.sigil, frame[c].report)
        /\ At(c, "insert") =>
              IF row.parent = 0 THEN row.depth = 0 /\ reports[i] = NoReport
              ELSE /\ Child(i, row)
                   /\ Justified(row.parent, row.sigil, reports[i])
                   /\ cached[Home[c]][i] = reports[i]
        /\ At(c, "predict") \/ At(c, "keep") =>
              /\ reports[i] = NoReport
              /\ Len(frame[c].todo) = 1
              /\ IF row.parent = 0 THEN row.depth = 0
                 ELSE row.parent < i /\ Skipped(row.parent)

\* The cast a call has written.
AnswerInv(c) ==
    /\ At(c, "kept") => frame[c].todo # <<>>
    /\ (At(c, "returned") \/ At(c, "kept")) /\ frame[c].todo # <<>> =>
        LET i == frame[c].todo[1].id
        IN  /\ i \in CastId
            /\ casts[i] = frame[c].todo[1].row
            /\ i \notin old
            /\ At(c, "kept") => reports[i] = NoReport
            /\ At(c, "returned") => frame[c].answer = reports[i]

FillInv(c) ==
    /\ At(c, "fill") \/ At(c, "fill_write") =>
          \A i \in frame[c].pairs : Stored(i) /\ casts[i].parent # 0 /\ i \in old \cup detached
    /\ At(c, "fill_write") =>
          /\ frame[c].pairs # {}
          /\ LET i == Pair(c)
             IN  /\ Stored(casts[i].parent)
                 /\ Justified(casts[i].parent, casts[i].sigil, frame[c].report)

CallInv(c) ==
    /\ Casting(c) => TodoInv(c) /\ HeadInv(c)
    /\ AnswerInv(c)
    /\ FillInv(c)

\* What a process remembers of a report is in the table.
CacheInv ==
    \A p \in Process, i \in CastId : reports[i] = NoReport => cached[p][i] = NoReport

IInv ==
    /\ Typed
    /\ LoopInv
    /\ ThresholdInv
    /\ TableInv
    /\ CacheInv
    /\ \A c \in Caller : CallInv(c)

-----------------------------------------------------------------------------
(* Frames.                                                                 *)

\* A step of the call of c.
OnlyCall(c) == frame' \in [Caller -> CallFrame] /\ \A d \in Caller \ {c} : frame'[d] = frame[d]

LEMMA IdleTyped == Idle \in CallFrame /\ Idle.pc = "idle" /\ Idle.todo = <<>>
<1>1. <<>> \in Seq(Item)
    OBVIOUS
<1> QED BY <1>1 DEF Idle, CallFrame, Label

LEMMA BecomeTyped ==
    ASSUME Typed, NEW c \in Caller, NEW f \in CallFrame, Become(c, f)
    PROVE  OnlyCall(c) /\ frame'[c] = f
BY DEF Become, Typed, OnlyCall

LEMMA GotoTyped ==
    ASSUME Typed, NEW c \in Caller, NEW label \in Label, Goto(c, label)
    PROVE  /\ OnlyCall(c)
           /\ frame'[c].pc = label /\ frame'[c].todo = frame[c].todo
           /\ frame'[c].wanted = frame[c].wanted
<1> DEFINE f == [frame[c] EXCEPT !.pc = label]
<1>1. frame[c] \in CallFrame
    BY DEF Typed
<1>2. f \in CallFrame /\ f.pc = label /\ f.todo = frame[c].todo /\ f.wanted = frame[c].wanted
    BY <1>1 DEF CallFrame
<1>3. frame' = [frame EXCEPT ![c] = f]
    BY DEF Goto
<1> HIDE DEF f
<1> QED BY <1>2, <1>3 DEF Typed, OnlyCall

LEMMA RaiseTyped ==
    ASSUME Typed, NEW c \in Caller, Raise(c)
    PROVE  OnlyCall(c) /\ frame'[c].pc = "raised" /\ frame'[c].todo = <<>>
<1> DEFINE f == [Idle EXCEPT !.pc = "raised"]
<1>1. f \in CallFrame /\ f.pc = "raised" /\ f.todo = <<>>
    BY IdleTyped DEF CallFrame, Label
<1>2. Become(c, f)
    BY DEF Raise
<1> HIDE DEF f
<1> QED BY <1>1, <1>2, BecomeTyped

LEMMA ReturnTyped ==
    ASSUME Typed, NEW c \in Caller, Return(c, NoReport)
    PROVE  OnlyCall(c) /\ frame'[c].pc = "returned" /\ frame'[c].todo = <<>>
<1> DEFINE f == [Idle EXCEPT !.pc = "returned", !.answer = NoReport]
<1>1. f \in CallFrame /\ f.pc = "returned" /\ f.todo = <<>>
    BY IdleTyped DEF CallFrame, Label
<1>2. Become(c, f)
    BY DEF Return
<1> HIDE DEF f
<1> QED BY <1>1, <1>2, BecomeTyped

-----------------------------------------------------------------------------
(* Reports.                                                                *)

LEMMA ReportTyped ==
    ASSUME NEW parent \in Nat, NEW above \in Sigil, NEW below \in Sigil, NEW t
    PROVE  Report(parent, above, below, t) \in Drift
<1>1. L2[above, below] \in Nat /\ Cosine[above, below] \in Nat
    BY LineageAssumption
<1>2. Classify(L2[above, below], Cosine[above, below], t) \in Standing
    BY DEF Classify, Worst, Standing
<1> QED BY <1>1, <1>2 DEF Report, Drift

LEMMA DriftIsPresent == NoReport \notin Drift /\ NoRow \notin Row /\ NoThresholds \notin Levels
BY LineageAssumption DEF Drift, Row, Levels

LEMMA StoredRow ==
    ASSUME Typed, NEW i, Stored(i)
    PROVE  i \in CastId /\ i \in Nat /\ casts[i] \in Row
<1>1. i \in CastId /\ casts[i] # NoRow
    BY DEF Stored
<1>2. casts[i] \in Row
    BY <1>1 DEF Typed
<1>3. i \in Nat
    BY <1>1, LineageAssumption DEF CastId
<1> QED BY <1>1, <1>2, <1>3

LEMMA DefaultTyped == Default \in Levels
BY DEF Default, Levels, Field

LEMMA EffectiveTyped ==
    ASSUME Typed PROVE Effective \in Levels
BY DefaultTyped DEF Typed, Effective

-----------------------------------------------------------------------------
(* What each step makes of its frame.                                      *)

\* A chain of n new casts, numbered from the ids that were made so far.
NewChain(todo, n) ==
    /\ todo \in Seq(Item) /\ Len(todo) = n
    /\ \A k \in 1 .. n : todo[k].id = issued + k
    /\ todo[1].row.parent = 0 /\ todo[1].row.depth = 0
    /\ \A k \in 2 .. n : /\ todo[k].row.parent = issued + k - 1
                         /\ todo[k].row.depth = todo[k - 1].row.depth + 1

LEMMA BeginEffect ==
    ASSUME Typed, NEW c \in Caller, NEW n \in Nat \ {0}, NEW items, NEW asked \in Nat,
           NewChain(items, n), Begin(c, items, asked)
    PROVE  /\ OnlyCall(c) /\ issued' = issued + n
           /\ frame'[c].pc = IF asked # 0 THEN "parent" ELSE "insert"
           /\ frame'[c].todo = items /\ frame'[c].asked = asked
<1> DEFINE f == [Idle EXCEPT !.pc = IF asked # 0 THEN "parent" ELSE "insert",
                             !.todo = items, !.asked = asked]
<1>1. /\ f \in CallFrame /\ f.pc = (IF asked # 0 THEN "parent" ELSE "insert")
      /\ f.todo = items /\ f.asked = asked
    BY IdleTyped DEF CallFrame, Label, NewChain
<1>2. Become(c, f) /\ issued' = issued + n
    BY DEF Begin, NewChain
<1> HIDE DEF f
<1> QED BY <1>1, <1>2, BecomeTyped

LEMMA CastEffect ==
    ASSUME Typed, NEW c \in Caller, NEW parent \in 0 .. issued, Cast(c, parent)
    PROVE  /\ OnlyCall(c) /\ issued' = issued + 1
           /\ frame'[c].pc = IF parent # 0 THEN "parent" ELSE "insert"
           /\ NewChain(frame'[c].todo, 1) /\ frame'[c].asked = parent
<1>1. PICK sigil \in Resolves[Home[c]] :
         /\ issued < MaxCasts
         /\ Begin(c, <<[id |-> issued + 1, row |-> Root(sigil)]>>, parent)
    BY DEF Cast
<1> DEFINE item == [id |-> issued + 1, row |-> Root(sigil)]
<1>2. issued \in Nat /\ MaxCasts \in Nat /\ sigil \in Sigil
    BY LineageAssumption DEF Typed
<1>3. /\ item \in Item /\ item.id = issued + 1
      /\ item.row.parent = 0 /\ item.row.depth = 0
    BY <1>1, <1>2 DEF Item, Row, Root, CastId
<1> HIDE DEF item
<1>4. NewChain(<<item>>, 1)
    BY <1>3 DEF NewChain
<1>5. Begin(c, <<item>>, parent)
    BY <1>1 DEF item
<1> QED BY <1>2, <1>4, <1>5, BeginEffect

\* The k-th cast of a chain.
LEMMA ChainItem ==
    ASSUME NEW sigil \in Sigil, issued \in Nat, NEW k \in Nat \ {0}, issued + k <= MaxCasts
    PROVE  LET item == [id |-> issued + k, row |-> ChainRow(issued + 1, sigil, k)]
           IN  /\ item \in Item /\ item.id = issued + k /\ item.row.depth = k - 1
               /\ item.row.parent = IF k = 1 THEN 0 ELSE issued + k - 1
<1> DEFINE row == ChainRow(issued + 1, sigil, k)
<1>1. /\ row \in Row /\ row.depth = k - 1
      /\ row.parent = IF k = 1 THEN 0 ELSE issued + k - 1
    BY DEF ChainRow, Row, Root
<1>2. issued + k \in CastId
    BY LineageAssumption DEF CastId
<1> HIDE DEF row
<1> DEFINE item == [id |-> issued + k, row |-> row]
<1>3. /\ item \in Item /\ item.id = issued + k /\ item.row.depth = k - 1
      /\ item.row.parent = IF k = 1 THEN 0 ELSE issued + k - 1
    BY <1>1, <1>2 DEF Item
<1> QED BY <1>3 DEF row

LEMMA AutoCastEffect ==
    ASSUME Typed, NEW c \in Caller, AutoCast(c)
    PROVE  \E n \in Nat \ {0} :
               /\ OnlyCall(c) /\ issued' = issued + n
               /\ frame'[c].pc = "insert"
               /\ NewChain(frame'[c].todo, n) /\ frame'[c].asked = 0
<1>1. PICK n \in 1 .. MaxChain, sigil \in Interpolated :
         /\ issued + n <= MaxCasts
         /\ Begin(c, [k \in 1 .. n |-> [id |-> issued + k,
                                        row |-> ChainRow(issued + 1, sigil, k)]], 0)
    BY DEF AutoCast
<1> DEFINE items == [k \in 1 .. n |-> [id |-> issued + k,
                                       row |-> ChainRow(issued + 1, sigil, k)]]
<1>2. issued \in Nat /\ MaxCasts \in Nat /\ sigil \in Sigil /\ n \in Nat \ {0}
    BY LineageAssumption DEF Typed, Interpolated
<1>3. \A k \in 1 .. n : /\ items[k] \in Item /\ items[k].id = issued + k
                        /\ items[k].row.depth = k - 1
                        /\ items[k].row.parent = IF k = 1 THEN 0 ELSE issued + k - 1
  <2> TAKE k \in 1 .. n
  <2>1. k \in Nat \ {0} /\ issued + k <= MaxCasts
      BY <1>1, <1>2
  <2> QED BY <2>1, <1>2, ChainItem
<1>4. items \in Seq(Item) /\ Len(items) = n
    BY <1>2, <1>3
<1>5. Begin(c, items, 0)
    BY <1>1
<1> HIDE DEF items
<1>6. NewChain(items, n)
  <2>1. items[1].row.parent = 0 /\ items[1].row.depth = 0
      BY <1>2, <1>3
  <2>2. ASSUME NEW k \in 2 .. n
        PROVE  /\ items[k].row.parent = issued + k - 1
               /\ items[k].row.depth = items[k - 1].row.depth + 1
    <3>1. k \in 1 .. n /\ k - 1 \in 1 .. n /\ k # 1
        BY <1>2
    <3>2. items[k].row.parent = issued + k - 1
        BY <1>3, <3>1
    <3>3. items[k].row.depth = k - 1 /\ items[k - 1].row.depth = (k - 1) - 1
        BY <1>3, <3>1
    <3> QED BY <1>2, <3>2, <3>3
  <2> QED BY <1>3, <1>4, <2>1, <2>2 DEF NewChain
<1> QED BY <1>2, <1>5, <1>6, BeginEffect

\* One cast is left of those that were made, with the id made last.
LastIsKept(c, label) ==
    LET todo == frame'[c].todo
    IN  /\ OnlyCall(c) /\ issued' \in Nat /\ issued < issued'
        /\ frame'[c].pc = label
        /\ Len(todo) = 1 /\ todo[1] \in Item /\ todo[1].id = issued'
        /\ \/ todo[1].row.parent = 0 /\ todo[1].row.depth = 0
           \/ todo[1].row.parent = issued' - 1 /\ issued < issued' - 1

LEMMA KeepEffect ==
    ASSUME Typed, NEW c \in Caller, NEW label \in {"predict", "keep"},
           NEW n \in Nat \ {0}, NEW row \in Row, Keep(c, label, n, row),
           \/ row.parent = 0 /\ row.depth = 0
           \/ row.parent = issued + n - 1 /\ n # 1
    PROVE  LastIsKept(c, label)
<1> DEFINE item == [id |-> issued + n, row |-> row]
           f == [Idle EXCEPT !.pc = label, !.todo = <<item>>]
<1>1. issued \in Nat /\ MaxCasts \in Nat /\ issued + n <= MaxCasts /\ issued' = issued + n
    BY LineageAssumption DEF Typed, Keep
<1>2. item \in Item /\ item.id = issued + n /\ item.row = row
  <2>1. issued + n \in CastId
      BY <1>1 DEF CastId
  <2> QED BY <2>1 DEF Item
<1>3. Become(c, f)
    BY DEF Keep
<1> HIDE DEF item
<1>4. f \in CallFrame /\ f.pc = label /\ f.todo = <<item>>
  <2>1. <<item>> \in Seq(Item)
      BY <1>2
  <2> QED BY <2>1, IdleTyped DEF CallFrame, Label
<1> HIDE DEF f
<1>5. OnlyCall(c) /\ frame'[c] = f
    BY <1>3, <1>4, BecomeTyped
<1>6. Len(<<item>>) = 1 /\ <<item>>[1] = item
    OBVIOUS
<1>7. issued' \in Nat /\ issued < issued'
    BY <1>1
<1>8. \/ item.row.parent = 0 /\ item.row.depth = 0
      \/ item.row.parent = issued' - 1 /\ issued < issued' - 1
    BY <1>1, <1>2
<1> QED BY <1>1, <1>2, <1>4, <1>5, <1>6, <1>7, <1>8 DEF LastIsKept

LEMMA KeepLastEffect ==
    ASSUME Typed, NEW c \in Caller, NEW label \in {"predict", "keep"}, KeepLast(c, label)
    PROVE  LastIsKept(c, label)
<1>1. PICK n \in 1 .. MaxChain, sigil \in Interpolated :
         Keep(c, label, n, ChainRow(issued + 1, sigil, n))
    BY DEF KeepLast
<1>2. issued \in Nat /\ sigil \in Sigil /\ n \in Nat \ {0}
    BY LineageAssumption DEF Typed, Interpolated
<1> DEFINE row == ChainRow(issued + 1, sigil, n)
<1>3. /\ row \in Row /\ row.depth = n - 1
      /\ row.parent = IF n = 1 THEN 0 ELSE issued + n - 1
    BY <1>2 DEF ChainRow, Row, Root
<1>4. Keep(c, label, n, row)
    BY <1>1
<1> HIDE DEF row
<1> QED BY <1>2, <1>3, <1>4, KeepEffect

\* A cast without lineage.
LEMMA KeepRootEffect ==
    ASSUME Typed, NEW c \in Caller, NEW sigil \in Sigil, Keep(c, "keep", 1, Root(sigil))
    PROVE  LastIsKept(c, "keep")
<1>1. Root(sigil) \in Row /\ Root(sigil).parent = 0 /\ Root(sigil).depth = 0
    BY DEF Root, Row
<1> QED BY <1>1, KeepEffect

LEMMA PredictEffect ==
    ASSUME Typed, NEW c \in Caller, Predict(c)
    PROVE  LastIsKept(c, "predict")
BY KeepLastEffect DEF Predict

LEMMA DecideEffect ==
    ASSUME Typed, NEW c \in Caller, Decide(c) \/ GeometricCast(c)
    PROVE  LastIsKept(c, "keep")
<1>1. CASE \E sigil \in Sigil : Keep(c, "keep", 1, Root(sigil))
    BY <1>1, KeepRootEffect
<1>2. CASE KeepLast(c, "keep")
    BY <1>2, KeepLastEffect
<1>3. Resolves[Home[c]] \subseteq Sigil /\ Interpolated \subseteq Sigil
    BY LineageAssumption DEF Interpolated
<1> QED BY <1>1, <1>2, <1>3 DEF Decide, GeometricCast

LEMMA TailOfCasts ==
    ASSUME NEW todo \in Seq(Item), todo # <<>>
    PROVE  /\ Tail(todo) \in Seq(Item) /\ Len(Tail(todo)) = Len(todo) - 1
           /\ DOMAIN Tail(todo) = 1 .. Len(todo) - 1
           /\ \A k \in DOMAIN Tail(todo) : Tail(todo)[k] = todo[k + 1]
           /\ Head(todo) = todo[1] /\ todo[1] \in Item /\ 1 \in DOMAIN todo
           /\ DOMAIN todo = 1 .. Len(todo)
OBVIOUS

LEMMA NewFront ==
    ASSUME NEW todo \in Seq(Item), todo # <<>>, NEW item \in Item
    PROVE  LET new == <<item>> \o Tail(todo)
           IN  /\ new \in Seq(Item) /\ new # <<>> /\ Len(new) = Len(todo)
               /\ DOMAIN new = DOMAIN todo /\ new[1] = item
               /\ \A k \in DOMAIN todo \ {1} : new[k] = todo[k]
<1> DEFINE t == Tail(todo)
           new == <<item>> \o t
<1>1. /\ t \in Seq(Item) /\ Len(t) = Len(todo) - 1 /\ DOMAIN todo = 1 .. Len(todo)
      /\ \A k \in 1 .. Len(todo) - 1 : t[k] = todo[k + 1]
      /\ Len(todo) \in Nat \ {0}
    BY TailOfCasts
<1> HIDE DEF t
<1>2. <<item>> \in Seq(Item) /\ Len(<<item>>) = 1
    OBVIOUS
<1>3. /\ new \in Seq(Item) /\ Len(new) = 1 + Len(t)
      /\ new[1] = item
      /\ \A k \in 2 .. 1 + Len(t) : new[k] = t[k - 1]
    BY <1>1, <1>2
<1>4. Len(new) = Len(todo) /\ DOMAIN new = DOMAIN todo /\ new # <<>>
    BY <1>1, <1>3
<1>5. ASSUME NEW k \in DOMAIN todo \ {1} PROVE new[k] = todo[k]
    BY <1>1, <1>3
<1> QED BY <1>3, <1>4, <1>5 DEF t

LEMMA DescendantTyped ==
    ASSUME NEW row \in Row, NEW parent \in Nat, casts[parent].depth \in Nat
    PROVE  LET new == Descendant(row, parent)
           IN  /\ new \in Row /\ new.parent = parent /\ new.sigil = row.sigil
               /\ new.depth = casts[parent].depth + 1
<1> DEFINE depth == casts[parent].depth + 1
<1>1. depth \in Nat
    OBVIOUS
<1> HIDE DEF depth
<1> DEFINE new == [row EXCEPT !.parent = parent, !.depth = depth]
<1>2. new \in Row /\ new.parent = parent /\ new.sigil = row.sigil /\ new.depth = depth
    BY <1>1 DEF Row
<1> QED BY <1>2 DEF depth, Descendant

LEMMA ReadParentEffect ==
    ASSUME Typed, NEW c \in Caller, ReadParent(c), frame[c].todo # <<>>
    PROVE  LET todo == frame[c].todo
               new == frame'[c].todo
               row == new[1].row
           IN  /\ OnlyCall(c)
               /\ \/ frame'[c].pc = "raised" /\ new = <<>>
                  \/ /\ frame'[c].pc = "report"
                     /\ DOMAIN new = DOMAIN todo /\ new # <<>>
                     /\ \A k \in DOMAIN todo \ {1} : new[k] = todo[k]
                     /\ new[1].id = todo[1].id /\ row.sigil = todo[1].row.sigil
                     /\ Stored(row.parent)
                     /\ frame'[c].report = Report(row.parent, casts[row.parent].sigil,
                                                  row.sigil, active[Home[c]])
                     /\ IF frame[c].asked = 0 THEN row = todo[1].row
                        ELSE /\ row.parent = frame[c].asked
                             /\ row.depth = casts[row.parent].depth + 1
<1> DEFINE item == frame[c].todo[1]
           asked == frame[c].asked
           parent == IF asked # 0 THEN asked ELSE item.row.parent
           row == IF asked # 0 THEN Descendant(item.row, parent) ELSE item.row
<1>1. /\ frame[c] \in CallFrame /\ frame[c].todo \in Seq(Item)
      /\ item \in Item /\ Now(c) = item /\ asked \in Nat
    BY TailOfCasts DEF Typed, CallFrame, Now
<1>2. \/ Raise(c)
      \/ /\ Reads(Home[c], parent)
         /\ Become(c, [frame[c] EXCEPT
                !.pc = "report",
                !.todo = <<[id |-> item.id, row |-> row]>> \o Tail(frame[c].todo),
                !.report = Report(parent, casts[parent].sigil, row.sigil, active[Home[c]])])
    BY <1>1 DEF ReadParent
<1>3. CASE Raise(c)
    BY <1>3, RaiseTyped
<1>4. CASE /\ Reads(Home[c], parent)
           /\ Become(c, [frame[c] EXCEPT
                !.pc = "report",
                !.todo = <<[id |-> item.id, row |-> row]>> \o Tail(frame[c].todo),
                !.report = Report(parent, casts[parent].sigil, row.sigil, active[Home[c]])])
  <2>1. /\ parent \in CastId /\ parent \in Nat /\ Stored(parent) /\ casts[parent] \in Row
    <3>1. parent \in CastId /\ Stored(parent) /\ casts[parent] # NoRow
        BY <1>4 DEF Reads, Stored
    <3> HIDE DEF parent
    <3> QED BY <3>1, StoredRow
  <2>2. /\ row \in Row /\ row.parent = parent /\ row.sigil = item.row.sigil
        /\ asked = 0 => row = item.row
        /\ asked # 0 => row.depth = casts[parent].depth + 1
    <3>1. item.row \in Row /\ casts[parent].depth \in Nat
        BY <1>1, <2>1 DEF Item, Row
    <3>2. CASE asked = 0
        BY <3>1, <3>2
    <3>3. CASE asked # 0
      <4>1. row = Descendant(item.row, parent) /\ parent = asked
          BY <3>3
      <4> HIDE DEF parent, row, item, asked
      <4> QED BY <4>1, <3>1, <3>3, <2>1, DescendantTyped
    <3> QED BY <3>2, <3>3
  <2> HIDE DEF row
  <2> DEFINE new == [id |-> item.id, row |-> row]
  <2>3. new \in Item /\ new.id = item.id /\ new.row = row
      BY <1>1, <2>2 DEF Item
  <2> HIDE DEF new
  <2> DEFINE todo == <<new>> \o Tail(frame[c].todo)
             report == Report(parent, casts[parent].sigil, row.sigil, active[Home[c]])
  <2>4. /\ todo \in Seq(Item) /\ DOMAIN todo = DOMAIN frame[c].todo /\ todo # <<>>
        /\ todo[1] = new
        /\ \A k \in DOMAIN frame[c].todo \ {1} : todo[k] = frame[c].todo[k]
      BY <1>1, <2>3, NewFront
  <2>5. report \in Drift
      BY <2>1, <2>2, ReportTyped DEF Row
  <2> HIDE DEF todo, report
  <2> DEFINE f == [frame[c] EXCEPT !.pc = "report", !.todo = todo, !.report = report]
  <2>6. f \in CallFrame /\ f.pc = "report" /\ f.todo = todo /\ f.report = report
      BY <1>1, <2>4, <2>5 DEF CallFrame, Label
  <2>7. Become(c, f)
      BY <1>4 DEF todo, report, new
  <2> HIDE DEF f
  <2>8. OnlyCall(c) /\ frame'[c] = f
      BY <2>6, <2>7, BecomeTyped
  <2>9. frame'[c].report = Report(parent, casts[parent].sigil, row.sigil, active[Home[c]])
      BY <2>6, <2>8 DEF report
  <2> HIDE DEF parent
  <2>10. parent = IF asked # 0 THEN asked ELSE item.row.parent
      BY DEF parent
  <2> QED BY <2>1, <2>2, <2>3, <2>4, <2>6, <2>8, <2>9, <2>10
<1> QED BY <1>2, <1>3, <1>4

LEMMA ToldTyped ==
    ASSUME Typed, NEW p \in Process, NEW item \in Item
    PROVE  Told(p, item) \in Drift \cup {NoReport}
BY DEF Typed, Item, Told

LEMMA WriteCastEffect ==
    ASSUME Typed, NEW c \in Caller, WriteCast(c), frame[c].todo # <<>>
    PROVE  LET todo == frame[c].todo
               new == frame'[c].todo
           IN  /\ OnlyCall(c)
               /\ \/ frame'[c].pc = "raised" /\ new = <<>> /\ casts' = casts
                  \/ /\ casts' = RowWritten(todo[1].id, todo[1].row)
                     /\ \/ /\ Len(todo) = 1 /\ frame'[c].pc = "returned" /\ new = todo
                           /\ frame'[c].answer = Told(Home[c], todo[1])
                        \/ /\ Len(todo) # 1 /\ frame'[c].pc = "parent"
                           /\ new = Tail(todo) /\ frame'[c].asked = 0
<1> DEFINE todo == frame[c].todo
           item == todo[1]
<1>1. /\ todo \in Seq(Item) /\ Tail(todo) \in Seq(Item) /\ todo # <<>>
      /\ item \in Item /\ Now(c) = item
    BY TailOfCasts DEF Typed, CallFrame, Now
<1> HIDE DEF item
<1>2. \/ Broken(c) /\ casts' = casts
      \/ /\ casts' = RowWritten(item.id, item.row)
         /\ Len(todo) = 1
         /\ Become(c, [Idle EXCEPT !.pc = "returned", !.todo = todo,
                                   !.answer = Told(Home[c], item)])
      \/ /\ casts' = RowWritten(item.id, item.row)
         /\ Len(todo) # 1
         /\ Become(c, [Idle EXCEPT !.pc = "parent", !.todo = Tail(todo)])
    BY <1>1 DEF WriteCast
<1>3. CASE Broken(c) /\ casts' = casts
    BY <1>3, RaiseTyped DEF Broken
<1>4. CASE /\ casts' = RowWritten(item.id, item.row)
           /\ Len(todo) = 1
           /\ Become(c, [Idle EXCEPT !.pc = "returned", !.todo = todo,
                                     !.answer = Told(Home[c], item)])
  <2> DEFINE answer == Told(Home[c], item)
  <2>1. answer \in Drift \cup {NoReport}
      BY <1>1, ToldTyped, LineageAssumption
  <2> HIDE DEF answer
  <2> DEFINE f == [Idle EXCEPT !.pc = "returned", !.todo = todo, !.answer = answer]
  <2>2. f \in CallFrame /\ f.pc = "returned" /\ f.todo = todo /\ f.answer = answer
      BY <1>1, <2>1, IdleTyped DEF CallFrame, Label
  <2>3. Become(c, f)
      BY <1>4 DEF answer
  <2> HIDE DEF f
  <2>4. OnlyCall(c) /\ frame'[c] = f
      BY <2>2, <2>3, BecomeTyped
  <2> QED BY <1>4, <2>2, <2>4 DEF answer, item
<1>5. CASE /\ casts' = RowWritten(item.id, item.row)
           /\ Len(todo) # 1
           /\ Become(c, [Idle EXCEPT !.pc = "parent", !.todo = Tail(todo)])
  <2> DEFINE rest == Tail(todo)
             f == [Idle EXCEPT !.pc = "parent", !.todo = rest]
  <2>1. rest \in Seq(Item)
      BY <1>1
  <2> HIDE DEF rest
  <2>2. f \in CallFrame /\ f.pc = "parent" /\ f.todo = rest /\ f.asked = 0
      BY <2>1, IdleTyped DEF CallFrame, Label, Idle
  <2>3. Become(c, f)
      BY <1>5 DEF rest
  <2> HIDE DEF f
  <2>4. OnlyCall(c) /\ frame'[c] = f
      BY <2>2, <2>3, BecomeTyped
  <2> QED BY <1>5, <2>2, <2>4 DEF rest, item
<1> QED BY <1>2, <1>3, <1>4, <1>5

LEMMA WriteKeptEffect ==
    ASSUME Typed, NEW c \in Caller, WriteKept(c), frame[c].todo # <<>>
    PROVE  LET todo == frame[c].todo
               new == frame'[c].todo
           IN  /\ OnlyCall(c)
               /\ \/ frame'[c].pc = "raised" /\ new = <<>> /\ UNCHANGED <<casts, detached>>
                  \/ /\ casts' = RowWritten(todo[1].id, todo[1].row)
                     /\ detached' = Detached(todo[1])
                     /\ frame'[c].pc = "kept" /\ new = todo
<1>1. Now(c) = frame[c].todo[1]
    BY TailOfCasts DEF Typed, CallFrame, Now
<1>2. CASE Broken(c) /\ UNCHANGED <<casts, detached>>
    BY <1>2, RaiseTyped DEF Broken
<1>3. CASE /\ casts' = RowWritten(Now(c).id, Now(c).row)
           /\ detached' = Detached(Now(c))
           /\ Goto(c, "kept")
  <2>1. "kept" \in Label
      BY DEF Label
  <2>2. OnlyCall(c) /\ frame'[c].pc = "kept" /\ frame'[c].todo = frame[c].todo
      BY <1>3, <2>1, GotoTyped
  <2> QED BY <1>1, <1>3, <2>2
<1> QED BY <1>2, <1>3 DEF WriteKept

LEMMA AnswerKeptEffect ==
    ASSUME Typed, NEW c \in Caller, AnswerKept(c), frame[c].todo # <<>>
    PROVE  LET todo == frame[c].todo
               new == frame'[c].todo
           IN  /\ OnlyCall(c)
               /\ \/ frame'[c].pc = "raised" /\ new = <<>>
                  \/ /\ frame'[c].pc = "returned" /\ new = todo
                     /\ frame'[c].answer = Told(Home[c], todo[1])
<1> DEFINE todo == frame[c].todo
<1>1. todo \in Seq(Item) /\ todo[1] \in Item /\ Now(c) = todo[1]
    BY TailOfCasts DEF Typed, CallFrame, Now
<1>2. CASE Broken(c)
    BY <1>2, RaiseTyped DEF Broken
<1>3. CASE Become(c, [Idle EXCEPT !.pc = "returned", !.todo = todo,
                                  !.answer = Told(Home[c], Now(c))])
  <2> DEFINE answer == Told(Home[c], todo[1])
  <2>1. answer \in Drift \cup {NoReport}
      BY <1>1, ToldTyped, LineageAssumption
  <2>2. Become(c, [Idle EXCEPT !.pc = "returned", !.todo = todo, !.answer = answer])
      BY <1>1, <1>3
  <2> HIDE DEF answer
  <2> DEFINE f == [Idle EXCEPT !.pc = "returned", !.todo = todo, !.answer = answer]
  <2>3. f \in CallFrame /\ f.pc = "returned" /\ f.todo = todo /\ f.answer = answer
      BY <1>1, <2>1, IdleTyped DEF CallFrame, Label
  <2>4. Become(c, f)
      BY <2>2
  <2> HIDE DEF f
  <2>5. OnlyCall(c) /\ frame'[c] = f
      BY <2>3, <2>4, BecomeTyped
  <2> QED BY <2>3, <2>5 DEF answer
<1> QED BY <1>2, <1>3 DEF AnswerKept

LEMMA MergedTyped ==
    ASSUME NEW payload \in Payload, NEW base \in Levels
    PROVE  Merged(payload, base) \in Levels
BY LineageAssumption DEF Merged, Levels

LEMMA SetEffect ==
    ASSUME Typed, NEW c \in Caller, NEW payload \in Payload, SetThresholds(c, payload)
    PROVE  /\ OnlyCall(c) /\ frame'[c].todo = <<>>
           /\ \/ frame'[c].pc = "raised"
              \/ frame'[c].pc = "set_row" /\ frame'[c].wanted \in Levels
<1> DEFINE wanted == Merged(payload, active[Home[c]])
           f == [Idle EXCEPT !.pc = "set_row", !.wanted = wanted]
<1>1. active[Home[c]] \in Levels
    BY LineageAssumption DEF Typed
<1>2. wanted \in Levels
    BY <1>1, MergedTyped
<1>3. Become(c, f) \/ Raise(c)
    BY DEF SetThresholds
<1> HIDE DEF wanted
<1>4. /\ f \in CallFrame /\ f.pc = "set_row" /\ f.todo = <<>>
      /\ f.wanted = wanted
    BY <1>2, IdleTyped DEF CallFrame, Label
<1> HIDE DEF f
<1> QED BY <1>2, <1>3, <1>4, BecomeTyped, RaiseTyped

LEMMA BackfillEffect ==
    ASSUME Typed, NEW c \in Caller, Backfill(c)
    PROVE  /\ OnlyCall(c) /\ frame'[c].todo = <<>>
           /\ frame'[c].pc = "fill" /\ frame'[c].pairs \subseteq Missing
<1> DEFINE ids == Newest(Missing)
           f == [Idle EXCEPT !.pc = "fill", !.pairs = ids]
<1>1. ids \subseteq Missing /\ ids \in SUBSET CastId
    BY DEF Newest, Missing
<1>2. Become(c, f)
    BY DEF Backfill
<1> HIDE DEF ids
<1>3. f \in CallFrame /\ f.pc = "fill" /\ f.todo = <<>> /\ f.pairs = ids
    BY <1>1, IdleTyped DEF CallFrame, Label
<1> HIDE DEF f
<1> QED BY <1>1, <1>2, <1>3, BecomeTyped

LEMMA PairIsOne ==
    ASSUME NEW c \in Caller, frame[c].pairs # {}, frame[c].pairs \subseteq CastId
    PROVE  Pair(c) \in frame[c].pairs
<1>1. frame[c].pairs \subseteq Nat /\ \A i \in frame[c].pairs : i <= MaxCasts
    BY LineageAssumption DEF CastId
<1>2. \E i \in frame[c].pairs : \A j \in frame[c].pairs : j <= i
    BY <1>1, GreatestNumber, LineageAssumption
<1> QED BY <1>2 DEF Pair

LEMMA FillReadEffect ==
    ASSUME Typed, NEW c \in Caller, FillRead(c)
    PROVE  LET i == Pair(c)
               parent == casts[i].parent
           IN  /\ OnlyCall(c) /\ frame'[c].todo = frame[c].todo /\ i \in frame[c].pairs
               /\ \/ /\ frame'[c].pc = "fill" /\ frame'[c].pairs = frame[c].pairs \ {i}
                  \/ /\ frame'[c].pc = "fill_write" /\ frame'[c].pairs = frame[c].pairs
                     /\ Stored(parent)
                     /\ frame'[c].report = Report(parent, casts[parent].sigil,
                                                  casts[i].sigil, Effective)
<1> DEFINE i == Pair(c)
           parent == casts[i].parent
           report == Report(parent, casts[parent].sigil, casts[i].sigil, Effective)
<1>1. frame[c] \in CallFrame /\ frame[c].pairs \subseteq CastId
    BY DEF Typed, CallFrame
<1>2. i \in frame[c].pairs
    BY <1>1, PairIsOne DEF FillRead
<1> HIDE DEF i
<1>3. \/ /\ Reads(Home[c], i) /\ Reads(Home[c], parent)
         /\ Become(c, [frame[c] EXCEPT !.pc = "fill_write", !.report = report])
      \/ Become(c, [frame[c] EXCEPT !.pairs = frame[c].pairs \ {i}])
    BY DEF FillRead, i
<1>4. CASE Become(c, [frame[c] EXCEPT !.pairs = frame[c].pairs \ {i}])
  <2> DEFINE f == [frame[c] EXCEPT !.pairs = frame[c].pairs \ {i}]
  <2>1. /\ f \in CallFrame /\ f.pc = "fill" /\ f.pairs = frame[c].pairs \ {i}
        /\ f.todo = frame[c].todo
      BY <1>1 DEF CallFrame, FillRead, At
  <2>2. Become(c, f)
      BY <1>4
  <2> HIDE DEF f
  <2> QED BY <1>2, <2>1, <2>2, BecomeTyped DEF i
<1>5. CASE /\ Reads(Home[c], i) /\ Reads(Home[c], parent)
           /\ Become(c, [frame[c] EXCEPT !.pc = "fill_write", !.report = report])
  <2>1. /\ Stored(parent) /\ Stored(i) /\ parent \in CastId /\ i \in CastId
        /\ casts[parent] # NoRow /\ casts[i] # NoRow
      BY <1>5 DEF Reads, Stored
  <2>2. casts[parent] \in Row /\ casts[i] \in Row
    <3> HIDE DEF parent
    <3> QED BY <2>1 DEF Typed
  <2>3. parent \in Nat /\ casts[parent].sigil \in Sigil /\ casts[i].sigil \in Sigil
      BY <2>2 DEF Row
  <2>4. report \in Drift
    <3> HIDE DEF parent
    <3> QED BY <2>3, ReportTyped
  <2> HIDE DEF report
  <2> DEFINE f == [frame[c] EXCEPT !.pc = "fill_write", !.report = report]
  <2>5. /\ f \in CallFrame /\ f.pc = "fill_write" /\ f.pairs = frame[c].pairs
        /\ f.todo = frame[c].todo /\ f.report = report
      BY <1>1, <2>4 DEF CallFrame, Label
  <2>6. Become(c, f)
      BY <1>5
  <2> HIDE DEF f
  <2> QED BY <1>2, <2>1, <2>5, <2>6, BecomeTyped DEF i, report
<1> QED BY <1>3, <1>4, <1>5

LEMMA FillWriteEffect ==
    ASSUME Typed, NEW c \in Caller, FillWrite(c)
    PROVE  /\ OnlyCall(c) /\ frame'[c].todo = <<>>
           /\ frame'[c].pc = "fill" /\ frame'[c].pairs = frame[c].pairs \ {Pair(c)}
<1> DEFINE pairs == frame[c].pairs \ {Pair(c)}
           f == [Idle EXCEPT !.pc = "fill", !.pairs = pairs]
<1>1. pairs \in SUBSET CastId
    BY DEF Typed, CallFrame
<1>2. Become(c, f)
    BY DEF FillWrite
<1> HIDE DEF pairs
<1>3. f \in CallFrame /\ f.pc = "fill" /\ f.todo = <<>> /\ f.pairs = pairs
    BY <1>1, IdleTyped DEF CallFrame, Label
<1> HIDE DEF f
<1> QED BY <1>2, <1>3, BecomeTyped DEF pairs

-----------------------------------------------------------------------------
(* The steps, one call or one process at a time.                           *)

Move(c) ==
    \/ NewCast(c) \/ AutoCast(c) \/ Predict(c) \/ Decide(c) \/ GeometricCast(c)
    \/ NewSet(c) \/ Backfill(c) \/ Refuse(c) \/ Reply(c)
    \/ ReadParent(c) \/ WriteReport(c) \/ WriteCast(c) \/ WritePrediction(c)
    \/ WriteKept(c) \/ AnswerKept(c)
    \/ WriteThresholds(c) \/ KeepThresholds(c)
    \/ FillRead(c) \/ FillWrite(c) \/ FillEnds(c)

\* The cast of a swarm has no parent.
LEMMA SwarmIsCast ==
    ASSUME issued \in Nat, NEW c, SwarmCast(c)
    PROVE  NewCast(c)
BY DEF SwarmCast, NewCast

LEMMA Steps ==
    ASSUME [Next]_vars, Typed
    PROVE  \/ UNCHANGED lineageVars
           \/ \E p \in Process : Start(p) \/ Exit(p)
           \/ \E c \in Caller : Move(c)
<1>1. CASE UNCHANGED vars
    BY <1>1 DEF vars
<1>2. ASSUME NEW p \in Process, Begins(p) \/ Ends(p) PROVE Start(p) \/ Exit(p)
    BY <1>2 DEF Begins, Ends
<1>3. StopServer => \E p \in Process : Exit(p)
    BY LineageAssumption, McpAssumption DEF StopServer
<1>4. ASSUME NEW m, Read(m) PROVE UNCHANGED lineageVars \/ StopServer
    BY <1>4 DEF Read, vars
<1>5. AnswerElsewhere => UNCHANGED lineageVars
    BY DEF AnswerElsewhere
<1>6. RunTool \/ AnswerCall => Move(Loop)
    BY SwarmIsCast DEF RunTool, AnswerCall, Move, Typed
<1>7. ASSUME NEW c \in Caller, RequestThread(c) \/ Command(c) PROVE Move(c)
    BY <1>7, SwarmIsCast
       DEF RequestThread, Command, Move, Typed, cmd_cast, cmd_auto_cast,
           cmd_predictive_cast, cmd_decide, cmd_geometric_cast, cmd_swarm_cast,
           cmd_set_thresholds, cmd_backfill_divergence
<1>8. ASSUME NEW c \in Caller, CallStep(c) PROVE Move(c)
    BY <1>8 DEF CallStep, Move
<1> QED BY <1>1, <1>2, <1>3, <1>4, <1>5, <1>6, <1>7, <1>8, McpAssumption DEF Next

LEMMA TablesTyped ==
    ASSUME Typed, NEW c \in Caller, OnlyCall(c), UNCHANGED <<tables, memory, old, inForce, detached>>,
           issued' \in Nat
    PROVE  Typed'
BY DEF Typed, OnlyCall, tables, memory

LEMMA RememberedTyped ==
    ASSUME Typed, NEW p \in Process, NEW i, NEW r \in Drift \cup {NoReport}
    PROVE  Remembered(p, i, r) \in [Process -> [CastId -> Drift \cup {NoReport}]]
<1>1. [cached[p] EXCEPT ![i] = r] \in [CastId -> Drift \cup {NoReport}]
    BY DEF Typed
<1> QED BY <1>1 DEF Typed, Remembered

LEMMA MoveTyped ==
    ASSUME Typed, NEW c \in Caller, CallInv(c), Move(c),
           Setting(c) => frame[c].wanted \in Levels
    PROVE  Typed' /\ OnlyCall(c)
<1> USE DEF history, bounds
<1> DEFINE p == Home[c]
<1>0. /\ p \in Process /\ issued \in Nat
      /\ Casting(c) => frame[c].todo # <<>>
      /\ frame[c] \in CallFrame
    BY LineageAssumption DEF Typed, CallInv, TodoInv
<1>1. CASE NewCast(c)
  <2>1. PICK parent \in 0 .. issued : Cast(c, parent)
      BY <1>1 DEF NewCast
  <2>2. OnlyCall(c) /\ issued' \in Nat
      BY <1>0, <2>1, CastEffect
  <2> QED BY <2>1, <2>2, TablesTyped DEF Cast
<1>2. CASE AutoCast(c)
  <2>1. OnlyCall(c) /\ issued' \in Nat
      BY <1>0, <1>2, AutoCastEffect
  <2> QED BY <1>2, <2>1, TablesTyped DEF AutoCast
<1>3. CASE Predict(c)
  <2>1. OnlyCall(c) /\ issued' \in Nat
      BY <1>3, PredictEffect DEF LastIsKept
  <2> QED BY <1>3, <2>1, TablesTyped DEF Predict
<1>4. CASE NewSet(c)
  <2>1. PICK payload \in Payload : SetThresholds(c, payload)
      BY <1>4 DEF NewSet
  <2>2. OnlyCall(c)
      BY <2>1, SetEffect
  <2> QED BY <1>0, <2>1, <2>2, TablesTyped DEF SetThresholds
<1>5. CASE Backfill(c)
    BY <1>0, <1>5, BackfillEffect, TablesTyped DEF Backfill
<1>6. CASE Refuse(c)
    BY <1>0, <1>6, RaiseTyped, TablesTyped DEF Refuse
<1>7. CASE Reply(c)
    BY <1>0, <1>7, IdleTyped, BecomeTyped, TablesTyped DEF Reply
<1>8. CASE ReadParent(c)
  <2>1. OnlyCall(c)
      BY <1>0, <1>8, ReadParentEffect DEF ReadParent, At, Casting
  <2> QED BY <1>0, <1>8, <2>1, TablesTyped DEF ReadParent
<1>9. CASE WriteReport(c)
  <2>1. OnlyCall(c)
      BY <1>9, GotoTyped, RaiseTyped DEF WriteReport, Broken, Label
  <2>2. frame[c].report \in Drift \cup {NoReport}
      BY <1>0 DEF CallFrame
  <2>3. reports' \in [CastId -> Drift \cup {NoReport}]
      BY <1>9, <2>2 DEF WriteReport, ReportWritten, Typed
  <2>4. cached' \in [Process -> [CastId -> Drift \cup {NoReport}]]
      BY <1>0, <1>9, <2>2, RememberedTyped DEF WriteReport, Typed
  <2> QED BY <1>9, <2>1, <2>3, <2>4 DEF WriteReport, Typed, OnlyCall
<1>10. CASE WriteCast(c)
  <2>1. frame[c].todo # <<>>
      BY <1>0, <1>10 DEF WriteCast, At, Casting
  <2>2. Now(c) \in Item
      BY <1>0, <2>1, TailOfCasts DEF CallFrame, Now
  <2>3. casts' \in [CastId -> Row \cup {NoRow}]
      BY <1>10, <2>2 DEF WriteCast, RowWritten, Typed, Item
  <2>4. OnlyCall(c)
      BY <1>10, <2>1, WriteCastEffect
  <2> QED BY <1>10, <2>3, <2>4 DEF WriteCast, Typed, OnlyCall, memory
<1>11. CASE WritePrediction(c)
  <2>1. frame[c].todo # <<>>
      BY <1>0, <1>11 DEF WritePrediction, At, Casting
  <2>2. Now(c) \in Item
      BY <1>0, <2>1, TailOfCasts DEF CallFrame, Now
  <2>3. casts' \in [CastId -> Row \cup {NoRow}] /\ detached' \subseteq CastId
      BY <1>11, <2>2 DEF WritePrediction, RowWritten, Detached, Typed, Item
  <2>4. OnlyCall(c)
      BY <1>11, RaiseTyped DEF WritePrediction
  <2> QED BY <1>11, <2>3, <2>4 DEF WritePrediction, Typed, OnlyCall, memory
<1>12. CASE WriteThresholds(c)
  <2>1. OnlyCall(c)
      BY <1>12, GotoTyped, RaiseTyped DEF WriteThresholds, Broken, Label
  <2>2. frame[c].wanted \in Levels
      BY <1>12 DEF WriteThresholds, Setting
  <2> QED BY <1>12, <2>1, <2>2 DEF WriteThresholds, Typed, OnlyCall, memory
<1>13. CASE KeepThresholds(c)
  <2>1. OnlyCall(c)
      BY <1>13, ReturnTyped DEF KeepThresholds
  <2>2. frame[c].wanted \in Levels
      BY <1>13 DEF KeepThresholds, Setting
  <2>3. active' \in [Process -> Levels]
      BY <1>13, <2>2 DEF KeepThresholds, ActiveAsWanted, Typed
  <2> QED BY <1>13, <2>1, <2>3 DEF KeepThresholds, Typed, OnlyCall, tables
<1>14. CASE FillRead(c)
    BY <1>0, <1>14, FillReadEffect, TablesTyped DEF FillRead
<1>15. CASE FillWrite(c)
  <2>1. OnlyCall(c)
      BY <1>15, FillWriteEffect
  <2>2. frame[c].report \in Drift \cup {NoReport}
      BY <1>0 DEF CallFrame
  <2>3. reports' \in [CastId -> Drift \cup {NoReport}]
      BY <1>15, <2>2 DEF FillWrite, ReportWritten, Typed
  <2>4. cached' \in [Process -> [CastId -> Drift \cup {NoReport}]]
      BY <1>0, <1>15, <2>2, RememberedTyped DEF FillWrite, Typed
  <2> QED BY <1>15, <2>1, <2>3, <2>4 DEF FillWrite, Typed, OnlyCall
<1>16. CASE FillEnds(c)
    BY <1>0, <1>16, ReturnTyped, TablesTyped DEF FillEnds
<1>17. CASE Decide(c) \/ GeometricCast(c)
  <2>1. OnlyCall(c) /\ issued' \in Nat
      BY <1>17, DecideEffect DEF LastIsKept
  <2> QED BY <1>17, <2>1, TablesTyped DEF Decide, GeometricCast
<1>18. CASE WriteKept(c)
  <2>1. frame[c].todo # <<>>
      BY <1>0, <1>18 DEF WriteKept, At, Casting
  <2>2. Now(c) \in Item
      BY <1>0, <2>1, TailOfCasts DEF CallFrame, Now
  <2>3. casts' \in [CastId -> Row \cup {NoRow}] /\ detached' \subseteq CastId
      BY <1>18, <2>2 DEF WriteKept, RowWritten, Detached, Typed, Item
  <2>4. OnlyCall(c)
      BY <1>18, <2>1, WriteKeptEffect
  <2> QED BY <1>18, <2>3, <2>4 DEF WriteKept, Typed, OnlyCall, memory
<1>19. CASE AnswerKept(c)
  <2>1. frame[c].todo # <<>>
      BY <1>19 DEF AnswerKept, CallInv, AnswerInv
  <2> QED BY <1>0, <1>19, <2>1, AnswerKeptEffect, TablesTyped DEF AnswerKept
<1> QED BY <1>1, <1>2, <1>3, <1>4, <1>5, <1>6, <1>7, <1>8, <1>9, <1>10, <1>11,
           <1>12, <1>13, <1>14, <1>15, <1>16, <1>17, <1>18, <1>19, Move(c) DEF Move

LEMMA StartTyped ==
    ASSUME Typed, NEW p \in Process, Start(p)
    PROVE  Typed'
BY EffectiveTyped DEF Start, Typed, tables, history

LEMMA ExitTyped ==
    ASSUME Typed, NEW p \in Process, Exit(p)
    PROVE  Typed'
<1>1. frame' \in [Caller -> CallFrame]
    BY IdleTyped DEF Exit, Typed
<1>2. active' \in [Process -> Levels]
    BY DefaultTyped DEF Exit, Typed
<1>3. cached' \in [Process -> [CastId -> Drift \cup {NoReport}]]
    BY DEF Exit, Typed
<1> QED BY <1>1, <1>2, <1>3 DEF Exit, Typed, tables, bounds, history

LEMMA TypedStep ==
    ASSUME IInv, [Next]_vars
    PROVE  Typed'
<1>0. Typed
    BY DEF IInv
<1>1. CASE UNCHANGED lineageVars
    BY <1>0, <1>1 DEF Typed, lineageVars, tables, memory, bounds, history
<1>2. ASSUME NEW p \in Process, Start(p) \/ Exit(p) PROVE Typed'
    BY <1>0, <1>2, StartTyped, ExitTyped
<1>3. ASSUME NEW c \in Caller, Move(c) PROVE Typed'
    BY <1>0, <1>3, MoveTyped DEF IInv, ThresholdInv
<1> QED BY <1>0, <1>1, <1>2, <1>3, Steps

-----------------------------------------------------------------------------
(* Answers.                                                                *)

LEMMA MoveStays ==
    ASSUME NEW c, Move(c)
    PROVE  running' = running
<1> USE DEF memory
<1>1. NewCast(c) \/ AutoCast(c) \/ Predict(c) \/ NewSet(c) \/ Backfill(c) => running' = running
    BY DEF NewCast, Cast, AutoCast, Predict, NewSet, SetThresholds, Backfill
<1>4. Decide(c) \/ GeometricCast(c) \/ WriteKept(c) \/ AnswerKept(c) => running' = running
    BY DEF Decide, GeometricCast, WriteKept, AnswerKept
<1>2. Refuse(c) \/ Reply(c) \/ ReadParent(c) \/ WriteReport(c) \/ WriteCast(c)
         \/ WritePrediction(c) => running' = running
    BY DEF Refuse, Reply, ReadParent, WriteReport, WriteCast, WritePrediction
<1>3. WriteThresholds(c) \/ KeepThresholds(c) \/ FillRead(c) \/ FillWrite(c) \/ FillEnds(c)
         => running' = running
    BY DEF WriteThresholds, KeepThresholds, FillRead, FillWrite, FillEnds
<1> QED BY <1>1, <1>2, <1>3, <1>4 DEF Move

\* A step of a call that has begun.
LEMMA CallStepIsMove ==
    ASSUME NEW c, CallStep(c)
    PROVE  Move(c) /\ ~At(c, "idle")
BY DEF CallStep, Move, At, ReadParent, WriteReport, WriteCast, WritePrediction,
       WriteKept, AnswerKept, WriteThresholds, KeepThresholds, FillRead, FillWrite, FillEnds

\* What the loop takes from a message that it does not pass over.
LEMMA RequestIsTool ==
    ASSUME NEW m \in Line \cup Frame, Reaches(m)
    PROVE  Resolved(m) \in Tool \ {"elsewhere", "unknown"}
<1>1. m.form = "call" /\ Resolved(m) \notin {"elsewhere", "unknown"}
    BY DEF Reaches
<1>2. m \in Call
    BY <1>1 DEF Line, Frame
<1>3. m.tool \in Tool /\ m.bundle \in Bundle \ {"broken"}
    BY <1>2 DEF Call, Bundle, Tool, Reaches
<1> QED BY <1>1, <1>3 DEF Resolved, Bundle, Tool, CastTool

LEMMA LoopStep ==
    ASSUME IInv, [Next]_vars
    PROVE  LoopInv'
<1>0. /\ Typed /\ LoopInv /\ Loop \in Caller /\ NoRequest \notin Tool \cup {"running"}
      /\ \A c \in Caller : CallInv(c) /\ (Setting(c) => frame[c].wanted \in Levels)
    BY McpAssumption DEF IInv, ThresholdInv
<1>1. CASE UNCHANGED vars
    BY <1>0, <1>1 DEF LoopInv, vars, lineageVars, memory, loopVars, Up, At
<1>2. ASSUME NEW p \in Process, Begins(p) PROVE LoopInv'
    BY <1>0, <1>2 DEF Begins, Start, LoopInv, Up, At
<1>3. CASE StopServer
  <2>1. frame'[Loop] = Idle /\ Home[Loop] \notin running'
      BY <1>0, <1>3 DEF StopServer, Exit
  <2> QED BY <1>3, <2>1, IdleTyped DEF StopServer, LoopInv, Up, At
<1>4. ASSUME NEW p \in Process, Ends(p) PROVE LoopInv'
    BY <1>0, <1>4 DEF Ends, Exit, LoopInv, Up, At
<1>5. ASSUME NEW m \in Line \cup Frame, Read(m) PROVE LoopInv'
  <2>1. CASE UNCHANGED vars \/ StopServer
      BY <2>1, <1>1, <1>3
  <2>2. CASE /\ ~Silent(m) /\ ~Deadly(m)
             /\ request' = IF Reaches(m) THEN Resolved(m) ELSE "elsewhere"
             /\ due' = IF Owed(m) THEN due + 1 ELSE due
             /\ UNCHANGED <<lineageVars, mode, sent>>
    <3>1. due' = due + 1
        BY <2>2 DEF Silent, Owed
    <3>2. request' \in Tool
        BY <2>2, <1>5, RequestIsTool DEF Tool
    <3>3. UNCHANGED <<running, frame, sent>>
        BY <2>2 DEF lineageVars, memory
    <3>4. Up(Loop) /\ request = NoRequest
        BY <1>5 DEF Read, Ready
    <3> QED BY <1>0, <3>1, <3>2, <3>3, <3>4 DEF LoopInv, Up, At
  <2> QED BY <1>5, <2>1, <2>2 DEF Read
<1>6. CASE AnswerElsewhere
  <2>1. At(Loop, "idle") /\ request # NoRequest
      BY <1>0, <1>6 DEF AnswerElsewhere, LoopInv, Tool
  <2> QED BY <1>0, <1>6, <2>1 DEF AnswerElsewhere, Send, LoopInv, Up, At, lineageVars, memory
<1>7. CASE RunTool
  <2>1. request \notin {NoRequest, "elsewhere"}
      BY <1>0, <1>7 DEF RunTool, Tool, CastTool
  <2>2. running' = running
    <3>1. Move(Loop)
        BY <1>0, <1>7, SwarmIsCast DEF RunTool, Move, Typed
    <3> QED BY <3>1, MoveStays
  <2>3. request' = "running" /\ UNCHANGED <<due, sent>>
      BY <1>7 DEF RunTool
  <2> QED BY <1>0, <1>7, <2>1, <2>2, <2>3 DEF RunTool, LoopInv, Up
<1>8. CASE AnswerCall
  <2>1. frame'[Loop].pc = "idle" /\ running' = running
      BY <1>0, <1>8, IdleTyped, BecomeTyped DEF AnswerCall, Reply, memory
  <2>2. request # NoRequest
      BY <1>0, <1>8 DEF AnswerCall, Reply, Over, At, LoopInv
  <2> QED BY <1>0, <1>8, <2>1, <2>2 DEF AnswerCall, Send, LoopInv, Up, At
<1>9. ASSUME NEW c \in Caller, RequestThread(c) \/ Command(c) PROVE LoopInv'
  <2>1. Move(c) /\ c # Loop /\ UNCHANGED loopVars
      BY <1>0, <1>9, SwarmIsCast
         DEF RequestThread, Command, Move, Typed, cmd_cast, cmd_auto_cast,
             cmd_predictive_cast, cmd_decide, cmd_geometric_cast, cmd_swarm_cast,
             cmd_set_thresholds, cmd_backfill_divergence
  <2>2. frame'[Loop] = frame[Loop] /\ running' = running
      BY <1>0, <2>1, MoveTyped, MoveStays DEF OnlyCall
  <2> QED BY <1>0, <2>1, <2>2 DEF LoopInv, loopVars, Up, At
<1>10. ASSUME NEW c \in Caller, CallStep(c), UNCHANGED loopVars PROVE LoopInv'
  <2>1. Move(c) /\ ~At(c, "idle")
      BY <1>10, CallStepIsMove
  <2>2. running' = running /\ (c # Loop => frame'[Loop] = frame[Loop])
      BY <1>0, <2>1, MoveTyped, MoveStays DEF OnlyCall
  <2> QED BY <1>0, <1>10, <2>1, <2>2 DEF LoopInv, loopVars, Up, At
<1> QED BY <1>1, <1>2, <1>3, <1>4, <1>5, <1>6, <1>7, <1>8, <1>9, <1>10 DEF Next

-----------------------------------------------------------------------------
(* Thresholds.                                                             *)

\* The moves that have nothing to do with thresholds.
LEMMA OtherMove ==
    ASSUME Typed, NEW c \in Caller, CallInv(c), Move(c),
           ~NewSet(c), ~WriteThresholds(c), ~KeepThresholds(c)
    PROVE  /\ UNCHANGED <<thresholds, active, inForce, contended>>
           /\ ~Setting(c) /\ frame'[c].pc \notin {"set_row", "set_memory"}
<1> USE DEF tables, memory, history, bounds, At, Setting
<1>0. Casting(c) => frame[c].todo # <<>>
    BY DEF CallInv, TodoInv
<1>1. CASE NewCast(c)
  <2>1. PICK parent \in 0 .. issued : Cast(c, parent)
      BY <1>1 DEF NewCast
  <2> QED BY <2>1, CastEffect DEF Cast
<1>2. CASE AutoCast(c)
    BY <1>2, AutoCastEffect DEF AutoCast
<1>3. CASE Predict(c)
    BY <1>3, PredictEffect DEF Predict, LastIsKept
<1>4. CASE Backfill(c)
    BY <1>4, BackfillEffect DEF Backfill
<1>5. CASE Refuse(c)
    BY <1>5, RaiseTyped DEF Refuse
<1>6. CASE Reply(c)
    BY <1>6, IdleTyped, BecomeTyped DEF Reply, Over
<1>7. CASE ReadParent(c)
    BY <1>0, <1>7, ReadParentEffect DEF ReadParent, Casting
<1>8. CASE WriteReport(c)
    BY <1>8, GotoTyped, RaiseTyped DEF WriteReport, Broken, Label
<1>9. CASE WriteCast(c)
    BY <1>0, <1>9, WriteCastEffect DEF WriteCast, Casting
<1>10. CASE WritePrediction(c)
    BY <1>10, RaiseTyped DEF WritePrediction
<1>11. CASE FillRead(c)
    BY <1>11, FillReadEffect DEF FillRead
<1>12. CASE FillWrite(c)
    BY <1>12, FillWriteEffect DEF FillWrite
<1>13. CASE FillEnds(c)
    BY <1>13, ReturnTyped DEF FillEnds
<1>14. CASE Decide(c) \/ GeometricCast(c)
    BY <1>14, DecideEffect DEF Decide, GeometricCast, LastIsKept
<1>15. CASE WriteKept(c)
    BY <1>0, <1>15, WriteKeptEffect DEF WriteKept, Casting
<1>16. CASE AnswerKept(c)
  <2>1. frame[c].todo # <<>>
      BY <1>16 DEF AnswerKept, CallInv, AnswerInv
  <2> QED BY <1>16, <2>1, AnswerKeptEffect DEF AnswerKept
<1> QED BY <1>1, <1>2, <1>3, <1>4, <1>5, <1>6, <1>7, <1>8, <1>9, <1>10, <1>11,
           <1>12, <1>13, <1>14, <1>15, <1>16, Move(c) DEF Move

LEMMA ThresholdMove ==
    ASSUME IInv, NEW c \in Caller, Move(c)
    PROVE  ThresholdInv'
<1> USE DEF history, tables, memory
<1>0. /\ Typed /\ CallInv(c) /\ ThresholdInv /\ OnlyCall(c) /\ running' = running
      /\ Home[c] \in Process
    BY MoveTyped, MoveStays, LineageAssumption DEF IInv, ThresholdInv
<1>1. \A d \in Caller \ {c} : frame'[d] = frame[d]
    BY <1>0 DEF OnlyCall
<1>2. CASE ~NewSet(c) /\ ~WriteThresholds(c) /\ ~KeepThresholds(c)
  <2>1. /\ UNCHANGED <<thresholds, active, inForce, contended>>
        /\ ~Setting(c) /\ frame'[c].pc \notin {"set_row", "set_memory"}
      BY <1>0, <1>2, OtherMove
  <2> QED BY <1>0, <1>1, <2>1 DEF ThresholdInv, Agreed, Effective, Setting, At
<1>3. CASE NewSet(c)
  <2>1. PICK payload \in Payload : SetThresholds(c, payload)
      BY <1>3 DEF NewSet
  <2>2. \/ frame'[c].pc = "raised"
        \/ frame'[c].pc = "set_row" /\ frame'[c].wanted \in Levels
      BY <1>0, <2>1, SetEffect
  <2>3. UNCHANGED <<thresholds, active, inForce, contended>> /\ At(c, "idle")
      BY <2>1 DEF SetThresholds
  <2> QED BY <1>0, <1>1, <2>2, <2>3 DEF ThresholdInv, Agreed, Effective, Setting, At
<1>4. CASE WriteThresholds(c)
  <2>1. CASE Broken(c) /\ UNCHANGED <<thresholds, inForce, contended>>
    <3>1. frame'[c].pc = "raised" /\ At(c, "set_row") /\ active' = active
        BY <1>0, <1>4, <2>1, RaiseTyped DEF Broken, WriteThresholds
    <3> QED BY <1>0, <1>1, <2>1, <3>1 DEF ThresholdInv, Agreed, Effective, Setting, At
  <2>2. CASE /\ thresholds' = frame[c].wanted
             /\ inForce' = inForce \cup {frame[c].wanted}
             /\ contended' = \/ contended
                             \/ running # {Home[c]}
                             \/ \E d \in Caller \ {c} : Setting(d)
             /\ Goto(c, "set_memory")
    <3>1. /\ At(c, "set_row") /\ active' = active
          /\ frame'[c].pc = "set_memory" /\ frame'[c].wanted = frame[c].wanted
        BY <1>0, <1>4, <2>2, GotoTyped DEF WriteThresholds, Label
    <3>2. frame[c].wanted \in Levels
        BY <1>0, <3>1 DEF ThresholdInv, Setting
    <3>3. Effective' = frame[c].wanted
        BY <2>2, <3>2, DriftIsPresent DEF Effective
    <3>4. contended' \in BOOLEAN
        BY <1>0, <2>2 DEF ThresholdInv
    <3>5. ASSUME ~contended' PROVE Agreed'
      <4>1. running = {Home[c]} /\ \A d \in Caller \ {c} : ~Setting(d)
          BY <2>2, <3>5
      <4> QED BY <1>0, <1>1, <3>1, <3>3, <4>1 DEF Agreed, Setting, At
    <3>6. \A d \in Caller : Setting(d)' => frame'[d].wanted \in Levels
        BY <1>0, <1>1, <3>1, <3>2 DEF ThresholdInv, Setting, At
    <3>7. \A d \in Caller : At(d, "set_memory")' => frame'[d].wanted \in inForce'
        BY <1>0, <1>1, <2>2, <3>1 DEF ThresholdInv, At
    <3> QED BY <1>0, <2>2, <3>1, <3>3, <3>4, <3>5, <3>6, <3>7 DEF ThresholdInv
  <2> QED BY <1>4, <2>1, <2>2 DEF WriteThresholds
<1>5. CASE KeepThresholds(c)
  <2>1. /\ At(c, "set_memory") /\ UNCHANGED <<thresholds, inForce, contended>>
        /\ active' = [active EXCEPT ![Home[c]] = frame[c].wanted]
      BY <1>5 DEF KeepThresholds, ActiveAsWanted
  <2>2. frame'[c].pc = "returned"
      BY <1>0, <1>5, ReturnTyped DEF KeepThresholds
  <2>3. \A p \in Process : active'[p] = IF p = Home[c] THEN frame[c].wanted ELSE active[p]
      BY <1>0, <2>1 DEF Typed
  <2>4. ASSUME ~contended' PROVE Agreed'
    <3>1. /\ \A d \in Caller \ {c} : ~At(d, "set_memory")
          /\ frame[c].wanted = Effective
          /\ \A p \in running \ {Home[c]} : active[p] = Effective
        BY <1>0, <2>1, <2>4 DEF ThresholdInv, Agreed
    <3>2. \A d \in Caller : ~At(d, "set_memory")'
        BY <1>1, <2>2, <3>1 DEF At
    <3>3. running \subseteq Process
        BY <1>0 DEF Typed
    <3> QED BY <1>0, <2>1, <2>3, <3>1, <3>2, <3>3 DEF Agreed, Effective
  <2> QED BY <1>0, <1>1, <2>1, <2>2, <2>3, <2>4 DEF ThresholdInv, Effective, Setting, At
<1> QED BY <1>2, <1>3, <1>4, <1>5

LEMMA ThresholdStep ==
    ASSUME IInv, [Next]_vars
    PROVE  ThresholdInv'
<1>0. Typed /\ ThresholdInv
    BY DEF IInv
<1>1. CASE UNCHANGED lineageVars
    BY <1>0, <1>1 DEF ThresholdInv, lineageVars, tables, memory, history, Agreed, Effective,
                      Setting, At
<1>2. ASSUME NEW p \in Process, Start(p) PROVE ThresholdInv'
  <2>1. /\ UNCHANGED <<thresholds, inForce, contended, frame>>
        /\ running' = running \cup {p} /\ p \notin running
        /\ active' = [active EXCEPT ![p] = Effective]
      BY <1>2 DEF Start, tables, history
  <2>2. \A q \in Process : active'[q] = IF q = p THEN Effective ELSE active[q]
      BY <1>0, <2>1 DEF Typed
  <2>3. running \subseteq Process
      BY <1>0 DEF Typed
  <2>4. Effective' = Effective
      BY <2>1 DEF Effective
  <2> QED BY <1>0, <2>1, <2>2, <2>3, <2>4 DEF ThresholdInv, Agreed, Setting, At
<1>3. ASSUME NEW p \in Process, Exit(p) PROVE ThresholdInv'
  <2>1. /\ UNCHANGED <<thresholds, inForce, contended>>
        /\ running' = running \ {p}
        /\ active' = [active EXCEPT ![p] = Default]
        /\ \A c \in Caller : frame'[c] = IF Home[c] = p THEN Idle ELSE frame[c]
      BY <1>3 DEF Exit, tables, history
  <2>2. \A q \in Process : active'[q] = IF q = p THEN Default ELSE active[q]
      BY <1>0, <2>1 DEF Typed
  <2>3. running \subseteq Process /\ Effective' = Effective
      BY <1>0, <2>1 DEF Typed, Effective
  <2>4. Default \in inForce
      BY <1>0 DEF ThresholdInv
  <2> QED BY <1>0, <2>1, <2>2, <2>3, <2>4, IdleTyped DEF ThresholdInv, Agreed, Setting, At
<1>4. ASSUME NEW c \in Caller, Move(c) PROVE ThresholdInv'
    BY <1>4, ThresholdMove
<1> QED BY <1>0, <1>1, <1>2, <1>3, <1>4, Steps

-----------------------------------------------------------------------------
(* Casts and reports: what a step leaves alone.                            *)

Held(C, i) == \E c \in C : Holds(c, i)
Touched(C, i) == Held(C, i) \/ (Stored(i) /\ i \in old)

\* The callers C move.  They change the rows of the casts they hold, the
\* reports of these and of an earlier release's casts, and take new ids only.
Onward(C) ==
    /\ \A d \in Caller \ C : frame'[d] = frame[d]
    /\ \A c \in C, i \in CastId : Holds(c, i)' => Holds(c, i) \/ i > issued
    /\ \A i \in CastId : ~Held(C, i) =>
          casts'[i] = casts[i] /\ (i \in detached' <=> i \in detached)
    /\ \A i \in CastId : ~Touched(C, i) =>
          /\ reports'[i] = reports[i]
          /\ \A d \in Caller \ C : cached'[Home[d]][i] = cached[Home[d]][i]
    /\ old' = old
    /\ inForce \subseteq inForce'
    /\ issued <= issued'

\* What holds before such a step.
Before(C) ==
    /\ C \subseteq Caller /\ Onward(C)
    /\ Typed /\ Typed' /\ TableInv
    /\ \A c \in Caller : CallInv(c)

LEMMA HeldIsUnwritten ==
    ASSUME NEW c \in Caller, Typed, CallInv(c), NEW i, Holds(c, i)
    PROVE  /\ i \in CastId /\ i <= issued /\ ~Stored(i) /\ i \notin old \cup detached
           /\ \A d \in Caller \ {c} : ~Holds(d, i)
<1>1. Casting(c) /\ \E k \in DOMAIN frame[c].todo : frame[c].todo[k].id = i
    BY DEF Holds
<1>2. PICK k \in DOMAIN frame[c].todo : frame[c].todo[k].id = i
    BY <1>1
<1>3. TodoInv(c)
    BY <1>1 DEF CallInv
<1>4. frame[c].todo \in Seq(Item)
    BY DEF Typed, CallFrame
<1>5. frame[c].todo[k] \in Item
    BY <1>2, <1>4
<1> QED BY <1>2, <1>3, <1>5 DEF TodoInv, Item

LEMMA StoredStays ==
    ASSUME NEW C, Before(C), NEW i, Stored(i)
    PROVE  /\ ~Held(C, i) /\ i \in CastId
           /\ Stored(i)' /\ casts'[i] = casts[i] /\ (i \in detached' <=> i \in detached)
<1>1. ~Held(C, i)
    BY HeldIsUnwritten DEF Held, Before
<1>2. casts'[i] = casts[i] /\ (i \in detached' <=> i \in detached)
    BY <1>1 DEF Before, Onward, Stored
<1> QED BY <1>1, <1>2 DEF Stored

LEMMA SkippedStays ==
    ASSUME NEW C, Before(C), NEW i, Skipped(i)
    PROVE  Skipped(i)' /\ casts'[i] = casts[i]
<1>1. /\ i \in CastId /\ i <= issued /\ ~Stored(i)
      /\ \A c \in Caller : ~Holds(c, i)
    BY DEF Skipped
<1>2. ~Held(C, i)
    BY <1>1 DEF Held, Before
<1>3. casts'[i] = casts[i]
    BY <1>1, <1>2 DEF Before, Onward
<1>4. i \in Nat /\ issued \in Nat /\ issued' \in Nat /\ issued <= issued'
    BY <1>1, LineageAssumption DEF CastId, Before, Typed, Onward
<1>5. ASSUME NEW c \in Caller PROVE ~Holds(c, i)'
  <2>1. CASE c \in C
      BY <1>1, <1>4, <2>1 DEF Before, Onward
  <2>2. CASE c \notin C
      BY <1>1, <2>2 DEF Before, Onward, Holds, Casting
  <2> QED BY <2>1, <2>2
<1> QED BY <1>1, <1>3, <1>4, <1>5 DEF Skipped, Stored

LEMMA ChildStays ==
    ASSUME NEW C, Before(C), NEW i, NEW row, Child(i, row)
    PROVE  /\ row.parent # 0 /\ row.parent < i /\ Stored(row.parent)'
           /\ casts'[row.parent] = casts[row.parent]
           /\ row.depth = casts'[row.parent].depth + 1
BY StoredStays DEF Child

LEMMA JustifiedStays ==
    ASSUME NEW C, Before(C), NEW parent, casts'[parent] = casts[parent],
           NEW sigil, NEW r, Justified(parent, sigil, r)
    PROVE  \E t \in inForce' : r = Report(parent, casts'[parent].sigil, sigil, t)
BY DEF Justified, Before, Onward

LEMMA OtherCall ==
    ASSUME NEW C, Before(C), NEW d \in Caller \ C
    PROVE  CallInv(d)'
<1>0. /\ frame'[d] = frame[d] /\ CallInv(d) /\ Typed /\ Typed'
      /\ issued \in Nat /\ issued' \in Nat /\ issued <= issued' /\ old' = old
      /\ C \subseteq Caller
      /\ \A i \in CastId : ~Held(C, i) =>
            casts'[i] = casts[i] /\ (i \in detached' <=> i \in detached)
      /\ \A i \in CastId : ~Touched(C, i) =>
            reports'[i] = reports[i] /\ cached'[Home[d]][i] = cached[Home[d]][i]
    BY DEF Before, Onward, Typed
<1>1. PICK todo : todo = frame[d].todo
    OBVIOUS
<1>2. /\ todo \in Seq(Item)
      /\ \A k \in DOMAIN todo : /\ todo[k] \in Item /\ todo[k].id \in CastId
                                /\ todo[k].row \in Row
      /\ todo # <<>> => 1 \in DOMAIN todo
  <2>1. todo \in Seq(Item)
      BY <1>0, <1>1 DEF Typed, CallFrame
  <2>2. todo # <<>> => 1 \in DOMAIN todo
      BY <2>1
  <2>3. ASSUME NEW k \in DOMAIN todo
        PROVE  todo[k] \in Item /\ todo[k].id \in CastId /\ todo[k].row \in Row
    <3>1. todo[k] \in Item
        BY <2>1
    <3> QED BY <3>1 DEF Item
  <2> QED BY <2>1, <2>2, <2>3
<1>3. CASE Casting(d)
  <2>1. TodoInv(d) /\ HeadInv(d)
      BY <1>0, <1>3 DEF CallInv
  <2>2. ASSUME NEW k \in DOMAIN todo, NEW i \in CastId, i = todo[k].id
        PROVE  /\ i <= issued' /\ ~Stored(i)' /\ i \notin old' \cup detached'
               /\ \A e \in Caller \ {d} : ~Holds(e, i)'
               /\ reports'[i] = reports[i] /\ cached'[Home[d]][i] = cached[Home[d]][i]
    <3>1. /\ i <= issued /\ ~Stored(i) /\ i \notin old \cup detached
          /\ \A e \in Caller \ {d} : ~Holds(e, i)
        BY <1>1, <2>1, <2>2 DEF TodoInv
    <3>2. ~Held(C, i) /\ ~Touched(C, i)
        BY <1>0, <3>1 DEF Held, Touched
    <3>3. i \in Nat
        BY LineageAssumption DEF CastId
    <3>4. ASSUME NEW e \in Caller \ {d} PROVE ~Holds(e, i)'
      <4>1. CASE e \in C
          BY <1>0, <3>1, <3>3, <4>1 DEF Before, Onward
      <4>2. CASE e \notin C
          BY <3>1, <4>2 DEF Before, Onward, Holds, Casting
      <4> QED BY <4>1, <4>2
    <3> QED BY <1>0, <3>1, <3>2, <3>3, <3>4 DEF Stored
  <2>3. TodoInv(d)'
    <3>1. ASSUME NEW k \in DOMAIN todo
          PROVE  /\ todo[k].id <= issued' /\ ~Stored(todo[k].id)'
                 /\ todo[k].id \notin old' \cup detached'
                 /\ \A e \in Caller \ {d} : ~Holds(e, todo[k].id)'
                 /\ reports'[todo[k].id] = reports[todo[k].id]
        BY <1>2, <2>2
    <3>2. /\ todo # <<>> /\ \A k \in DOMAIN todo : todo[k].id = todo[1].id + (k - 1)
          /\ \A k \in DOMAIN todo \ {1} : /\ todo[k].row.parent = todo[k - 1].id
                                          /\ todo[k].row.depth = todo[k - 1].row.depth + 1
                                          /\ reports[todo[k].id] = NoReport
        BY <1>1, <2>1 DEF TodoInv
    <3>3. frame'[d].todo = todo
        BY <1>0, <1>1
    <3> QED BY <3>1, <3>2, <3>3 DEF TodoInv
  <2>4. PICK i \in CastId, row \in Row : i = todo[1].id /\ row = todo[1].row
      BY <1>1, <1>2, <2>1 DEF TodoInv
  <2>5. Child(i, row) => /\ Child(i, row)' /\ casts'[row.parent] = casts[row.parent]
      BY ChildStays DEF Child
  <2>6. ASSUME NEW r, Child(i, row), Justified(row.parent, row.sigil, r)
        PROVE  \E t \in inForce' : r = Report(row.parent, casts'[row.parent].sigil, row.sigil, t)
      BY <2>5, <2>6, JustifiedStays
  <2>7. Skipped(row.parent) => Skipped(row.parent)'
      BY SkippedStays
  <2>8. reports'[i] = reports[i] /\ cached'[Home[d]][i] = cached[Home[d]][i]
      BY <1>1, <1>2, <2>1, <2>2, <2>4 DEF TodoInv
  <2>9. At(d, "parent") => /\ reports'[i] = NoReport
                           /\ IF frame[d].asked = 0 THEN Child(i, row)'
                              ELSE frame[d].asked < i /\ Len(todo) = 1
      BY <1>1, <2>1, <2>4, <2>5, <2>8 DEF HeadInv
  <2>10. At(d, "report") => /\ Child(i, row)'
                            /\ \E t \in inForce' : frame[d].report =
                                  Report(row.parent, casts'[row.parent].sigil, row.sigil, t)
      BY <1>1, <2>1, <2>4, <2>5, <2>6 DEF HeadInv
  <2>11. At(d, "insert") =>
            IF row.parent = 0 THEN row.depth = 0 /\ reports'[i] = NoReport
            ELSE /\ Child(i, row)'
                 /\ \E t \in inForce' : reports'[i] =
                       Report(row.parent, casts'[row.parent].sigil, row.sigil, t)
                 /\ cached'[Home[d]][i] = reports'[i]
      BY <1>1, <2>1, <2>4, <2>5, <2>6, <2>8 DEF HeadInv
  <2>12. At(d, "predict") \/ At(d, "keep") =>
            /\ reports'[i] = NoReport
            /\ Len(todo) = 1
            /\ IF row.parent = 0 THEN row.depth = 0
               ELSE row.parent < i /\ Skipped(row.parent)'
      BY <1>1, <2>1, <2>4, <2>7, <2>8 DEF HeadInv
  <2>13. HeadInv(d)'
    <3>1. /\ frame'[d].todo[1].id = i /\ frame'[d].todo[1].row = row
          /\ frame'[d] = frame[d] /\ frame[d].todo = todo
        BY <1>0, <1>1, <2>4
    <3>2. /\ At(d, "parent")' => At(d, "parent")
          /\ At(d, "report")' => At(d, "report")
          /\ At(d, "insert")' => At(d, "insert")
          /\ At(d, "predict")' => At(d, "predict")
          /\ At(d, "keep")' => At(d, "keep")
        BY <3>1 DEF At
    <3>3. PICK report, asked : report = frame'[d].report /\ asked = frame'[d].asked
        OBVIOUS
    <3>4. At(d, "parent")' => /\ reports'[i] = NoReport
                              /\ IF asked = 0 THEN Child(i, row)'
                                 ELSE asked < i /\ Len(todo) = 1
        BY <2>9, <3>1, <3>2, <3>3
    <3>5. At(d, "report")' => Child(i, row)' /\ Justified(row.parent, row.sigil, report)'
        BY <2>10, <3>1, <3>2, <3>3 DEF Justified
    <3>6. At(d, "insert")' =>
            IF row.parent = 0 THEN row.depth = 0 /\ reports'[i] = NoReport
            ELSE /\ Child(i, row)'
                 /\ Justified(row.parent, row.sigil, reports[i])'
                 /\ cached'[Home[d]][i] = reports'[i]
        BY <2>11, <3>2 DEF Justified
    <3> QED BY <2>12, <3>1, <3>2, <3>3, <3>4, <3>5, <3>6 DEF HeadInv
  <2>14. AnswerInv(d)' /\ FillInv(d)'
      BY <1>0, <1>3 DEF AnswerInv, FillInv, Casting, At
  <2> QED BY <2>3, <2>13, <2>14 DEF CallInv
<1>4. CASE ~Casting(d)
  <2>1. AnswerInv(d) /\ FillInv(d)
      BY <1>0 DEF CallInv
  <2>2. ASSUME At(d, "returned") \/ At(d, "kept"), todo # <<>>, NEW i, i = todo[1].id
        PROVE  /\ casts'[i] = todo[1].row /\ i \notin old' /\ i \in CastId
               /\ At(d, "kept") => reports'[i] = NoReport
               /\ At(d, "returned") => frame[d].answer = reports'[i]
    <3>1. /\ i \in CastId /\ casts[i] = todo[1].row /\ i \notin old
          /\ At(d, "kept") => reports[i] = NoReport
          /\ At(d, "returned") => frame[d].answer = reports[i]
        BY <1>1, <2>1, <2>2 DEF AnswerInv
    <3>2. todo[1].row \in Row
        BY <1>2, <2>2
    <3>3. Stored(i)
        BY <3>1, <3>2, DriftIsPresent DEF Stored
    <3>4. ~Held(C, i) /\ casts'[i] = casts[i] /\ (i \in detached' <=> i \in detached)
        BY <3>3, StoredStays
    <3>5. ~Touched(C, i)
        BY <3>1, <3>4 DEF Touched
    <3> QED BY <1>0, <3>1, <3>4, <3>5
  <2>3. AnswerInv(d)'
    <3>1. At(d, "kept") => todo # <<>>
        BY <1>1, <2>1 DEF AnswerInv
    <3> QED BY <1>0, <1>1, <2>2, <3>1 DEF AnswerInv, At
  <2>4. ASSUME At(d, "fill") \/ At(d, "fill_write"), NEW i \in frame[d].pairs
        PROVE  Stored(i)' /\ casts'[i] = casts[i] /\ casts'[i].parent # 0 /\ i \in old' \cup detached'
    <3>1. Stored(i) /\ casts[i].parent # 0 /\ i \in old \cup detached
        BY <2>1, <2>4 DEF FillInv
    <3>2. Stored(i)' /\ casts'[i] = casts[i] /\ (i \in detached' <=> i \in detached)
        BY <3>1, StoredStays
    <3> QED BY <1>0, <3>1, <3>2
  <2>5. ASSUME At(d, "fill_write"), NEW i, i = Pair(d), NEW parent, parent = casts[i].parent
        PROVE  /\ frame[d].pairs # {} /\ casts'[i] = casts[i]
               /\ Stored(parent)'
               /\ \E t \in inForce' : frame[d].report =
                     Report(parent, casts'[parent].sigil, casts[i].sigil, t)
    <3>1. /\ frame[d].pairs # {} /\ Stored(parent)
          /\ Justified(parent, casts[i].sigil, frame[d].report)
        BY <2>1, <2>5 DEF FillInv
    <3>2. i \in frame[d].pairs
        BY <1>0, <2>5, <3>1, PairIsOne DEF Typed, CallFrame
    <3>3. casts'[i] = casts[i]
        BY <2>4, <2>5, <3>2
    <3>4. Stored(parent)' /\ casts'[parent] = casts[parent]
        BY <3>1, StoredStays
    <3>5. PICK sigil : sigil = casts[i].sigil
        OBVIOUS
    <3>6. \E t \in inForce' : frame[d].report =
             Report(parent, casts'[parent].sigil, sigil, t)
      <4>1. PICK r : r = frame[d].report
          OBVIOUS
      <4> QED BY <3>1, <3>4, <3>5, <4>1, JustifiedStays
    <3> QED BY <3>1, <3>3, <3>4, <3>5, <3>6
  <2>6. Pair(d)' = Pair(d)
      BY <1>0 DEF Pair
  <2>7. FillInv(d)'
    <3>1. At(d, "fill")' \/ At(d, "fill_write")' =>
             \A i \in frame'[d].pairs : Stored(i)' /\ casts'[i].parent # 0
                                       /\ i \in old' \cup detached'
        BY <1>0, <2>4 DEF At
    <3>2. PICK i : i = Pair(d)
        OBVIOUS
    <3>3. PICK parent : parent = casts[i].parent
        OBVIOUS
    <3>4. At(d, "fill_write")' =>
             /\ frame'[d].pairs # {} /\ casts'[i] = casts[i]
             /\ Stored(parent)'
             /\ \E t \in inForce' : frame'[d].report =
                   Report(parent, casts'[parent].sigil, casts'[i].sigil, t)
        BY <1>0, <2>5, <3>2, <3>3 DEF At
    <3>5. Pair(d)' = i
        BY <2>6, <3>2
    <3> QED BY <3>1, <3>3, <3>4, <3>5 DEF FillInv, Justified, Stored
  <2>8. ~Casting(d)'
      BY <1>0, <1>4 DEF Casting
  <2> QED BY <2>3, <2>7, <2>8 DEF CallInv
<1> QED BY <1>3, <1>4

\* The rows of the casts the callers hold and of those they report on are
\* all there is to look at.
Settled(C) ==
    \A i \in CastId :
        \/ Held(C, i) /\ (Stored(i)' \/ i \in detached')
        \/ Stored(i) /\ i \in old /\ reports'[i] # reports[i]
        => Stored(i)' /\ RowInv(i)'

LEMMA RowStays ==
    ASSUME NEW C, Before(C), NEW i, Stored(i), RowInv(i), reports'[i] = reports[i]
    PROVE  RowInv(i)'
<1>1. /\ casts'[i] = casts[i] /\ (i \in detached' <=> i \in detached)
      /\ old' = old
  <2>1. old' = old
      BY DEF Before, Onward
  <2> QED BY <2>1, StoredStays
<1>2. PICK row : row = casts[i]
    OBVIOUS
<1>3. PICK r : r = reports[i]
    OBVIOUS
<1>4. CASE row.parent = 0
    BY <1>1, <1>2, <1>4 DEF RowInv
<1>5. CASE row.parent # 0
  <2>1. /\ row.parent < i
        /\ IF i \in detached THEN Skipped(row.parent) ELSE Child(i, row)
        /\ IF i \in detached THEN r = NoReport
           ELSE \/ i \in old /\ r = NoReport
                \/ Justified(row.parent, row.sigil, r)
      BY <1>2, <1>3, <1>5 DEF RowInv
  <2>2. casts'[row.parent] = casts[row.parent]
      BY <2>1, SkippedStays, ChildStays
  <2>3. IF i \in detached THEN Skipped(row.parent)' ELSE Child(i, row)'
      BY <2>1, SkippedStays, ChildStays DEF Child
  <2>4. Justified(row.parent, row.sigil, r) => Justified(row.parent, row.sigil, r)'
      BY <2>2, JustifiedStays DEF Justified
  <2>5. casts'[i] = row /\ reports'[i] = r
      BY <1>1, <1>2, <1>3
  <2> QED BY <1>1, <1>5, <2>1, <2>3, <2>4, <2>5 DEF RowInv
<1> QED BY <1>4, <1>5

LEMMA TableStays ==
    ASSUME NEW C, Before(C), Settled(C)
    PROVE  TableInv'
<1>0. /\ TableInv /\ Typed /\ Typed' /\ C \subseteq Caller /\ Onward(C)
      /\ issued \in Nat /\ issued' \in Nat /\ issued <= issued' /\ old' = old
      /\ old \subseteq Nat /\ CastId \subseteq Nat
    BY LineageAssumption DEF Before, Typed, Onward, CastId
<1>1. ASSUME NEW i \in CastId, ~Held(C, i)
      PROVE  casts'[i] = casts[i] /\ (i \in detached' <=> i \in detached)
             /\ (Stored(i)' <=> Stored(i))
    BY <1>0, <1>1 DEF Onward, Stored
<1>2. ASSUME NEW i \in CastId, Stored(i)' PROVE RowInv(i)'
  <2>1. CASE Held(C, i)
      BY <1>2, <2>1 DEF Settled
  <2>2. CASE ~Held(C, i) /\ reports'[i] # reports[i]
    <3>1. Stored(i) /\ Touched(C, i)
        BY <1>0, <1>1, <1>2, <2>2 DEF Onward
    <3> QED BY <2>2, <3>1 DEF Touched, Settled
  <2>3. CASE ~Held(C, i) /\ reports'[i] = reports[i]
    <3>1. Stored(i) /\ RowInv(i)
        BY <1>0, <1>1, <1>2, <2>3 DEF TableInv
    <3> QED BY <2>3, <3>1, RowStays
  <2> QED BY <2>1, <2>2, <2>3
<1>3. ASSUME NEW i \in CastId, i > issued' PROVE ~Stored(i)' /\ reports'[i] = NoReport
  <2>1. i > issued
      BY <1>0, <1>3
  <2>2. ~Stored(i) /\ reports[i] = NoReport
      BY <1>0, <2>1 DEF TableInv
  <2>3. ~Held(C, i)
    <3>1. ASSUME NEW c \in C, Holds(c, i) PROVE FALSE
      <4>1. i <= issued
          BY <1>0, <3>1, HeldIsUnwritten DEF Before
      <4> QED BY <1>0, <2>1, <4>1
    <3> QED BY <3>1 DEF Held
  <2> QED BY <1>0, <1>1, <2>2, <2>3 DEF Touched, Onward
<1>4. ASSUME NEW i \in detached' PROVE Stored(i)'
  <2>1. i \in CastId
      BY <1>0 DEF Typed
  <2>2. CASE Held(C, i)
      BY <2>1, <2>2 DEF Settled
  <2>3. CASE ~Held(C, i)
      BY <1>0, <1>1, <2>1, <2>3 DEF TableInv
  <2> QED BY <2>2, <2>3
<1>5. \A i \in old' : i <= issued'
    BY <1>0 DEF TableInv
<1> QED BY <1>2, <1>3, <1>4, <1>5 DEF TableInv

CastsInv == TableInv /\ \A c \in Caller : CallInv(c)

LEMMA OneCall ==
    ASSUME Typed, Typed', CastsInv, NEW c \in Caller, Onward({c}), Settled({c}), CallInv(c)'
    PROVE  CastsInv'
<1>1. Before({c})
    BY DEF Before, CastsInv
<1>2. TableInv'
    BY <1>1, TableStays
<1>3. \A d \in Caller : CallInv(d)'
    BY <1>1, OtherCall
<1> QED BY <1>2, <1>3 DEF CastsInv

-----------------------------------------------------------------------------
(* The steps that leave the rows alone.                                    *)

LEMMA SameTables ==
    ASSUME Typed, Typed', CastsInv, NEW c \in Caller, OnlyCall(c),
           UNCHANGED <<casts, reports, cached, old, detached>>,
           inForce \subseteq inForce', issued <= issued',
           \A i \in CastId : Holds(c, i)' => Holds(c, i) \/ i > issued,
           CallInv(c)'
    PROVE  CastsInv'
<1>1. Onward({c})
    BY DEF Onward, OnlyCall
<1>2. Settled({c})
  <2>1. ASSUME NEW i \in CastId, Held({c}, i) PROVE ~Stored(i)' /\ i \notin detached'
    <3>1. ~Stored(i) /\ i \notin detached
        BY <2>1, HeldIsUnwritten DEF Held, CastsInv
    <3> QED BY <3>1 DEF Stored
  <2> QED BY <2>1 DEF Settled
<1> QED BY <1>1, <1>2, OneCall

\* The call ends, fails, or sets thresholds.
LEMMA QuietCall ==
    ASSUME Typed, Typed', CastsInv, NEW c \in Caller, OnlyCall(c),
           UNCHANGED <<casts, reports, cached, old, detached>>,
           inForce \subseteq inForce', issued <= issued',
           frame'[c].pc \in {"idle", "raised", "returned", "set_row", "set_memory"},
           frame'[c].todo = <<>> \/ frame'[c].pc # "returned"
    PROVE  CastsInv'
<1>1. ~Casting(c)'
    BY DEF Casting
<1>2. CallInv(c)'
    BY <1>1 DEF CallInv, AnswerInv, FillInv, At
<1>3. \A i \in CastId : ~Holds(c, i)'
    BY <1>1 DEF Holds
<1> QED BY <1>2, <1>3, SameTables

\* New ids are nobody's.
LEMMA NewIds ==
    ASSUME Typed, CastsInv, NEW i \in CastId, i > issued
    PROVE  /\ ~Stored(i) /\ reports[i] = NoReport /\ i \notin old \cup detached
           /\ \A d \in Caller : ~Holds(d, i)
<1>0. i \in Nat /\ issued \in Nat /\ old \subseteq Nat
    BY LineageAssumption DEF CastId, Typed
<1>1. ~Stored(i) /\ reports[i] = NoReport /\ i \notin detached
    BY DEF CastsInv, TableInv
<1>2. i \notin old
    BY <1>0 DEF CastsInv, TableInv
<1>3. ASSUME NEW d \in Caller, Holds(d, i) PROVE FALSE
  <2>1. i <= issued
      BY <1>3, HeldIsUnwritten DEF CastsInv
  <2> QED BY <1>0, <2>1
<1> QED BY <1>1, <1>2, <1>3

LEMMA NewChainCall ==
    ASSUME Typed, Typed', CastsInv, NEW c \in Caller, OnlyCall(c),
           UNCHANGED <<tables, memory, history>>, ~Casting(c),
           NEW n \in Nat \ {0}, issued' = issued + n, NewChain(frame'[c].todo, n),
           \/ frame'[c].pc = "insert"
           \/ frame'[c].pc = "parent" /\ n = 1 /\ frame'[c].asked \in 1 .. issued
    PROVE  CastsInv'
<1> USE DEF tables, memory, history
<1>1. PICK todo : todo = frame'[c].todo
    OBVIOUS
<1>2. /\ todo \in Seq(Item) /\ Len(todo) = n /\ DOMAIN todo = 1 .. n
      /\ \A k \in 1 .. n : todo[k].id = issued + k
      /\ todo[1].row.parent = 0 /\ todo[1].row.depth = 0
      /\ \A k \in 2 .. n : /\ todo[k].row.parent = issued + k - 1
                           /\ todo[k].row.depth = todo[k - 1].row.depth + 1
      /\ issued \in Nat
    BY <1>1 DEF NewChain, Typed
<1>3. ASSUME NEW k \in 1 .. n, NEW i, i = todo[k].id
      PROVE  /\ i \in CastId /\ i > issued /\ i <= issued' /\ ~Stored(i)'
             /\ i \notin old' \cup detached' /\ reports'[i] = NoReport
             /\ \A d \in Caller \ {c} : ~Holds(d, i)'
  <2>1. i = issued + k /\ i > issued /\ i <= issued'
      BY <1>2, <1>3
  <2>2. i \in CastId
    <3>1. todo[k] \in Item
        BY <1>2
    <3> QED BY <1>3, <3>1 DEF Item
  <2>3. /\ ~Stored(i) /\ reports[i] = NoReport /\ i \notin old \cup detached
        /\ \A d \in Caller : ~Holds(d, i)
      BY <2>1, <2>2, NewIds
  <2>4. \A d \in Caller \ {c} : ~Holds(d, i)'
      BY <2>3 DEF OnlyCall, Holds, Casting
  <2> QED BY <2>1, <2>2, <2>3, <2>4 DEF Stored
<1>4. TodoInv(c)'
  <2>1. ASSUME NEW k \in 1 .. n
        PROVE  /\ todo[k].id = todo[1].id + (k - 1) /\ todo[k].id <= issued'
               /\ ~Stored(todo[k].id)' /\ todo[k].id \notin old' \cup detached'
               /\ reports'[todo[k].id] = NoReport
               /\ \A d \in Caller \ {c} : ~Holds(d, todo[k].id)'
    <3>1. todo[k].id = todo[1].id + (k - 1)
        BY <1>2
    <3> QED BY <1>3, <3>1
  <2>2. \A k \in 2 .. n : /\ todo[k].row.parent = todo[k - 1].id
                          /\ todo[k].row.depth = todo[k - 1].row.depth + 1
    <3>1. ASSUME NEW k \in 2 .. n PROVE todo[k].row.parent = todo[k - 1].id
      <4>1. k - 1 \in 1 .. n
          BY <1>2
      <4>2. todo[k - 1].id = issued + (k - 1) /\ todo[k].row.parent = issued + k - 1
          BY <1>2, <4>1
      <4> QED BY <1>2, <4>2
    <3> QED BY <1>2, <3>1
  <2>3. todo # <<>> /\ \A k \in DOMAIN todo \ {1} : k \in 2 .. n
      BY <1>2
  <2> QED BY <1>1, <1>2, <2>1, <2>2, <2>3 DEF TodoInv
<1>5. HeadInv(c)'
  <2>1. PICK i, row : i = todo[1].id /\ row = todo[1].row
      OBVIOUS
  <2>2. /\ reports'[i] = NoReport /\ i = issued + 1
        /\ row.parent = 0 /\ row.depth = 0
      BY <1>2, <1>3, <2>1
  <2>3. PICK asked : asked = frame'[c].asked
      OBVIOUS
  <2>4. At(c, "parent")' => asked # 0 /\ asked < i /\ Len(todo) = 1
      BY <1>2, <2>2, <2>3 DEF At
  <2>5. ~At(c, "report")' /\ ~At(c, "predict")' /\ ~At(c, "keep")'
      BY DEF At
  <2> QED BY <1>1, <2>1, <2>2, <2>3, <2>4, <2>5 DEF HeadInv
<1>6. CallInv(c)'
    BY <1>4, <1>5 DEF CallInv, AnswerInv, FillInv, At
<1>7. \A i \in CastId : Holds(c, i)' => i > issued
    BY <1>1, <1>2, <1>3 DEF Holds
<1>8. issued <= issued'
    BY <1>2
<1> QED BY <1>6, <1>7, <1>8, SameTables

LEMMA OneBefore ==
    ASSUME NEW first \in Nat, NEW last \in Nat, NEW max \in Nat,
           first < last - 1, last <= max
    PROVE  /\ last - 1 \in 1 .. max /\ last - 1 > first
           /\ last - 1 < last /\ last - 1 <= last
OBVIOUS

LEMMA KeepCall ==
    ASSUME Typed, Typed', CastsInv, NEW c \in Caller,
           NEW label \in {"predict", "keep"}, LastIsKept(c, label),
           UNCHANGED <<tables, memory, history>>
    PROVE  CastsInv'
<1> USE DEF tables, memory, history
<1>1. PICK todo : todo = frame'[c].todo
    OBVIOUS
<1>2. /\ OnlyCall(c) /\ issued \in Nat /\ issued' \in Nat /\ issued < issued'
      /\ frame'[c].pc = label
      /\ Len(todo) = 1 /\ todo[1] \in Item /\ todo[1].id = issued'
      /\ \/ todo[1].row.parent = 0 /\ todo[1].row.depth = 0
         \/ todo[1].row.parent = issued' - 1 /\ issued < issued' - 1
    BY <1>1 DEF Typed, LastIsKept
<1>3. UNCHANGED <<casts, reports, cached, old, detached, inForce>>
    OBVIOUS
<1>4. todo \in Seq(Item) /\ DOMAIN todo = {1} /\ todo # <<>>
  <2>1. todo \in Seq(Item)
      BY <1>1 DEF Typed, CallFrame
  <2>2. Len(todo) = 1
      BY <1>2
  <2>3. DOMAIN todo = 1 .. 1 /\ todo # <<>>
      BY <2>1, <2>2
  <2> QED BY <2>1, <2>3
<1>5. PICK i, row : i = todo[1].id /\ row = todo[1].row
    OBVIOUS
<1>6. i = issued' /\ i \in CastId /\ CastId = 1 .. MaxCasts /\ MaxCasts \in Nat
    BY <1>2, <1>5, LineageAssumption DEF Item, CastId
<1>7. ASSUME NEW j \in CastId, j > issued
      PROVE  /\ ~Stored(j)' /\ j \notin old' \cup detached' /\ reports'[j] = NoReport
             /\ \A d \in Caller \ {c} : ~Holds(d, j)'
  <2>1. /\ ~Stored(j) /\ reports[j] = NoReport /\ j \notin old \cup detached
        /\ \A d \in Caller : ~Holds(d, j)
      BY <1>7, NewIds
  <2> QED BY <1>2, <1>3, <2>1 DEF OnlyCall, Holds, Casting, Stored
<1>8. TodoInv(c)'
  <2>1. /\ i <= issued' /\ ~Stored(i)' /\ i \notin old' \cup detached'
        /\ \A d \in Caller \ {c} : ~Holds(d, i)'
      BY <1>2, <1>6, <1>7
  <2>2. todo[1].id = todo[1].id + (1 - 1)
      BY <1>2
  <2>3. \A k \in DOMAIN todo : k = 1
      BY <1>4
  <2> QED BY <1>1, <1>4, <1>5, <2>1, <2>2, <2>3 DEF TodoInv
<1>9. \A j \in CastId : Holds(c, j)' => j = i
    BY <1>1, <1>4, <1>5 DEF Holds
<1>10. row.parent # 0 => row.parent < i /\ Skipped(row.parent)'
  <2>1. SUFFICES ASSUME row.parent # 0 PROVE row.parent < i /\ Skipped(row.parent)'
      OBVIOUS
  <2>2. PICK parent : parent = row.parent
      OBVIOUS
  <2>3. parent = issued' - 1 /\ issued < issued' - 1 /\ parent < i /\ parent <= issued'
        /\ parent \in CastId /\ parent > issued
    <3>1. parent = issued' - 1 /\ issued < issued' - 1
        BY <1>2, <1>5, <2>1, <2>2
    <3>2. /\ issued \in Nat /\ issued' \in Nat
          /\ issued' <= MaxCasts /\ MaxCasts \in Nat
        BY <1>2, <1>6
    <3>3. /\ parent \in 1 .. MaxCasts /\ parent > issued
          /\ parent < issued' /\ parent <= issued'
        BY <3>1, <3>2, OneBefore
    <3> QED BY <1>6, <3>1, <3>3
  <2>4. \A d \in Caller : ~Holds(d, parent)'
      BY <1>7, <1>9, <2>3
  <2>5. Skipped(parent)'
      BY <1>7, <2>3, <2>4 DEF Skipped
  <2> QED BY <2>2, <2>3, <2>5
<1>11. HeadInv(c)'
  <2>1. /\ ~At(c, "parent")' /\ ~At(c, "report")' /\ ~At(c, "insert")'
      BY <1>2 DEF At
  <2>2. reports'[i] = NoReport /\ (row.parent = 0 => row.depth = 0)
    <3>1. reports'[i] = NoReport
        BY <1>2, <1>6, <1>7
    <3>2. row.parent = 0 => row.depth = 0
        BY <1>2, <1>5
    <3> QED BY <3>1, <3>2
  <2> QED BY <1>1, <1>2, <1>5, <1>10, <2>1, <2>2 DEF HeadInv
<1>12. CallInv(c)'
    BY <1>2, <1>8, <1>11 DEF CallInv, AnswerInv, FillInv, At
<1>13. \A j \in CastId : Holds(c, j)' => j > issued
    BY <1>2, <1>6, <1>9
<1> QED BY <1>2, <1>3, <1>12, <1>13, SameTables

-----------------------------------------------------------------------------
(* The steps of a cast.                                                    *)

\* What is known of the casts a call still has to write.
LEMMA Writing ==
    ASSUME Typed, CastsInv, NEW c \in Caller, Casting(c),
           NEW todo, todo = frame[c].todo
    PROVE  /\ TodoInv(c) /\ HeadInv(c)
           /\ todo \in Seq(Item) /\ todo # <<>> /\ 1 \in DOMAIN todo
           /\ Len(todo) \in Nat \ {0} /\ DOMAIN todo = 1 .. Len(todo)
           /\ \A k \in DOMAIN todo : /\ todo[k] \in Item /\ todo[k].id \in CastId
                                     /\ todo[k].id \in Nat /\ todo[k].row \in Row
                                     /\ todo[k].id = todo[1].id + (k - 1)
           /\ \A k \in DOMAIN todo \ {1} : todo[k].id # todo[1].id
<1>1. TodoInv(c) /\ HeadInv(c)
    BY DEF CastsInv, CallInv
<1>2. todo \in Seq(Item) /\ todo # <<>>
    BY <1>1 DEF Typed, CallFrame, TodoInv
<1>3. 1 \in DOMAIN todo /\ Len(todo) \in Nat \ {0} /\ DOMAIN todo = 1 .. Len(todo)
    BY <1>2
<1>4. ASSUME NEW k \in DOMAIN todo
      PROVE  /\ todo[k] \in Item /\ todo[k].id \in CastId
             /\ todo[k].id \in Nat /\ todo[k].row \in Row
             /\ todo[k].id = todo[1].id + (k - 1)
  <2>1. todo[k] \in Item
      BY <1>2
  <2>2. todo[k].id \in Nat
      BY <2>1, LineageAssumption DEF Item, CastId
  <2> QED BY <1>1, <2>1, <2>2 DEF TodoInv, Item
<1>5. \A k \in DOMAIN todo \ {1} : todo[k].id # todo[1].id
    BY <1>3, <1>4
<1> QED BY <1>1, <1>2, <1>3, <1>4, <1>5

LEMMA WritingOne ==
    ASSUME NEW c \in Caller, TodoInv(c), NEW todo, todo = frame[c].todo,
           NEW k \in DOMAIN todo, NEW i, i = todo[k].id
    PROVE  /\ i <= issued /\ ~Stored(i) /\ i \notin old \cup detached
           /\ \A d \in Caller \ {c} : ~Holds(d, i)
           /\ k # 1 => /\ reports[i] = NoReport
                       /\ todo[k].row.parent = todo[k - 1].id
                       /\ todo[k].row.depth = todo[k - 1].row.depth + 1
BY DEF TodoInv

LEMMA ReadParentCall ==
    ASSUME Typed, Typed', CastsInv, ThresholdInv, NEW c \in Caller, ReadParent(c)
    PROVE  CastsInv'
<1> USE DEF tables, memory, history, bounds
<1>1. PICK todo, new : todo = frame[c].todo /\ new = frame'[c].todo
    OBVIOUS
<1>2. Casting(c) /\ At(c, "parent")
    BY DEF ReadParent, Casting, At
<1>3. /\ TodoInv(c) /\ HeadInv(c)
      /\ todo \in Seq(Item) /\ todo # <<>> /\ 1 \in DOMAIN todo
      /\ DOMAIN todo = 1 .. Len(todo)
      /\ \A k \in DOMAIN todo : todo[k].id \in CastId /\ todo[k].row \in Row
    BY <1>1, <1>2, Writing
<1>4. UNCHANGED <<casts, reports, cached, active, old, detached, inForce, issued>>
    BY DEF ReadParent
<1>5. PICK row : row = new[1].row
    OBVIOUS
<1>6. /\ OnlyCall(c)
      /\ \/ frame'[c].pc = "raised" /\ new = <<>>
         \/ /\ frame'[c].pc = "report"
            /\ DOMAIN new = DOMAIN todo /\ new # <<>>
            /\ \A k \in DOMAIN todo \ {1} : new[k] = todo[k]
            /\ new[1].id = todo[1].id /\ row.sigil = todo[1].row.sigil
            /\ Stored(row.parent)
            /\ frame'[c].report = Report(row.parent, casts[row.parent].sigil,
                                         row.sigil, active[Home[c]])
            /\ IF frame[c].asked = 0 THEN row = todo[1].row
               ELSE /\ row.parent = frame[c].asked
                    /\ row.depth = casts[row.parent].depth + 1
    BY <1>1, <1>3, <1>5, ReadParentEffect
<1>7. CASE frame'[c].pc = "raised"
  <2>1. issued <= issued'
      BY <1>4 DEF Typed
  <2> QED BY <1>4, <1>6, <1>7, <2>1, QuietCall
<1>8. CASE frame'[c].pc = "report"
  <2>1. /\ DOMAIN new = DOMAIN todo /\ new # <<>>
        /\ \A k \in DOMAIN todo \ {1} : new[k] = todo[k]
        /\ \A k \in DOMAIN todo : new[k].id = todo[k].id
      BY <1>6, <1>8
  <2>2. ASSUME NEW k \in DOMAIN todo
        PROVE  /\ new[k].id = new[1].id + (k - 1) /\ new[k].id <= issued'
               /\ ~Stored(new[k].id)' /\ new[k].id \notin old' \cup detached'
               /\ \A d \in Caller \ {c} : ~Holds(d, new[k].id)'
    <3>1. PICK i : i = todo[k].id
        OBVIOUS
    <3>2. /\ i = todo[1].id + (k - 1) /\ i <= issued /\ ~Stored(i)
          /\ i \notin old \cup detached /\ \A d \in Caller \ {c} : ~Holds(d, i)
        BY <1>1, <1>3, <3>1 DEF TodoInv
    <3>3. \A d \in Caller \ {c} : ~Holds(d, i)'
        BY <1>6, <3>2 DEF OnlyCall, Holds, Casting
    <3>4. new[k].id = i /\ new[1].id = todo[1].id
        BY <1>3, <2>1, <3>1
    <3> QED BY <1>4, <3>2, <3>3, <3>4 DEF Stored
  <2>3. \A k \in DOMAIN todo \ {1} : /\ new[k].row.parent = new[k - 1].id
                                     /\ new[k].row.depth = new[k - 1].row.depth + 1
                                     /\ reports'[new[k].id] = NoReport
    <3> SUFFICES ASSUME NEW k \in DOMAIN todo \ {1}
                 PROVE  /\ new[k].row.parent = new[k - 1].id
                        /\ new[k].row.depth = new[k - 1].row.depth + 1
                        /\ reports'[new[k].id] = NoReport
        OBVIOUS
    <3>1. k - 1 \in DOMAIN todo /\ Len(todo) # 1
        BY <1>3
    <3>2. frame[c].asked = 0
        BY <1>1, <1>2, <1>3, <3>1 DEF HeadInv
    <3>3. new[k - 1].row = todo[k - 1].row /\ new[k - 1].id = todo[k - 1].id
        BY <1>5, <1>6, <1>8, <2>1, <3>1, <3>2
    <3>4. PICK i : i = todo[k].id
        OBVIOUS
    <3>5. /\ reports[i] = NoReport
          /\ todo[k].row.parent = todo[k - 1].id
          /\ todo[k].row.depth = todo[k - 1].row.depth + 1
        BY <1>1, <1>3, <3>4, WritingOne
    <3>6. new[k] = todo[k]
        BY <2>1
    <3> QED BY <1>4, <3>3, <3>4, <3>5, <3>6
  <2>4. TodoInv(c)'
      BY <1>1, <2>1, <2>2, <2>3 DEF TodoInv
  <2>5. PICK i : i = todo[1].id
      OBVIOUS
  <2>6. Child(i, row)
    <3>1. row.parent # 0 /\ Stored(row.parent)
        BY <1>6, <1>8, LineageAssumption DEF Stored, CastId
    <3> QED BY <1>1, <1>2, <1>3, <1>6, <1>8, <2>5, <3>1 DEF HeadInv, Child
  <2>7. PICK r : r = frame'[c].report
      OBVIOUS
  <2>8. Justified(row.parent, row.sigil, r)
      BY <1>6, <1>8, <2>7, LineageAssumption DEF Justified, ThresholdInv
  <2>9. Child(i, row)' /\ Justified(row.parent, row.sigil, r)'
      BY <1>4, <2>6, <2>8 DEF Child, Justified, Stored
  <2>10. HeadInv(c)'
    <3>1. ~At(c, "parent")' /\ ~At(c, "insert")' /\ ~At(c, "predict")' /\ ~At(c, "keep")'
        BY <1>8 DEF At
    <3>2. new[1].id = i
        BY <1>3, <2>1, <2>5
    <3> QED BY <1>1, <1>5, <2>7, <2>9, <3>1, <3>2 DEF HeadInv
  <2>11. CallInv(c)'
      BY <1>8, <2>4, <2>10 DEF CallInv, AnswerInv, FillInv, At
  <2>12. \A j \in CastId : Holds(c, j)' => Holds(c, j)
      BY <1>1, <1>2, <2>1 DEF Holds
  <2>13. issued <= issued'
      BY <1>4 DEF Typed
  <2> QED BY <1>4, <1>6, <2>11, <2>12, <2>13, SameTables
<1> QED BY <1>6, <1>7, <1>8

LEMMA WriteReportCall ==
    ASSUME Typed, Typed', CastsInv, NEW c \in Caller, WriteReport(c)
    PROVE  CastsInv'
<1> USE DEF history, bounds
<1>1. PICK todo : todo = frame[c].todo
    OBVIOUS
<1>2. Casting(c) /\ At(c, "report")
    BY DEF WriteReport, Casting, At
<1>3. /\ TodoInv(c) /\ HeadInv(c)
      /\ todo \in Seq(Item) /\ todo # <<>> /\ 1 \in DOMAIN todo
      /\ DOMAIN todo = 1 .. Len(todo)
      /\ \A k \in DOMAIN todo : /\ todo[k].id \in CastId /\ todo[k].row \in Row
                                /\ todo[k].id = todo[1].id + (k - 1)
      /\ \A k \in DOMAIN todo \ {1} : todo[k].id # todo[1].id
    BY <1>1, <1>2, Writing
<1>4. PICK i, row, r : i = todo[1].id /\ row = todo[1].row /\ r = frame[c].report
    OBVIOUS
<1>5. /\ UNCHANGED <<casts, old, detached, inForce, issued>>
      /\ issued <= issued' /\ Now(c).id = i
    BY <1>1, <1>3, <1>4 DEF WriteReport, Now, Typed
<1>6. CASE Broken(c) /\ UNCHANGED <<reports, cached>>
    BY <1>5, <1>6, RaiseTyped, QuietCall DEF Broken
<1>7. CASE /\ reports' = ReportWritten(i, r)
           /\ cached' = Remembered(Home[c], i, r)
           /\ Goto(c, "insert")
  <2>1. OnlyCall(c) /\ frame'[c].pc = "insert" /\ frame'[c].todo = todo
      BY <1>1, <1>7, GotoTyped DEF Label
  <2>2. i \in CastId /\ Home[c] \in Process
      BY <1>3, <1>4, LineageAssumption
  <2>3. \A j \in CastId : reports'[j] = IF j = i THEN r ELSE reports[j]
      BY <1>7 DEF ReportWritten, Typed
  <2>4. /\ cached'[Home[c]][i] = r
        /\ \A p \in Process, j \in CastId \ {i} : cached'[p][j] = cached[p][j]
      BY <1>7, <2>2 DEF Remembered, Typed
  <2>5. Holds(c, i) /\ \A j \in CastId : Holds(c, j)' => Holds(c, j)
      BY <1>1, <1>2, <1>3, <1>4, <2>1 DEF Holds
  <2>6. Onward({c})
      BY <1>5, <2>1, <2>3, <2>4, <2>5, LineageAssumption DEF Onward, OnlyCall, Touched, Held
  <2>7. Settled({c})
    <3>1. ASSUME NEW j \in CastId, Held({c}, j)
          PROVE  ~Stored(j) /\ ~Stored(j)' /\ j \notin detached'
      <4>1. ~Stored(j) /\ j \notin detached
          BY <3>1, HeldIsUnwritten DEF Held, CastsInv
      <4> QED BY <1>5, <4>1 DEF Stored
    <3>2. ASSUME NEW j \in CastId, reports'[j] # reports[j] PROVE Held({c}, j)
        BY <2>3, <2>5, <3>2 DEF Held
    <3> QED BY <3>1, <3>2 DEF Settled
  <2>8. Child(i, row) /\ Justified(row.parent, row.sigil, r)
      BY <1>1, <1>2, <1>3, <1>4 DEF HeadInv
  <2>9. Child(i, row)' /\ Justified(row.parent, row.sigil, r)' /\ row.parent # 0
      BY <1>5, <2>8 DEF Child, Justified, Stored
  <2>10. ASSUME NEW k \in DOMAIN todo
         PROVE  /\ todo[k].id <= issued'
                /\ ~Stored(todo[k].id)' /\ todo[k].id \notin old' \cup detached'
                /\ \A d \in Caller \ {c} : ~Holds(d, todo[k].id)'
                /\ k # 1 => reports'[todo[k].id] = NoReport
    <3>1. PICK j : j = todo[k].id
        OBVIOUS
    <3>2. /\ j \in CastId /\ j <= issued /\ ~Stored(j) /\ j \notin old \cup detached
          /\ \A d \in Caller \ {c} : ~Holds(d, j)
          /\ k # 1 => reports[j] = NoReport /\ j # i
      <4>1. j \in CastId /\ (k # 1 => j # i)
          BY <1>3, <1>4, <3>1
      <4> QED BY <1>1, <1>3, <3>1, <4>1, WritingOne
    <3>3. \A d \in Caller \ {c} : ~Holds(d, j)'
        BY <2>1, <3>2 DEF OnlyCall, Holds, Casting
    <3> QED BY <1>5, <2>3, <3>1, <3>2, <3>3 DEF Stored
  <2>11. TodoInv(c)'
    <3>1. \A k \in DOMAIN todo \ {1} : /\ todo[k].row.parent = todo[k - 1].id
                                       /\ todo[k].row.depth = todo[k - 1].row.depth + 1
        BY <1>1, <1>3 DEF TodoInv
    <3>2. todo # <<>> /\ \A k \in DOMAIN todo : todo[k].id = todo[1].id + (k - 1)
        BY <1>3
    <3> QED BY <2>1, <2>10, <3>1, <3>2 DEF TodoInv
  <2>12. HeadInv(c)'
    <3>1. ~At(c, "parent")' /\ ~At(c, "report")' /\ ~At(c, "predict")' /\ ~At(c, "keep")'
        BY <2>1 DEF At
    <3>2. reports'[i] = r /\ cached'[Home[c]][i] = r
        BY <2>2, <2>3, <2>4
    <3> QED BY <1>4, <2>1, <2>9, <3>1, <3>2 DEF HeadInv
  <2>13. CallInv(c)'
      BY <2>1, <2>11, <2>12 DEF CallInv, AnswerInv, FillInv, At
  <2> QED BY <2>6, <2>7, <2>13, OneCall
<1> QED BY <1>4, <1>5, <1>6, <1>7 DEF WriteReport

\* The row of a cast that is written: what a step that writes it comes to.
LEMMA RowIsWritten ==
    ASSUME Typed, Typed', CastsInv, NEW c \in Caller, OnlyCall(c), Casting(c),
           NEW i, i = frame[c].todo[1].id, NEW row, row = frame[c].todo[1].row,
           casts' = RowWritten(i, row),
           UNCHANGED <<reports, cached, old, inForce, issued>>,
           detached' = detached \/ detached' = detached \cup {i},
           \A j \in CastId : Holds(c, j)' => Holds(c, j),
           Before({c}) => Stored(i)' /\ RowInv(i)',
           CallInv(c)'
    PROVE  CastsInv'
<1>1. i \in CastId /\ row \in Row /\ Holds(c, i)
  <2>1. PICK todo : todo = frame[c].todo
      OBVIOUS
  <2>2. 1 \in DOMAIN todo /\ \A k \in DOMAIN todo : todo[k].id \in CastId /\ todo[k].row \in Row
      BY <2>1, Writing
  <2> QED BY <2>1, <2>2 DEF Holds
<1>2. \A j \in CastId : casts'[j] = IF j = i THEN row ELSE casts[j]
    BY DEF RowWritten, Typed
<1>3. Onward({c})
  <2>1. \A j \in CastId : ~Held({c}, j) =>
           casts'[j] = casts[j] /\ (j \in detached' <=> j \in detached)
      BY <1>1, <1>2 DEF Held
  <2>2. issued <= issued'
      BY DEF Typed
  <2> QED BY <2>1, <2>2 DEF Onward, OnlyCall
<1>4. Before({c})
    BY <1>3 DEF Before, CastsInv
<1>5. Settled({c})
  <2>1. ASSUME NEW j \in CastId, Held({c}, j), j # i PROVE ~Stored(j)' /\ j \notin detached'
    <3>1. ~Stored(j) /\ j \notin detached
        BY <2>1, HeldIsUnwritten DEF Held, CastsInv
    <3> QED BY <1>2, <2>1, <3>1 DEF Stored
  <2> QED BY <1>4, <2>1 DEF Settled
<1> QED BY <1>3, <1>5, OneCall

LEMMA WriteCastCall ==
    ASSUME Typed, Typed', CastsInv, NEW c \in Caller, WriteCast(c)
    PROVE  CastsInv'
<1> USE DEF memory, history, bounds
<1>1. PICK todo, new : todo = frame[c].todo /\ new = frame'[c].todo
    OBVIOUS
<1>2. Casting(c) /\ At(c, "insert")
    BY DEF WriteCast, Casting, At
<1>3. /\ TodoInv(c) /\ HeadInv(c)
      /\ todo \in Seq(Item) /\ todo # <<>> /\ 1 \in DOMAIN todo
      /\ Len(todo) \in Nat \ {0} /\ DOMAIN todo = 1 .. Len(todo)
      /\ \A k \in DOMAIN todo : /\ todo[k].id \in CastId /\ todo[k].row \in Row
                                /\ todo[k].id \in Nat
                                /\ todo[k].id = todo[1].id + (k - 1)
      /\ \A k \in DOMAIN todo \ {1} : todo[k].id # todo[1].id
    BY <1>1, <1>2, Writing
<1>4. PICK i, row : i = todo[1].id /\ row = todo[1].row
    OBVIOUS
<1>5. /\ UNCHANGED <<reports, cached, old, detached, inForce, issued>>
      /\ issued <= issued'
    BY DEF WriteCast, Typed
<1>6. /\ OnlyCall(c)
      /\ \/ frame'[c].pc = "raised" /\ new = <<>> /\ casts' = casts
         \/ /\ casts' = RowWritten(i, row)
            /\ \/ /\ Len(todo) = 1 /\ frame'[c].pc = "returned" /\ new = todo
                  /\ frame'[c].answer = Told(Home[c], todo[1])
               \/ /\ Len(todo) # 1 /\ frame'[c].pc = "parent"
                  /\ new = Tail(todo) /\ frame'[c].asked = 0
    BY <1>1, <1>3, <1>4, WriteCastEffect
<1>7. CASE frame'[c].pc = "raised"
    BY <1>1, <1>5, <1>6, <1>7, QuietCall
<1>8. CASE frame'[c].pc # "raised"
  <2>0. casts' = RowWritten(i, row)
      BY <1>6, <1>8
  <2>1. /\ i \in CastId /\ row \in Row /\ i \notin old \cup detached /\ i <= issued
        /\ IF row.parent = 0 THEN row.depth = 0 /\ reports[i] = NoReport
           ELSE /\ Child(i, row)
                /\ Justified(row.parent, row.sigil, reports[i])
                /\ cached[Home[c]][i] = reports[i]
      BY <1>1, <1>2, <1>3, <1>4 DEF TodoInv, HeadInv
  <2>2. \A j \in CastId : casts'[j] = IF j = i THEN row ELSE casts[j]
      BY <2>0 DEF RowWritten, Typed
  <2>3. casts'[i] = row /\ Stored(i)'
      BY <2>1, <2>2, DriftIsPresent DEF Stored
  <2>4. ASSUME Before({c}) PROVE Stored(i)' /\ RowInv(i)'
    <3>1. PICK r : r = reports[i]
        OBVIOUS
    <3>2. row.parent # 0 => Child(i, row)' /\ Justified(row.parent, row.sigil, r)'
      <4>1. SUFFICES ASSUME row.parent # 0
                     PROVE  Child(i, row)' /\ Justified(row.parent, row.sigil, r)'
          OBVIOUS
      <4>2. Child(i, row) /\ Justified(row.parent, row.sigil, r)
          BY <2>1, <3>1, <4>1
      <4>3. Child(i, row)' /\ casts'[row.parent] = casts[row.parent]
          BY <2>4, <4>2, ChildStays DEF Child
      <4> QED BY <2>4, <4>2, <4>3, JustifiedStays DEF Justified
    <3>3. reports'[i] = r /\ i \notin detached'
        BY <1>5, <2>1, <3>1
    <3> QED BY <2>1, <2>3, <3>1, <3>2, <3>3 DEF RowInv, Child
  <2>5. CASE Len(todo) = 1
    <3>1. /\ frame'[c].pc = "returned" /\ new = todo
          /\ frame'[c].answer = Told(Home[c], todo[1])
        BY <1>6, <1>8, <2>5
    <3>2. Told(Home[c], todo[1]) = reports[i]
        BY <1>4, <2>1 DEF Told
    <3>3. ~Casting(c)'
        BY <3>1 DEF Casting
    <3>4. AnswerInv(c)'
        BY <1>1, <1>4, <1>5, <2>1, <2>3, <3>1, <3>2 DEF AnswerInv, At
    <3>5. CallInv(c)'
        BY <3>1, <3>3, <3>4 DEF CallInv, FillInv, At
    <3>6. \A j \in CastId : ~Holds(c, j)'
        BY <3>3 DEF Holds
    <3> QED BY <1>1, <1>2, <1>4, <1>5, <1>6, <2>0, <2>4, <3>5, <3>6, RowIsWritten
  <2>6. CASE Len(todo) # 1
    <3>1. frame'[c].pc = "parent" /\ new = Tail(todo) /\ frame'[c].asked = 0
        BY <1>6, <1>8, <2>6
    <3>2. /\ new \in Seq(Item) /\ Len(new) = Len(todo) - 1 /\ DOMAIN new = 1 .. Len(todo) - 1
          /\ \A k \in DOMAIN new : new[k] = todo[k + 1]
        BY <1>3, <3>1, TailOfCasts
    <3>3. 2 \in DOMAIN todo /\ new # <<>> /\ 1 \in DOMAIN new /\ new[1] = todo[2]
      <4>1. Len(todo) - 1 \in Nat \ {0} /\ 2 \in 1 .. Len(todo)
          BY <1>3, <2>6
      <4>2. 1 \in DOMAIN new /\ 2 \in DOMAIN todo
          BY <1>3, <3>2, <4>1
      <4>3. new[1] = todo[1 + 1] /\ new # <<>>
          BY <3>2, <4>2
      <4> QED BY <4>2, <4>3
    <3>4. ASSUME NEW k \in DOMAIN new
          PROVE  /\ new[k].id = new[1].id + (k - 1) /\ new[k].id <= issued'
                 /\ ~Stored(new[k].id)' /\ new[k].id \notin old' \cup detached'
                 /\ \A d \in Caller \ {c} : ~Holds(d, new[k].id)'
                 /\ reports'[new[k].id] = NoReport
                 /\ Holds(c, new[k].id)
      <4>1. PICK m, j : m = k + 1 /\ j = todo[m].id
          OBVIOUS
      <4>2. m \in DOMAIN todo \ {1} /\ new[k].id = j /\ j # i /\ k \in Nat
          BY <1>3, <1>4, <3>2, <4>1
      <4>3. /\ j \in CastId /\ j <= issued /\ ~Stored(j) /\ j \notin old \cup detached
            /\ \A d \in Caller \ {c} : ~Holds(d, j)
            /\ reports[j] = NoReport
        <5>1. j \in CastId /\ m # 1 /\ m \in DOMAIN todo
            BY <1>3, <4>1, <4>2
        <5>2. TodoInv(c) /\ todo = frame[c].todo /\ j = todo[m].id
            BY <1>1, <1>3, <4>1
        <5> QED BY <5>1, <5>2, WritingOne
      <4>4. \A d \in Caller \ {c} : ~Holds(d, j)'
          BY <1>6, <4>3 DEF OnlyCall, Holds, Casting
      <4>5. new[k].id = new[1].id + (k - 1)
        <5>1. todo[m].id = todo[1].id + (m - 1) /\ todo[2].id = todo[1].id + (2 - 1)
            BY <1>3, <3>3, <4>2
        <5>2. todo[1].id \in Nat
            BY <1>3
        <5>3. new[k].id = todo[m].id
            BY <4>1, <4>2
        <5> QED BY <3>3, <4>1, <4>2, <5>1, <5>2, <5>3
      <4>6. Holds(c, j)
          BY <1>1, <1>2, <4>1, <4>2 DEF Holds
      <4>7. ~Stored(j)'
          BY <2>2, <4>2, <4>3 DEF Stored
      <4> QED BY <1>5, <4>2, <4>3, <4>4, <4>5, <4>6, <4>7
    <3>5. \A k \in DOMAIN new \ {1} : /\ new[k].row.parent = new[k - 1].id
                                      /\ new[k].row.depth = new[k - 1].row.depth + 1
      <4> SUFFICES ASSUME NEW k \in DOMAIN new \ {1}
                   PROVE  /\ new[k].row.parent = new[k - 1].id
                          /\ new[k].row.depth = new[k - 1].row.depth + 1
          OBVIOUS
      <4>1. PICK m : m = k + 1
          OBVIOUS
      <4>2. m \in DOMAIN todo \ {1} /\ k - 1 \in DOMAIN new /\ (k - 1) + 1 = m - 1
          BY <1>3, <3>2, <4>1
      <4>3. new[k] = todo[m] /\ new[k - 1] = todo[m - 1]
          BY <3>2, <4>1, <4>2
      <4>4. m # 1 /\ m \in DOMAIN todo
          BY <4>2
      <4>5. PICK j : j = todo[m].id
          OBVIOUS
      <4>6. TodoInv(c) /\ todo = frame[c].todo
          BY <1>1, <1>3
      <4>7. /\ todo[m].row.parent = todo[m - 1].id
            /\ todo[m].row.depth = todo[m - 1].row.depth + 1
          BY <4>4, <4>5, <4>6, WritingOne
      <4> QED BY <4>3, <4>7
    <3>6. TodoInv(c)'
        BY <1>1, <3>3, <3>4, <3>5 DEF TodoInv
    <3>7. PICK j, below : j = new[1].id /\ below = new[1].row
        OBVIOUS
    <3>8. /\ below.parent = i /\ below.depth = row.depth + 1 /\ j = i + 1
          /\ i # 0 /\ i < j
      <4>1. below.parent = todo[2 - 1].id /\ below.depth = todo[2 - 1].row.depth + 1
          BY <1>1, <1>3, <3>3, <3>7 DEF TodoInv
      <4>2. j = i + 1 /\ i \in Nat
          BY <1>3, <1>4, <3>3, <3>7
      <4>3. i # 0
          BY <2>1, LineageAssumption DEF CastId
      <4> QED BY <1>4, <4>1, <4>2, <4>3
    <3>9. Child(j, below)'
        BY <2>3, <3>8 DEF Child
    <3>10. HeadInv(c)'
      <4>1. reports'[j] = NoReport
          BY <3>3, <3>4, <3>7
      <4>2. ~At(c, "report")' /\ ~At(c, "insert")' /\ ~At(c, "predict")' /\ ~At(c, "keep")'
          BY <3>1 DEF At
      <4> QED BY <1>1, <3>1, <3>7, <3>9, <4>1, <4>2 DEF HeadInv
    <3>11. CallInv(c)'
        BY <3>1, <3>6, <3>10 DEF CallInv, AnswerInv, FillInv, At
    <3>12. ASSUME NEW k \in CastId, Holds(c, k)' PROVE Holds(c, k)
        BY <1>1, <3>4, <3>12 DEF Holds
    <3> QED BY <1>1, <1>2, <1>4, <1>5, <1>6, <2>0, <2>4, <3>11, <3>12, RowIsWritten
  <2> QED BY <2>5, <2>6
<1> QED BY <1>6, <1>7, <1>8

\* The row of a cast that was kept alone.
LEMMA AloneIsWritten ==
    ASSUME Typed, Typed', CastsInv, NEW c \in Caller, OnlyCall(c), Casting(c),
           At(c, "predict") \/ At(c, "keep"),
           NEW todo, todo = frame[c].todo,
           NEW i, i = todo[1].id, NEW row, row = todo[1].row,
           casts' = RowWritten(i, row),
           detached' = IF row.parent = 0 THEN detached ELSE detached \cup {i},
           UNCHANGED <<reports, cached, old, inForce, issued>>,
           ~Casting(c)', frame'[c].todo = todo \/ ~At(c, "kept")',
           At(c, "kept")' \/ At(c, "raised")'
    PROVE  CastsInv'
<1>1. /\ TodoInv(c) /\ HeadInv(c) /\ todo # <<>> /\ 1 \in DOMAIN todo
      /\ \A k \in DOMAIN todo : todo[k].id \in CastId /\ todo[k].row \in Row
    BY Writing
<1>2. /\ i \in CastId /\ row \in Row /\ i \notin old \cup detached
      /\ reports[i] = NoReport
      /\ IF row.parent = 0 THEN row.depth = 0
         ELSE row.parent < i /\ Skipped(row.parent)
    BY <1>1 DEF TodoInv, HeadInv
<1>3. \A j \in CastId : casts'[j] = IF j = i THEN row ELSE casts[j]
    BY DEF RowWritten, Typed
<1>4. casts'[i] = row /\ Stored(i)'
    BY <1>2, <1>3, DriftIsPresent DEF Stored
<1>5. ASSUME Before({c}) PROVE Stored(i)' /\ RowInv(i)'
  <2>1. row.parent # 0 => i \in detached' /\ Skipped(row.parent)'
      BY <1>2, <1>5, SkippedStays
  <2>2. reports'[i] = NoReport
      BY <1>2
  <2> QED BY <1>2, <1>4, <2>1, <2>2 DEF RowInv
<1>6. AnswerInv(c)' /\ FillInv(c)'
  <2>1. CASE At(c, "raised")'
      BY <2>1 DEF AnswerInv, FillInv, At
  <2>2. CASE At(c, "kept")'
    <3>1. frame'[c].todo = todo /\ ~At(c, "returned")'
        BY <2>2 DEF At
    <3>2. reports'[i] = NoReport /\ i \notin old'
        BY <1>2
    <3>3. FillInv(c)'
        BY <2>2 DEF FillInv, At
    <3> QED BY <1>1, <1>2, <1>4, <3>1, <3>2, <3>3 DEF AnswerInv
  <2> QED BY <2>1, <2>2
<1>7. CallInv(c)' /\ \A j \in CastId : ~Holds(c, j)'
    BY <1>6 DEF CallInv, Holds
<1>8. detached' = detached \/ detached' = detached \cup {i}
    OBVIOUS
<1> QED BY <1>5, <1>7, <1>8, RowIsWritten

LEMMA WritePredictionCall ==
    ASSUME Typed, Typed', CastsInv, NEW c \in Caller, WritePrediction(c)
    PROVE  CastsInv'
<1> USE DEF memory, history, bounds
<1>1. PICK todo : todo = frame[c].todo
    OBVIOUS
<1>2. Casting(c) /\ At(c, "predict")
    BY DEF WritePrediction, Casting, At
<1>3. /\ TodoInv(c) /\ HeadInv(c)
      /\ todo # <<>> /\ 1 \in DOMAIN todo
      /\ \A k \in DOMAIN todo : todo[k].id \in CastId /\ todo[k].row \in Row
    BY <1>1, <1>2, Writing
<1>4. PICK i, row : i = todo[1].id /\ row = todo[1].row
    OBVIOUS
<1>5. /\ UNCHANGED <<reports, cached, old, inForce, issued>>
      /\ issued <= issued' /\ Now(c) = todo[1]
    BY <1>1, <1>3 DEF WritePrediction, Typed, Now, CallFrame
<1>6. OnlyCall(c) /\ frame'[c].pc = "raised" /\ frame'[c].todo = <<>>
    BY RaiseTyped DEF WritePrediction
<1>7. CASE UNCHANGED <<casts, detached>>
    BY <1>5, <1>6, <1>7, QuietCall
<1>8. CASE /\ casts' = RowWritten(i, row)
           /\ detached' = IF row.parent = 0 THEN detached ELSE detached \cup {i}
  <2>1. ~Casting(c)' /\ At(c, "raised")' /\ ~At(c, "kept")'
      BY <1>6 DEF Casting, At
  <2> QED BY <1>1, <1>2, <1>4, <1>5, <1>6, <1>8, <2>1, AloneIsWritten
<1> QED BY <1>4, <1>5, <1>7, <1>8 DEF WritePrediction, Detached

LEMMA WriteKeptCall ==
    ASSUME Typed, Typed', CastsInv, NEW c \in Caller, WriteKept(c)
    PROVE  CastsInv'
<1> USE DEF memory, history, bounds
<1>1. PICK todo : todo = frame[c].todo
    OBVIOUS
<1>2. Casting(c) /\ At(c, "keep")
    BY DEF WriteKept, Casting, At
<1>3. todo # <<>>
    BY <1>1, <1>2, Writing
<1>4. PICK i, row : i = todo[1].id /\ row = todo[1].row
    OBVIOUS
<1>5. UNCHANGED <<reports, cached, old, inForce, issued>> /\ issued <= issued'
    BY DEF WriteKept, Typed
<1>6. /\ OnlyCall(c)
      /\ \/ frame'[c].pc = "raised" /\ frame'[c].todo = <<>> /\ UNCHANGED <<casts, detached>>
         \/ /\ casts' = RowWritten(i, row)
            /\ detached' = IF row.parent = 0 THEN detached ELSE detached \cup {i}
            /\ frame'[c].pc = "kept" /\ frame'[c].todo = todo
    BY <1>1, <1>3, <1>4, WriteKeptEffect DEF Detached
<1>7. CASE frame'[c].pc = "raised"
    BY <1>5, <1>6, <1>7, QuietCall
<1>8. CASE frame'[c].pc = "kept"
  <2>1. ~Casting(c)' /\ At(c, "kept")'
      BY <1>8 DEF Casting, At
  <2> QED BY <1>1, <1>2, <1>4, <1>5, <1>6, <1>8, <2>1, AloneIsWritten
<1> QED BY <1>6, <1>7, <1>8

LEMMA AnswerKeptCall ==
    ASSUME Typed, Typed', CastsInv, CacheInv, NEW c \in Caller, AnswerKept(c)
    PROVE  CastsInv'
<1> USE DEF tables, memory, history, bounds
<1>1. PICK todo, i : todo = frame[c].todo /\ i = todo[1].id
    OBVIOUS
<1>2. At(c, "kept") /\ AnswerInv(c)
    BY DEF AnswerKept, CastsInv, CallInv
<1>3. /\ todo # <<>> /\ i \in CastId /\ casts[i] = todo[1].row /\ i \notin old
      /\ reports[i] = NoReport
    BY <1>1, <1>2 DEF AnswerInv
<1>4. UNCHANGED <<casts, reports, cached, old, detached, inForce, issued>> /\ issued <= issued'
    BY DEF AnswerKept, Typed
<1>5. /\ OnlyCall(c)
      /\ \/ frame'[c].pc = "raised" /\ frame'[c].todo = <<>>
         \/ /\ frame'[c].pc = "returned" /\ frame'[c].todo = todo
            /\ frame'[c].answer = Told(Home[c], todo[1])
    BY <1>1, <1>3, AnswerKeptEffect
<1>6. Told(Home[c], todo[1]) = NoReport
    BY <1>1, <1>3, LineageAssumption DEF Told, CacheInv
<1>7. ~Casting(c)'
    BY <1>5 DEF Casting
<1>8. AnswerInv(c)' /\ FillInv(c)'
    BY <1>1, <1>3, <1>4, <1>5, <1>6 DEF AnswerInv, FillInv, At
<1>9. CallInv(c)' /\ \A j \in CastId : ~Holds(c, j)'
    BY <1>7, <1>8 DEF CallInv, Holds
<1> QED BY <1>4, <1>5, <1>9, SameTables

-----------------------------------------------------------------------------
(* The steps of a backfill.                                                *)

LEMMA JustifiedIsPresent ==
    ASSUME Typed, NEW parent, Stored(parent), NEW sigil \in Sigil, NEW r,
           Justified(parent, sigil, r)
    PROVE  r # NoReport
<1>1. PICK t \in inForce : r = Report(parent, casts[parent].sigil, sigil, t)
    BY DEF Justified
<1>2. casts[parent] \in Row /\ parent \in Nat
    BY StoredRow, LineageAssumption DEF Stored, CastId
<1>3. casts[parent].sigil \in Sigil
    BY <1>2 DEF Row
<1>4. r \in Drift
    BY <1>1, <1>2, <1>3, ReportTyped
<1> QED BY <1>4, DriftIsPresent

\* A cast without a report is one of an earlier release or a detached one.
LEMMA MissingIsLate ==
    ASSUME Typed, TableInv, NEW i \in Missing
    PROVE  Stored(i) /\ casts[i].parent # 0 /\ i \in old \cup detached
<1>1. /\ i \in CastId /\ Stored(i) /\ casts[i].parent # 0 /\ reports[i] = NoReport
      /\ RowInv(i)
    BY DEF Missing, TableInv
<1>2. CASE i \notin old \cup detached
  <2>1. PICK row : row = casts[i]
      OBVIOUS
  <2>2. Child(i, row) /\ Justified(row.parent, row.sigil, NoReport)
      BY <1>1, <1>2, <2>1 DEF RowInv
  <2>3. row.sigil \in Sigil
      BY <1>1, <2>1, StoredRow DEF Row
  <2> QED BY <2>2, <2>3, JustifiedIsPresent DEF Child
<1> QED BY <1>1, <1>2

\* A step of a backfill that leaves the tables alone.
LEMMA FillCall ==
    ASSUME Typed, Typed', CastsInv, NEW c \in Caller, OnlyCall(c),
           UNCHANGED <<casts, reports, cached, old, detached, inForce, issued>>,
           frame'[c].pc \in {"fill", "fill_write"}, FillInv(c)'
    PROVE  CastsInv'
<1>1. ~Casting(c)'
    BY DEF Casting
<1>2. CallInv(c)'
    BY <1>1 DEF CallInv, AnswerInv, At
<1>3. \A i \in CastId : ~Holds(c, i)'
    BY <1>1 DEF Holds
<1>4. issued <= issued'
    BY DEF Typed
<1> QED BY <1>2, <1>3, <1>4, SameTables

LEMMA BackfillCall ==
    ASSUME Typed, Typed', CastsInv, NEW c \in Caller, Backfill(c)
    PROVE  CastsInv'
<1> USE DEF tables, memory, history, bounds
<1>1. OnlyCall(c) /\ frame'[c].pc = "fill" /\ frame'[c].pairs \subseteq Missing
    BY BackfillEffect
<1>2. UNCHANGED <<casts, reports, cached, old, detached, inForce, issued>>
    BY DEF Backfill
<1>3. ASSUME NEW i \in frame'[c].pairs
      PROVE  Stored(i)' /\ casts'[i].parent # 0 /\ i \in old' \cup detached'
  <2>1. Stored(i) /\ casts[i].parent # 0 /\ i \in old \cup detached
      BY <1>1, MissingIsLate DEF CastsInv
  <2> QED BY <1>2, <2>1 DEF Stored
<1>4. FillInv(c)'
    BY <1>1, <1>3 DEF FillInv, At
<1> QED BY <1>1, <1>2, <1>4, FillCall

LEMMA FillReadCall ==
    ASSUME Typed, Typed', CastsInv, ThresholdInv, NEW c \in Caller, FillRead(c)
    PROVE  CastsInv'
<1> USE DEF tables, memory, history, bounds
<1>1. PICK i : i = Pair(c)
    OBVIOUS
<1>2. PICK parent, sigil : parent = casts[i].parent /\ sigil = casts[i].sigil
    OBVIOUS
<1>3. /\ OnlyCall(c) /\ i \in frame[c].pairs
      /\ \/ /\ frame'[c].pc = "fill" /\ frame'[c].pairs = frame[c].pairs \ {i}
         \/ /\ frame'[c].pc = "fill_write" /\ frame'[c].pairs = frame[c].pairs
            /\ Stored(parent)
            /\ frame'[c].report = Report(parent, casts[parent].sigil, sigil, Effective)
    BY <1>1, <1>2, FillReadEffect
<1>4. UNCHANGED <<casts, reports, cached, old, detached, inForce, issued>>
    BY DEF FillRead
<1>5. FillInv(c) /\ At(c, "fill")
    BY DEF CastsInv, CallInv, FillRead
<1>6. ASSUME NEW j \in frame'[c].pairs
      PROVE  Stored(j)' /\ casts'[j].parent # 0 /\ j \in old' \cup detached'
  <2>1. Stored(j) /\ casts[j].parent # 0 /\ j \in old \cup detached
      BY <1>3, <1>5 DEF FillInv
  <2> QED BY <1>4, <2>1 DEF Stored
<1>7. PICK r : r = frame'[c].report
    OBVIOUS
<1>8. frame'[c].pc = "fill_write" =>
         /\ frame'[c].pairs # {} /\ Pair(c)' = i
         /\ Stored(parent)' /\ Justified(parent, sigil, r)'
  <2>1. SUFFICES ASSUME frame'[c].pc = "fill_write"
                 PROVE  /\ frame'[c].pairs # {} /\ Pair(c)' = i
                        /\ Stored(parent)' /\ Justified(parent, sigil, r)'
      OBVIOUS
  <2>2. frame'[c].pairs = frame[c].pairs
      BY <1>3, <2>1
  <2>3. Pair(c)' = i
      BY <1>1, <2>2 DEF Pair
  <2>4. Effective \in inForce
      BY DEF ThresholdInv
  <2>5. Justified(parent, sigil, r)'
      BY <1>3, <1>4, <1>7, <2>1, <2>4 DEF Justified
  <2>6. Stored(parent)'
      BY <1>3, <1>4, <2>1 DEF Stored
  <2> QED BY <1>3, <2>2, <2>3, <2>5, <2>6
<1>9. FillInv(c)'
    BY <1>2, <1>4, <1>6, <1>7, <1>8 DEF FillInv, At
<1> QED BY <1>3, <1>4, <1>9, FillCall

LEMMA FillWriteCall ==
    ASSUME Typed, Typed', CastsInv, NEW c \in Caller, FillWrite(c)
    PROVE  CastsInv'
<1> USE DEF history, bounds
<1>1. PICK i, r : i = Pair(c) /\ r = frame[c].report
    OBVIOUS
<1>2. PICK parent, sigil : parent = casts[i].parent /\ sigil = casts[i].sigil
    OBVIOUS
<1>3. OnlyCall(c) /\ frame'[c].pc = "fill" /\ frame'[c].pairs = frame[c].pairs \ {i}
    BY <1>1, FillWriteEffect
<1>4. UNCHANGED <<casts, old, detached, inForce, issued>> /\ issued <= issued'
    BY DEF FillWrite, Typed
<1>5. FillInv(c) /\ At(c, "fill_write")
    BY DEF CastsInv, CallInv, FillWrite
<1>6. i \in frame[c].pairs
    BY <1>1, <1>5, PairIsOne DEF FillInv, Typed, CallFrame
<1>7. /\ i \in CastId /\ Stored(i) /\ parent # 0 /\ i \in old \cup detached
      /\ Stored(parent) /\ Justified(parent, sigil, r)
    BY <1>1, <1>2, <1>5, <1>6 DEF FillInv, Stored
<1>8. ASSUME NEW j \in frame'[c].pairs
      PROVE  Stored(j)' /\ casts'[j].parent # 0 /\ j \in old' \cup detached'
  <2>1. Stored(j) /\ casts[j].parent # 0 /\ j \in old \cup detached
      BY <1>3, <1>5, <1>8 DEF FillInv
  <2> QED BY <1>4, <2>1 DEF Stored
<1>9. FillInv(c)' /\ ~Casting(c)' /\ CallInv(c)'
    BY <1>3, <1>8 DEF FillInv, At, Casting, CallInv, AnswerInv
<1>10. \A j \in CastId : ~Holds(c, j)'
    BY <1>9 DEF Holds
<1>11. CASE UNCHANGED <<reports, cached>>
    BY <1>3, <1>4, <1>9, <1>11, FillCall
<1>12. CASE reports' = ReportWritten(i, r) /\ cached' = Remembered(Home[c], i, r)
  <2>1. \A j \in CastId : reports'[j] = IF j = i THEN r ELSE reports[j]
      BY <1>12 DEF ReportWritten, Typed
  <2>2. \A p \in Process, j \in CastId \ {i} : cached'[p][j] = cached[p][j]
      BY <1>12, LineageAssumption DEF Remembered, Typed
  <2>3. Touched({c}, i)
    <3>1. i \notin detached
        BY <1>2, <1>7 DEF CastsInv, TableInv, RowInv, Skipped
    <3> QED BY <1>7, <3>1 DEF Touched
  <2>4. Onward({c})
      BY <1>3, <1>4, <1>10, <2>1, <2>2, <2>3, LineageAssumption DEF Onward, OnlyCall
  <2>5. RowInv(i)'
    <3>1. /\ parent < i
          /\ IF i \in detached THEN Skipped(parent) ELSE Child(i, casts[i])
        BY <1>2, <1>7 DEF CastsInv, TableInv, RowInv
    <3>2. i \notin detached
        BY <1>7, <3>1 DEF Skipped
    <3>3. PICK row : row = casts[i]
        OBVIOUS
    <3>4. Child(i, row)' /\ Justified(parent, sigil, r)'
        BY <1>4, <1>7, <3>1, <3>2, <3>3 DEF Child, Justified, Stored
    <3>5. casts'[i] = row /\ reports'[i] = r /\ i \notin detached' /\ row.parent = parent
          /\ row.sigil = sigil
        BY <1>2, <1>4, <1>7, <2>1, <3>2, <3>3
    <3> QED BY <1>7, <3>1, <3>4, <3>5 DEF RowInv
  <2>6. Settled({c})
    <3>1. ASSUME NEW j \in CastId, Held({c}, j) PROVE FALSE
        BY <1>5, <3>1 DEF Held, Holds, Casting, At
    <3>2. Stored(i)'
        BY <1>4, <1>7 DEF Stored
    <3> QED BY <2>1, <2>5, <3>1, <3>2 DEF Settled
  <2> QED BY <1>9, <2>4, <2>6, OneCall
<1> QED BY <1>1, <1>11, <1>12 DEF FillWrite

-----------------------------------------------------------------------------
(* Every step.                                                             *)

LEMMA MoveCasts ==
    ASSUME IInv, Typed', NEW c \in Caller, Move(c)
    PROVE  CastsInv'
<1> USE DEF tables, memory, history, bounds
<1>0. /\ Typed /\ CastsInv /\ ThresholdInv /\ CacheInv /\ issued \in Nat
      /\ CallInv(c) /\ OnlyCall(c)
    BY MoveTyped DEF IInv, CastsInv, ThresholdInv, Typed
<1>1. CASE NewCast(c)
  <2>1. PICK parent \in 0 .. issued : Cast(c, parent)
      BY <1>1 DEF NewCast
  <2>2. /\ OnlyCall(c) /\ issued' = issued + 1
        /\ frame'[c].pc = IF parent # 0 THEN "parent" ELSE "insert"
        /\ NewChain(frame'[c].todo, 1) /\ frame'[c].asked = parent
      BY <1>0, <2>1, CastEffect
  <2>3. UNCHANGED <<tables, memory, history>> /\ ~Casting(c)
      BY <2>1 DEF Cast, At, Casting
  <2>4. \/ frame'[c].pc = "insert"
        \/ frame'[c].pc = "parent" /\ frame'[c].asked \in 1 .. issued
      BY <1>0, <2>2
  <2> QED BY <1>0, <2>2, <2>3, <2>4, NewChainCall
<1>2. CASE AutoCast(c)
  <2>1. PICK n \in Nat \ {0} :
           /\ OnlyCall(c) /\ issued' = issued + n
           /\ frame'[c].pc = "insert"
           /\ NewChain(frame'[c].todo, n) /\ frame'[c].asked = 0
      BY <1>0, <1>2, AutoCastEffect
  <2>2. UNCHANGED <<tables, memory, history>> /\ ~Casting(c)
      BY <1>2 DEF AutoCast, At, Casting
  <2> QED BY <1>0, <2>1, <2>2, NewChainCall
<1>3. CASE Predict(c)
    BY <1>0, <1>3, PredictEffect, KeepCall DEF Predict
<1>4. CASE NewSet(c)
  <2>1. PICK payload \in Payload : SetThresholds(c, payload)
      BY <1>4 DEF NewSet
  <2>2. frame'[c].todo = <<>> /\ frame'[c].pc \in {"raised", "set_row"}
      BY <1>0, <2>1, SetEffect
  <2>3. UNCHANGED <<casts, reports, cached, old, detached, inForce, issued>>
      BY <2>1 DEF SetThresholds
  <2>4. issued <= issued'
      BY <1>0, <2>3
  <2> QED BY <1>0, <2>2, <2>3, <2>4, QuietCall
<1>5. CASE Backfill(c)
    BY <1>0, <1>5, BackfillCall
<1>6. CASE Refuse(c) \/ Reply(c) \/ FillEnds(c) \/ KeepThresholds(c)
  <2>1. frame'[c].todo = <<>> /\ frame'[c].pc \in {"idle", "raised", "returned"}
      BY <1>0, <1>6, IdleTyped, BecomeTyped, RaiseTyped, ReturnTyped
         DEF Refuse, Reply, FillEnds, KeepThresholds
  <2>2. UNCHANGED <<casts, reports, cached, old, detached, inForce, issued>>
      BY <1>6 DEF Refuse, Reply, FillEnds, KeepThresholds
  <2>3. issued <= issued'
      BY <1>0, <2>2
  <2> QED BY <1>0, <2>1, <2>2, <2>3, QuietCall
<1>7. CASE ReadParent(c)
    BY <1>0, <1>7, ReadParentCall
<1>8. CASE WriteReport(c)
    BY <1>0, <1>8, WriteReportCall
<1>9. CASE WriteCast(c)
    BY <1>0, <1>9, WriteCastCall
<1>10. CASE WritePrediction(c)
    BY <1>0, <1>10, WritePredictionCall
<1>11. CASE WriteThresholds(c)
  <2>1. frame'[c].pc \in {"raised", "set_memory"}
      BY <1>0, <1>11, GotoTyped, RaiseTyped DEF WriteThresholds, Broken, Label
  <2>2. /\ UNCHANGED <<casts, reports, cached, old, detached, issued>>
        /\ inForce \subseteq inForce'
      BY <1>11 DEF WriteThresholds
  <2>3. issued <= issued'
      BY <1>0, <2>2
  <2> QED BY <1>0, <2>1, <2>2, <2>3, QuietCall
<1>12. CASE FillRead(c)
    BY <1>0, <1>12, FillReadCall
<1>13. CASE FillWrite(c)
    BY <1>0, <1>13, FillWriteCall
<1>14. CASE Decide(c) \/ GeometricCast(c)
    BY <1>0, <1>14, DecideEffect, KeepCall DEF Decide, GeometricCast
<1>15. CASE WriteKept(c)
    BY <1>0, <1>15, WriteKeptCall
<1>16. CASE AnswerKept(c)
    BY <1>0, <1>16, AnswerKeptCall
<1> QED BY <1>1, <1>2, <1>3, <1>4, <1>5, <1>6, <1>7, <1>8, <1>9, <1>10, <1>11,
           <1>12, <1>13, <1>14, <1>15, <1>16, Move(c) DEF Move

\* A report is written before it is remembered, and never taken back.
LEMMA CacheMove ==
    ASSUME IInv, NEW c \in Caller, Move(c)
    PROVE  CacheInv'
<1> USE DEF tables, memory
<1>0. Typed /\ CacheInv /\ CallInv(c)
    BY DEF IInv
<1>1. CASE UNCHANGED <<reports, cached>>
    BY <1>0, <1>1 DEF CacheInv
<1>2. ASSUME NEW i \in CastId, NEW r, r # NoReport,
             reports' = ReportWritten(i, r), cached' = Remembered(Home[c], i, r)
      PROVE  CacheInv'
  <2>1. \A j \in CastId : reports'[j] = IF j = i THEN r ELSE reports[j]
      BY <1>0, <1>2 DEF ReportWritten, Typed
  <2>2. \A p \in Process, j \in CastId \ {i} : cached'[p][j] = cached[p][j]
      BY <1>0, <1>2, LineageAssumption DEF Remembered, Typed
  <2> QED BY <1>0, <1>2, <2>1, <2>2 DEF CacheInv
<1>3. CASE WriteReport(c)
  <2>1. PICK todo : todo = frame[c].todo
      OBVIOUS
  <2>2. Casting(c) /\ At(c, "report")
      BY <1>3 DEF WriteReport, Casting, At
  <2>3. /\ HeadInv(c) /\ todo # <<>> /\ 1 \in DOMAIN todo /\ Now(c) = todo[1]
        /\ todo[1].id \in CastId /\ todo[1].row \in Row
    <3>1. /\ HeadInv(c) /\ todo \in Seq(Item) /\ todo # <<>> /\ 1 \in DOMAIN todo
          /\ \A k \in DOMAIN todo : todo[k].id \in CastId /\ todo[k].row \in Row
        BY <1>0, <2>1, <2>2, Writing DEF IInv, CastsInv
    <3> QED BY <2>1, <3>1 DEF Now
  <2>4. PICK row, r : row = todo[1].row /\ r = frame[c].report
      OBVIOUS
  <2>5. Stored(row.parent) /\ row.sigil \in Sigil /\ Justified(row.parent, row.sigil, r)
      BY <2>1, <2>2, <2>3, <2>4 DEF HeadInv, Child, Row
  <2>6. r # NoReport
      BY <1>0, <2>5, JustifiedIsPresent
  <2> QED BY <1>1, <1>2, <1>3, <2>3, <2>4, <2>6 DEF WriteReport
<1>4. CASE FillWrite(c)
  <2>1. PICK i, r : i = Pair(c) /\ r = frame[c].report
      OBVIOUS
  <2>2. PICK parent, sigil : parent = casts[i].parent /\ sigil = casts[i].sigil
      OBVIOUS
  <2>3. FillInv(c) /\ At(c, "fill_write")
      BY <1>0, <1>4 DEF CallInv, FillWrite
  <2>4. i \in frame[c].pairs
      BY <1>0, <2>1, <2>3, PairIsOne DEF FillInv, Typed, CallFrame
  <2>5. Stored(i) /\ i \in CastId /\ Stored(parent) /\ Justified(parent, sigil, r)
      BY <2>1, <2>2, <2>3, <2>4 DEF FillInv, Stored
  <2>6. sigil \in Sigil
      BY <1>0, <2>2, <2>5, StoredRow DEF Row
  <2>7. r # NoReport
      BY <1>0, <2>5, <2>6, JustifiedIsPresent
  <2> QED BY <1>1, <1>2, <1>4, <2>1, <2>5, <2>7 DEF FillWrite
<1>5. CASE NewCast(c) \/ AutoCast(c) \/ Predict(c) \/ Decide(c) \/ GeometricCast(c)
           \/ NewSet(c) \/ Backfill(c)
    BY <1>1, <1>5 DEF NewCast, Cast, AutoCast, Predict, Decide, GeometricCast, NewSet,
                      SetThresholds, Backfill
<1>6. CASE Refuse(c) \/ Reply(c) \/ ReadParent(c) \/ WriteCast(c) \/ WritePrediction(c)
           \/ WriteKept(c) \/ AnswerKept(c)
    BY <1>1, <1>6 DEF Refuse, Reply, ReadParent, WriteCast, WritePrediction, WriteKept,
                      AnswerKept
<1>7. CASE WriteThresholds(c) \/ KeepThresholds(c) \/ FillRead(c) \/ FillEnds(c)
    BY <1>1, <1>7 DEF WriteThresholds, KeepThresholds, FillRead, FillEnds
<1> QED BY <1>3, <1>4, <1>5, <1>6, <1>7, Move(c) DEF Move

LEMMA CacheStep ==
    ASSUME IInv, [Next]_vars
    PROVE  CacheInv'
<1>0. Typed /\ CacheInv
    BY DEF IInv
<1>1. CASE UNCHANGED lineageVars
    BY <1>0, <1>1 DEF CacheInv, lineageVars, tables, memory
<1>2. ASSUME NEW p \in Process, Start(p) PROVE CacheInv'
    BY <1>0, <1>2 DEF CacheInv, Start, tables
<1>3. ASSUME NEW p \in Process, Exit(p) PROVE CacheInv'
  <2>1. /\ reports' = reports
        /\ \A q \in Process, i \in CastId :
              cached'[q][i] = IF q = p THEN NoReport ELSE cached[q][i]
      BY <1>0, <1>3 DEF Exit, Typed, tables
  <2> QED BY <1>0, <2>1 DEF CacheInv
<1>4. ASSUME NEW c \in Caller, Move(c) PROVE CacheInv'
    BY <1>4, CacheMove
<1> QED BY <1>0, <1>1, <1>2, <1>3, <1>4, Steps

\* A process ends in the middle of its calls: what they held is never written.
LEMMA ExitCasts ==
    ASSUME Typed, Typed', CastsInv, NEW p \in Process, Exit(p)
    PROVE  CastsInv'
<1> USE DEF tables, history, bounds
<1> DEFINE C == {c \in Caller : Home[c] = p}
<1>1. /\ UNCHANGED <<casts, reports, old, detached, inForce, issued>>
      /\ cached' = [cached EXCEPT ![p] = [i \in CastId |-> NoReport]]
      /\ \A c \in Caller : frame'[c] = IF Home[c] = p THEN Idle ELSE frame[c]
    BY DEF Exit
<1>2. \A q \in Process \ {p} : cached'[q] = cached[q]
    BY <1>1 DEF Typed
<1>3. ASSUME NEW c \in C
      PROVE  CallInv(c)' /\ \A i \in CastId : ~Holds(c, i)'
  <2>1. frame'[c].pc = "idle" /\ frame'[c].todo = <<>>
      BY <1>1, <1>3, IdleTyped
  <2>2. ~Casting(c)'
      BY <2>1 DEF Casting
  <2> QED BY <2>1, <2>2 DEF CallInv, AnswerInv, FillInv, At, Holds
<1>4. Onward(C)
  <2>1. \A d \in Caller \ C : frame'[d] = frame[d] /\ cached'[Home[d]] = cached[Home[d]]
      BY <1>1, <1>2, LineageAssumption
  <2>2. issued <= issued'
      BY <1>1 DEF Typed
  <2> HIDE DEF C
  <2> QED BY <1>1, <1>3, <2>1, <2>2 DEF Onward
<1>5. C \subseteq Caller
    OBVIOUS
<1> HIDE DEF C
<1>6. Before(C)
    BY <1>4, <1>5 DEF Before, CastsInv
<1>7. Settled(C)
  <2>1. ASSUME NEW i \in CastId, Held(C, i) PROVE ~Stored(i)' /\ i \notin detached'
    <3>1. ~Stored(i) /\ i \notin detached
        BY <1>5, <2>1, HeldIsUnwritten DEF Held, CastsInv
    <3> QED BY <1>1, <3>1 DEF Stored
  <2> QED BY <1>1, <2>1 DEF Settled
<1>8. TableInv'
    BY <1>6, <1>7, TableStays
<1>9. \A d \in Caller : CallInv(d)'
    BY <1>3, <1>6, OtherCall
<1> QED BY <1>8, <1>9 DEF CastsInv

LEMMA CastsStep ==
    ASSUME IInv, [Next]_vars, Typed'
    PROVE  CastsInv'
<1>0. Typed /\ CastsInv /\ issued \in Nat
    BY DEF IInv, CastsInv, Typed
<1>1. ASSUME UNCHANGED <<casts, reports, cached, frame, issued, old, detached, inForce>>
      PROVE  CastsInv'
  <2>1. issued <= issued'
      BY <1>0, <1>1
  <2>2. Onward({})
      BY <1>1, <2>1 DEF Onward
  <2>3. Before({}) /\ Settled({})
      BY <1>0, <1>1, <2>2 DEF Before, Settled, CastsInv, Held
  <2> QED BY <2>3, TableStays, OtherCall DEF CastsInv
<1>2. CASE UNCHANGED lineageVars
    BY <1>1, <1>2 DEF lineageVars, tables, memory, bounds, history
<1>3. ASSUME NEW p \in Process, Start(p) PROVE CastsInv'
    BY <1>1, <1>3 DEF Start, tables, history
<1>4. ASSUME NEW p \in Process, Exit(p) PROVE CastsInv'
    BY <1>0, <1>4, ExitCasts
<1>5. ASSUME NEW c \in Caller, Move(c) PROVE CastsInv'
    BY <1>5, MoveCasts
<1> QED BY <1>0, <1>2, <1>3, <1>4, <1>5, Steps

LEMMA InitHolds == Init => IInv
<1> SUFFICES ASSUME Init PROVE IInv
    OBVIOUS
<1> USE DEF Init, LineageInit
<1>0. /\ \A c \in Caller : frame[c] = Idle
      /\ \A i \in CastId : reports[i] = NoReport
      /\ Loop \in Caller /\ running = {} /\ detached = {}
      /\ thresholds = NoThresholds /\ inForce = {Default}
    BY McpAssumption
<1>1. PICK kept \in BOOLEAN, above \in Sigil, below \in Sigil :
         /\ old = IF kept THEN {2} ELSE {}
         /\ issued = IF kept THEN 2 ELSE 0
         /\ casts = [i \in CastId |->
                        IF kept /\ i = 1 THEN Root(above)
                        ELSE IF kept /\ i = 2
                        THEN [sigil |-> below, parent |-> 1, depth |-> 1]
                        ELSE NoRow]
    OBVIOUS
<1>2. CastId \subseteq Nat \ {0} /\ (2 \in CastId => 1 \in CastId)
    BY LineageAssumption DEF CastId
<1>3. Root(above) \in Row /\ [sigil |-> below, parent |-> 1, depth |-> 1] \in Row
    BY DEF Root, Row
<1>4. Typed
  <2>1. casts \in [CastId -> Row \cup {NoRow}]
      BY <1>1, <1>3
  <2>2. reports \in [CastId -> Drift \cup {NoReport}]
      OBVIOUS
  <2>3. active \in [Process -> Levels]
      BY DefaultTyped
  <2>4. cached \in [Process -> [CastId -> Drift \cup {NoReport}]]
      OBVIOUS
  <2>5. frame \in [Caller -> CallFrame]
      BY IdleTyped
  <2>6. issued \in Nat /\ inForce \subseteq Levels /\ old \subseteq Nat
      BY <1>1, DefaultTyped
  <2> QED BY <1>0, <2>1, <2>2, <2>3, <2>4, <2>5, <2>6 DEF Typed
<1>5. LoopInv
    BY <1>0, IdleTyped DEF LoopInv, Up, At
<1>6. ThresholdInv
    BY <1>0, IdleTyped DEF ThresholdInv, Agreed, Effective, Setting, At
<1>7. TableInv
  <2>1. ASSUME NEW i \in CastId, Stored(i) PROVE RowInv(i) /\ i <= issued
    <3>1. kept /\ (i = 1 \/ i = 2)
        BY <1>1, <2>1 DEF Stored
    <3>2. CASE i = 1
      <4>1. casts[i].parent = 0 /\ casts[i].depth = 0
          BY <1>1, <3>1, <3>2 DEF Root
      <4> QED BY <1>0, <1>1, <3>1, <3>2, <4>1 DEF RowInv
    <3>3. CASE i = 2
      <4>1. /\ casts[i].parent = 1 /\ casts[i].depth = 1
            /\ 1 \in CastId /\ casts[1] = Root(above) /\ casts[1].depth = 0
          BY <1>1, <1>2, <3>1, <3>3 DEF Root
      <4>2. Stored(1)
          BY <1>3, <4>1, DriftIsPresent DEF Stored
      <4>3. Child(i, casts[i])
          BY <3>3, <4>1, <4>2 DEF Child
      <4> QED BY <1>0, <1>1, <3>1, <3>3, <4>1, <4>3 DEF RowInv
    <3> QED BY <3>1, <3>2, <3>3
  <2>2. \A i \in CastId : i > issued => ~Stored(i)
      BY <1>1, <1>2, <2>1
  <2>3. \A i \in old : i <= issued
      BY <1>1
  <2> QED BY <1>0, <2>1, <2>2, <2>3 DEF TableInv
<1>8. \A c \in Caller : CallInv(c)
    BY <1>0, IdleTyped DEF CallInv, AnswerInv, FillInv, Casting, At
<1>9. CacheInv
    BY DEF CacheInv
<1> QED BY <1>4, <1>5, <1>6, <1>7, <1>8, <1>9 DEF IInv

LEMMA StepHolds == IInv /\ [Next]_vars => IInv'
<1> SUFFICES ASSUME IInv, [Next]_vars PROVE IInv'
    OBVIOUS
<1>1. Typed' /\ LoopInv' /\ ThresholdInv' /\ CacheInv'
    BY TypedStep, LoopStep, ThresholdStep, CacheStep
<1>2. CastsInv'
    BY <1>1, CastsStep
<1> QED BY <1>1, <1>2 DEF IInv, CastsInv

(* The invariant all the theorems below rest on: in any order of the steps *)
(* of the calls, every cast that is stored, and every one a call still has *)
(* to write, has its parent stored before it, or, kept from a chain that   *)
(* was dropped, descends from an id that nobody will write.                *)
THEOREM CallsAreInOrder == Spec => []IInv
<1> QED BY InitHolds, StepHolds, PTL DEF Spec

(* Each request gets one answer, before the loop of mcp/server.py reads    *)
(* the next message.                                                       *)
THEOREM OneAnswerEach == Spec => []EachRequestIsAnsweredOnce
<1>1. IInv => EachRequestIsAnsweredOnce
    BY DEF IInv, LoopInv, EachRequestIsAnsweredOnce
<1> QED BY <1>1, CallsAreInOrder, PTL

(* What a process classifies with is what it would load after a restart,   *)
(* unless two calls of set_divergence_thresholds overlapped.               *)
THEOREM RestartKeepsThresholds == Spec => []ThresholdsSurviveRestart
<1>1. IInv => ThresholdsSurviveRestart
  <2>1. SUFFICES ASSUME ThresholdInv, ~contended, \A c \in Caller : ~Setting(c)
                 PROVE  \A p \in running : active[p] = Effective
      BY DEF IInv, ThresholdsSurviveRestart
  <2>2. Agreed
      BY <2>1 DEF ThresholdInv
  <2> QED BY <2>1, <2>2 DEF Agreed, Setting
<1> QED BY <1>1, CallsAreInOrder, PTL

(* A stored cast with lineage has a report that follows from it and its    *)
(* parent, or is of an earlier release and has none yet; the last cast of  *)
(* a chain that predictive_cast or decide dropped never has one.           *)
THEOREM EveryReportIsJustified == Spec => []ReportsAreJustified
<1>1. IInv => ReportsAreJustified
  <2>1. SUFFICES ASSUME TableInv, NEW i \in CastId, Stored(i), casts[i].parent # 0
                 PROVE  IF i \in detached THEN reports[i] = NoReport
                        ELSE \/ i \in old /\ reports[i] = NoReport
                             \/ \E t \in inForce :
                                   reports[i] = Report(casts[i].parent,
                                                       casts[casts[i].parent].sigil,
                                                       casts[i].sigil, t)
      BY DEF IInv, ReportsAreJustified
  <2> QED BY <2>1 DEF TableInv, RowInv, Justified
<1> QED BY <1>1, CallsAreInOrder, PTL

-----------------------------------------------------------------------------
(* The chain above a cast.                                                 *)

\* The parent of a stored cast is an id below it.
LEMMA ParentIsBelow ==
    ASSUME Typed, TableInv, NEW i, Stored(i), casts[i].parent # 0
    PROVE  casts[i].parent \in CastId /\ casts[i].parent < i
<1>1. i \in CastId /\ casts[i] \in Row /\ RowInv(i)
    BY StoredRow DEF TableInv
<1>2. casts[i].parent \in Nat /\ casts[i].parent < i
    BY <1>1 DEF Row, RowInv
<1> QED BY <1>1, <1>2, LineageAssumption DEF CastId

\* The chain of a cast goes upward, has the cast, and is the least such set.
LEMMA ChainIsLeast ==
    ASSUME Typed, TableInv, NEW i \in CastId
    PROVE  /\ Chain(i) \subseteq CastId /\ i \in Chain(i) /\ Upward(Chain(i))
           /\ \A ids \in SUBSET CastId : i \in ids /\ Upward(ids) => Chain(i) \subseteq ids
<1>1. Upward(Chain(i))
  <2>1. SUFFICES ASSUME NEW k \in Chain(i), Stored(k), casts[k].parent # 0
                 PROVE  casts[k].parent \in Chain(i)
      BY DEF Upward
  <2>2. casts[k].parent \in CastId
      BY <2>1, ParentIsBelow
  <2>3. ASSUME NEW ids \in SUBSET CastId, i \in ids, Upward(ids)
        PROVE  casts[k].parent \in ids
    <3>1. k \in ids
        BY <2>1, <2>3 DEF Chain
    <3> QED BY <2>1, <2>3, <3>1 DEF Upward
  <2> QED BY <2>2, <2>3 DEF Chain
<1> QED BY <1>1 DEF Chain

LEMMA ChainOfRoot ==
    ASSUME Typed, TableInv, NEW i \in CastId, casts[i].parent = 0
    PROVE  Chain(i) = {i}
<1>1. {i} \in SUBSET CastId /\ Upward({i})
    BY DEF Upward
<1>2. i \in Chain(i) /\ Chain(i) \subseteq {i}
    BY <1>1, ChainIsLeast
<1> QED BY <1>2

LEMMA ChainOfChild ==
    ASSUME Typed, TableInv, NEW i \in CastId, Stored(i), casts[i].parent # 0,
           NEW parent, parent = casts[i].parent
    PROVE  Chain(i) = {i} \cup Chain(parent) /\ i \notin Chain(parent)
<1>1. parent \in CastId /\ parent < i /\ CastId \subseteq Nat
    BY ParentIsBelow, LineageAssumption DEF CastId
<1>2. /\ Chain(parent) \subseteq CastId /\ parent \in Chain(parent) /\ Upward(Chain(parent))
      /\ \A ids \in SUBSET CastId : parent \in ids /\ Upward(ids) => Chain(parent) \subseteq ids
    BY <1>1, ChainIsLeast
<1>3. /\ Chain(i) \subseteq CastId /\ i \in Chain(i) /\ Upward(Chain(i))
      /\ \A ids \in SUBSET CastId : i \in ids /\ Upward(ids) => Chain(i) \subseteq ids
    BY ChainIsLeast
<1>4. Upward({i} \cup Chain(parent))
    BY <1>2 DEF Upward
<1>5. Chain(i) \subseteq {i} \cup Chain(parent)
  <2>1. {i} \cup Chain(parent) \in SUBSET CastId
      BY <1>2
  <2> QED BY <1>3, <1>4, <2>1
<1>6. parent \in Chain(i)
    BY <1>3 DEF Upward
<1>7. Chain(parent) \subseteq Chain(i)
    BY <1>2, <1>3, <1>6
<1>8. i \notin Chain(parent)
  <2> DEFINE below == {j \in CastId : j <= parent}
  <2>1. Upward(below)
    <3>1. SUFFICES ASSUME NEW k \in below, Stored(k), casts[k].parent # 0
                   PROVE  casts[k].parent \in below
        BY DEF Upward
    <3>2. casts[k].parent \in CastId /\ casts[k].parent < k
        BY <3>1, ParentIsBelow
    <3> QED BY <1>1, <3>2
  <2>2. below \in SUBSET CastId /\ parent \in below /\ i \notin below
      BY <1>1
  <2> HIDE DEF below
  <2> QED BY <1>2, <2>1, <2>2
<1> QED BY <1>3, <1>5, <1>7, <1>8

Grounded(i) ==
    IF Chain(i) \cap detached = {}
    THEN /\ \A a \in Chain(i) : Stored(a)
         /\ IsFiniteSet(Chain(i)) /\ Cardinality(Chain(i)) = casts[i].depth + 1
    ELSE \E a \in Chain(i) \cap detached : ~Stored(casts[a].parent)

LEMMA GroundedStep ==
    ASSUME Typed, TableInv, NEW i \in CastId, Stored(i),
           \A j \in CastId : j < i /\ Stored(j) => Grounded(j)
    PROVE  Grounded(i)
<1>1. RowInv(i) /\ casts[i] \in Row /\ 0 \notin CastId /\ i \in Chain(i)
    BY StoredRow, ChainIsLeast, LineageAssumption DEF TableInv, CastId
<1>2. CASE i \in detached
  <2>1. ~Stored(casts[i].parent)
      BY <1>1, <1>2 DEF RowInv, Skipped, Stored
  <2> QED BY <1>1, <1>2, <2>1 DEF Grounded
<1>3. CASE i \notin detached /\ casts[i].parent = 0
  <2>1. Chain(i) = {i} /\ casts[i].depth = 0
      BY <1>1, <1>3, ChainOfRoot DEF RowInv
  <2>2. IsFiniteSet({i}) /\ Cardinality({i}) = 1
      BY FS_Singleton
  <2> QED BY <1>3, <2>1, <2>2 DEF Grounded
<1>4. CASE i \notin detached /\ casts[i].parent # 0
  <2>1. PICK parent : parent = casts[i].parent
      OBVIOUS
  <2>2. Child(i, casts[i])
      BY <1>1, <1>4 DEF RowInv
  <2>3. /\ Stored(parent) /\ parent \in CastId /\ parent < i
        /\ casts[i].depth = casts[parent].depth + 1 /\ casts[parent] \in Row
      BY <2>1, <2>2, StoredRow DEF Child
  <2>4. Chain(i) = {i} \cup Chain(parent) /\ i \notin Chain(parent)
      BY <1>4, <2>1, ChainOfChild
  <2>5. Grounded(parent)
      BY <2>3
  <2>6. CASE Chain(parent) \cap detached = {}
    <3>1. /\ \A a \in Chain(parent) : Stored(a)
          /\ IsFiniteSet(Chain(parent))
          /\ Cardinality(Chain(parent)) = casts[parent].depth + 1
        BY <2>5, <2>6 DEF Grounded
    <3>2. /\ IsFiniteSet(Chain(parent) \cup {i})
          /\ Cardinality(Chain(parent) \cup {i}) = Cardinality(Chain(parent)) + 1
        BY <2>4, <3>1, FS_AddElement
    <3>3. Chain(i) = Chain(parent) \cup {i} /\ Chain(i) \cap detached = {}
        BY <1>4, <2>4, <2>6
    <3>4. \A a \in Chain(i) : Stored(a)
        BY <2>4, <3>1
    <3>5. Cardinality(Chain(i)) = casts[i].depth + 1
        BY <2>3, <3>1, <3>2, <3>3
    <3> QED BY <3>2, <3>3, <3>4, <3>5 DEF Grounded
  <2>7. CASE Chain(parent) \cap detached # {}
    <3>1. PICK a \in Chain(parent) \cap detached : ~Stored(casts[a].parent)
        BY <2>5, <2>7 DEF Grounded
    <3> QED BY <2>4, <3>1 DEF Grounded
  <2> QED BY <2>6, <2>7
<1> QED BY <1>2, <1>3, <1>4

(* The ancestors of every stored cast are stored, as many as its depth     *)
(* says, whatever failed, raised or was killed while they were written;    *)
(* under a cast whose chain predictive_cast or decide dropped, the walk    *)
(* ends at that cast.                                                      *)
THEOREM EveryLineageIsGrounded == Spec => []LineageIsGrounded
<1>1. IInv => LineageIsGrounded
  <2> SUFFICES ASSUME IInv PROVE LineageIsGrounded
      OBVIOUS
  <2> DEFINE T == {i \in CastId : Stored(i) /\ ~Grounded(i)}
  <2>1. Typed /\ TableInv /\ CastId \subseteq Nat
      BY LineageAssumption DEF IInv, CastId
  <2>2. T = {}
    <3>1. SUFFICES ASSUME T # {} PROVE FALSE
        OBVIOUS
    <3>2. T \in SUBSET Nat
        BY <2>1
    <3>3. PICK i \in T : \A j \in T : i <= j
      <4> HIDE DEF T
      <4> QED BY <3>1, <3>2, LeastNumber
    <3>4. ASSUME NEW j \in CastId, j < i, Stored(j) PROVE Grounded(j)
        BY <2>1, <3>3, <3>4
    <3> QED BY <2>1, <3>3, <3>4, GroundedStep
  <2>3. \A i \in CastId : Stored(i) => Grounded(i)
      BY <2>2
  <2> QED BY <2>3 DEF LineageIsGrounded, Grounded
<1> QED BY <1>1, CallsAreInOrder, PTL

-----------------------------------------------------------------------------
(* Answers of casts.                                                       *)

(* What a cast call returns is in the tables, and every process that reads *)
(* the chain of the cast tells the same drift.                             *)
THEOREM AnswersAreStored == Spec => []AnswersMatchTheTable
<1>1. IInv => AnswersMatchTheTable
  <2> SUFFICES ASSUME IInv, NEW c \in Caller, At(c, "returned"), frame[c].todo # <<>>
               PROVE  LET i == Now(c).id
                      IN  /\ casts[i] = Now(c).row
                          /\ frame[c].answer = reports[i]
                          /\ ExitCode(c, TRUE) = 2
                             <=> reports[i] # NoReport /\ reports[i].status = "DIVERGED"
                          /\ \A p \in running :
                                casts[i].parent # 0 /\ (\A j \in Chain(i) : Reads(p, j))
                                => LineageDrift(p, i)[i] = frame[c].answer
      BY DEF AnswersMatchTheTable
  <2>1. Typed /\ TableInv /\ AnswerInv(c)
      BY DEF IInv, CallInv
  <2>2. PICK i : i = Now(c).id
      OBVIOUS
  <2>3. Now(c) = frame[c].todo[1] /\ Now(c).row \in Row
    <3>1. frame[c].todo \in Seq(Item)
        BY <2>1 DEF Typed, CallFrame
    <3>2. Now(c) = frame[c].todo[1] /\ Now(c) \in Item
        BY <3>1, TailOfCasts DEF Now
    <3> QED BY <3>2 DEF Item
  <2>4. /\ i \in CastId /\ casts[i] = Now(c).row /\ i \notin old
        /\ frame[c].answer = reports[i]
      BY <2>1, <2>2, <2>3 DEF AnswerInv
  <2>5. ExitCode(c, TRUE) = 2
           <=> reports[i] # NoReport /\ reports[i].status = "DIVERGED"
      BY <2>4 DEF ExitCode, At
  <2>6. ASSUME casts[i].parent # 0, NEW p, \A j \in Chain(i) : Reads(p, j)
        PROVE  LineageDrift(p, i)[i] = reports[i]
    <3>1. Stored(i)
        BY <2>3, <2>4, DriftIsPresent DEF Stored
    <3>2. i \notin detached
      <4>1. casts[i].parent \in Chain(i)
          BY <2>1, <2>4, <2>6, <3>1, ChainIsLeast DEF Upward
      <4>2. Stored(casts[i].parent)
          BY <2>6, <4>1 DEF Reads
      <4> QED BY <2>1, <2>4, <2>6, <3>1, <4>2 DEF TableInv, RowInv, Skipped
    <3>5. reports[i] # NoReport
      <4>1. reports[i] = NoReport => i \in Missing
          BY <2>4, <2>6, <3>1 DEF Missing
      <4> QED BY <2>1, <2>4, <3>2, <4>1, MissingIsLate
    <3>3. i \in {k \in Chain(i) : casts[k].parent # 0}
        BY <2>1, <2>4, <2>6, ChainIsLeast
    <3>4. LineageDrift(p, i)[i] = HopDrift(p, i)
        BY <3>3 DEF LineageDrift
    <3> QED BY <3>4, <3>5 DEF HopDrift
  <2> QED BY <2>2, <2>4, <2>5, <2>6
<1> QED BY <1>1, CallsAreInOrder, PTL
=============================================================================
