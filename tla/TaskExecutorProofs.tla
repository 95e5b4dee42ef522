------------------------- MODULE TaskExecutorProofs -------------------------
(***************************************************************************)
(* Theorems about TaskExecutor, for any executions, task ids, sessions and *)
(* requests.                                                               *)
(*                                                                         *)
(* Cancel: as long as no other execution has had its task id, the event    *)
(* stored under the id of an execution is its own, so a cancel sets it.    *)
(*                                                                         *)
(* The tables of casts: a row that is read, changed and written back is    *)
(* safe as long as one call at a time holds a copy; each invariant says    *)
(* what a copy is worth then (crossed is empty of its part), and what is   *)
(* left of that always.                                                    *)
(***************************************************************************)
EXTENDS TaskExecutor, WellFoundedInduction, TLAPS

-----------------------------------------------------------------------------
(* Numbers.                                                                *)

(* A set of numbers that is not empty has a least one, such as the member  *)
(* that a swarm cast writes next (LeastOf).                                *)
LEMMA LeastNumber ==
    ASSUME NEW T \in SUBSET Nat, T # {}
    PROVE  \E x \in T : \A y \in T : x <= y
<1> DEFINE R == OpToRel(<, Nat)
<1>1. IsWellFoundedOn(R, Nat)
    BY NatLessThanWellFounded
<1>2. PICK x \in T : \A y \in T : ~ (<<y, x>> \in R)
    <2> HIDE DEF R
    <2> QED BY <1>1, WFMin
<1>3. \A y \in T : ~ (y < x)
    BY <1>2 DEF OpToRel
<1> QED BY <1>3

-----------------------------------------------------------------------------
Runs(c) == stage[c] \in {"payload", "handler"}

\* An event is stored under the task id of an execution that is not over.
EventsAreOwned ==
    \A t \in Task : events[t] # NoEvent => events[t] \in Caller /\ task[events[t]] = t

\* Two executions of one task id know of each other.
CompanyIsShared ==
    \A c, d \in Caller : c # d /\ task[c] = task[d] /\ task[c] # NoTask => c \in shared

\* An execution alone on its task id has its event in place.
AloneIsStored ==
    \A c \in Caller : Runs(c) /\ c \notin shared => events[task[c]] = c

\* What a cancel has done to an execution that runs, or left undone.
CancelIsSeen ==
    \A c \in Caller :
        /\ stage[c] = "free" => task[c] = NoTask /\ c \notin signalled \cup asked \cup shared
        /\ stage[c] # "free" => task[c] \in Task
        /\ stage[c] # "pop" => outcome[c] = ""
        /\ Runs(c) /\ c \in signalled => c \in asked
        /\ Runs(c) /\ c \in asked => c \in signalled \cup shared

ExecutorTyped ==
    /\ events \in [Task -> Caller \cup {NoEvent}]
    /\ stage \in [Caller -> {"free", "payload", "handler", "pop"}]
    /\ task \in [Caller -> Task \cup {NoTask}]
    /\ outcome \in [Caller -> {"", "rejected", "failed", "canceled", "completed"}]

CancelInv ==
    /\ ExecutorTyped
    /\ EventsAreOwned
    /\ CompanyIsShared
    /\ AloneIsStored
    /\ CancelIsSeen
    /\ CancelIsHonoured

LEMMA InitCancel == Init => CancelInv
BY TaskAssumption
   DEF Init, CancelInv, ExecutorTyped, EventsAreOwned, CompanyIsShared, AloneIsStored,
       CancelIsSeen, CancelIsHonoured, Runs

LEMMA ExecuteCancel ==
    ASSUME CancelInv, NEW c \in Caller, NEW t \in Task, Execute(c, t)
    PROVE  CancelInv'
<1> USE TaskAssumption DEF CancelInv, Execute, Runs
<1>1. /\ stage[c] = "free" /\ task[c] = NoTask /\ c \notin signalled \cup asked \cup shared
      /\ outcome[c] = ""
    BY DEF CancelIsSeen
<1>2. ExecutorTyped'
    BY DEF ExecutorTyped
<1>3. shared \subseteq shared' /\ \A d \in Others(c, t) : d \in shared' /\ c \in shared'
    OBVIOUS
<1>4. ASSUME NEW u \in Task, events'[u] # NoEvent
      PROVE  events'[u] \in Caller /\ task'[events'[u]] = u
    <2>1. CASE u = t
        <3>1. events'[u] = c /\ task'[c] = u
            BY <2>1 DEF ExecutorTyped
        <3> QED BY <3>1
    <2>2. CASE u # t
        <3>1. events'[u] = events[u]
            BY <2>2 DEF ExecutorTyped
        <3>2. events[u] \in Caller /\ task[events[u]] = u
            BY <1>4, <3>1 DEF EventsAreOwned
        <3>3. events[u] # c
            BY <1>1, <3>2
        <3> QED BY <3>1, <3>2, <3>3 DEF ExecutorTyped
    <2> QED BY <2>1, <2>2
<1>40. EventsAreOwned'
    BY <1>4 DEF EventsAreOwned
<1>5. CompanyIsShared'
    BY <1>1, <1>3 DEF CompanyIsShared, ExecutorTyped, Others
<1>6. AloneIsStored'
    BY <1>1, <1>3 DEF AloneIsStored, ExecutorTyped, Others, CancelIsSeen
<1>7. shared' \subseteq shared \cup {d \in Caller : task[d] = t} \cup {c}
    BY DEF Others
<1>8. CancelIsSeen'
    BY <1>1, <1>3, <1>7 DEF CancelIsSeen, ExecutorTyped
<1>9. CancelIsHonoured'
    BY <1>3 DEF CancelIsHonoured
<1> QED BY <1>2, <1>40, <1>5, <1>6, <1>8, <1>9

\* An execution reports, from before its handler or behind it.
LEMMA ReportCancel ==
    ASSUME CancelInv, NEW c \in Caller, Runs(c),
           NEW state \in {"rejected", "failed", "canceled", "completed"}, Report(c, state),
           state = "canceled" => c \in signalled,
           state = "completed" => c \notin signalled,
           UNCHANGED <<events, signalled, task, asked, shared>>
    PROVE  CancelInv'
<1> USE DEF CancelInv, Report, Runs
<1>1. ExecutorTyped'
    BY DEF ExecutorTyped
<1>2. EventsAreOwned' /\ CompanyIsShared'
    BY DEF EventsAreOwned, CompanyIsShared
<1>3. AloneIsStored'
    BY DEF AloneIsStored, ExecutorTyped
<1>4. CancelIsSeen'
    BY DEF CancelIsSeen, ExecutorTyped
<1>5. CancelIsHonoured'
    BY DEF CancelIsHonoured, CancelIsSeen, ExecutorTyped
<1> QED BY <1>1, <1>2, <1>3, <1>4, <1>5

LEMMA HandlerCancel ==
    ASSUME CancelInv, NEW c \in Caller, StartHandler(c), c \notin signalled
    PROVE  CancelInv'
<1> USE DEF CancelInv, StartHandler, Runs
<1>1. ExecutorTyped'
    BY DEF ExecutorTyped
<1>2. EventsAreOwned' /\ CompanyIsShared'
    BY DEF EventsAreOwned, CompanyIsShared
<1>3. AloneIsStored'
    BY DEF AloneIsStored, ExecutorTyped
<1>4. CancelIsSeen'
    BY DEF CancelIsSeen, ExecutorTyped
<1>5. CancelIsHonoured'
    BY DEF CancelIsHonoured
<1> QED BY <1>1, <1>2, <1>3, <1>4, <1>5

LEMMA PopCancel ==
    ASSUME CancelInv, NEW c \in Caller, Pop(c)
    PROVE  CancelInv'
<1> USE TaskAssumption DEF CancelInv, Pop, Runs
<1>1. task[c] \in Task
    BY DEF CancelIsSeen
<1>2. ExecutorTyped'
    BY DEF ExecutorTyped
<1>3. EventsAreOwned'
    BY <1>1 DEF EventsAreOwned, ExecutorTyped
<1>4. CompanyIsShared'
    BY DEF CompanyIsShared, ExecutorTyped
<1>5. AloneIsStored'
    BY <1>1 DEF AloneIsStored, CompanyIsShared, CancelIsSeen, ExecutorTyped
<1>6. CancelIsSeen'
    BY DEF CancelIsSeen, ExecutorTyped
<1>7. CancelIsHonoured'
    BY DEF CancelIsHonoured, ExecutorTyped
<1> QED BY <1>2, <1>3, <1>4, <1>5, <1>6, <1>7

LEMMA CancelCancel ==
    ASSUME CancelInv, NEW t \in Task, Cancel(t)
    PROVE  CancelInv'
<1> USE TaskAssumption DEF CancelInv, Cancel, Runs
<1>1. events[t] \in Caller /\ task[events[t]] = t
    BY DEF EventsAreOwned
<1>2. ExecutorTyped' /\ EventsAreOwned' /\ CompanyIsShared' /\ AloneIsStored'
    BY DEF ExecutorTyped, EventsAreOwned, CompanyIsShared, AloneIsStored
<1>3. CancelIsSeen'
    <2> SUFFICES ASSUME NEW d \in Caller, Runs(d), d \in asked', d \notin shared
                 PROVE  d \in signalled'
        BY <1>1 DEF CancelIsSeen, ExecutorTyped
    <2>1. CASE d \in asked
        BY <2>1 DEF CancelIsSeen
    <2>2. CASE task[d] = t
        <3>1. events[t] = d
            BY <2>2 DEF AloneIsStored
        <3> QED BY <3>1
    <2> QED BY <2>1, <2>2
<1>4. ASSUME NEW d \in Caller, outcome[d] # "" PROVE stage[d] = "pop"
    BY <1>4 DEF CancelIsSeen
<1>5. CancelIsHonoured'
    BY <1>4 DEF CancelIsHonoured
<1> QED BY <1>2, <1>3, <1>5

LEMMA NextCancel == CancelInv /\ [Next]_vars => CancelInv'
<1> SUFFICES ASSUME CancelInv, [Next]_vars PROVE CancelInv'
    OBVIOUS
<1>1. ASSUME NEW c \in Caller, NEW t \in Task, Execute(c, t) PROVE CancelInv'
    BY <1>1, ExecuteCancel
<1>2. ASSUME NEW c \in Caller, Refuse(c) PROVE CancelInv'
    BY <1>2, ReportCancel DEF Refuse, Runs
<1>3. ASSUME NEW c \in Caller, StartHandler(c) PROVE CancelInv'
    <2>1. CASE c \in signalled
        BY <1>3, <2>1, ReportCancel DEF StartHandler, Runs
    <2> QED BY <1>3, <2>1, HandlerCancel
<1>4. ASSUME NEW c \in Caller, HandlerEnds(c) PROVE CancelInv'
    <2>1. Verdict(c) \in {"rejected", "failed", "canceled", "completed"}
        BY DEF Verdict
    <2> QED BY <1>4, <2>1, ReportCancel DEF HandlerEnds, Verdict, Runs
<1>5. ASSUME NEW c \in Caller, Pop(c) PROVE CancelInv'
    BY <1>5, PopCancel
<1>6. ASSUME NEW t \in Task, Cancel(t) PROVE CancelInv'
    BY <1>6, CancelCancel
<1>7. CASE UNCHANGED executorVars
    BY <1>7 DEF executorVars, CancelInv, ExecutorTyped, EventsAreOwned, CompanyIsShared,
                AloneIsStored, CancelIsSeen, CancelIsHonoured, Runs
<1> QED BY <1>1, <1>2, <1>3, <1>4, <1>5, <1>6, <1>7 DEF Next, HandlerStep, vars

(* An execution whose task is canceled before its handler ends is not      *)
(* reported as completed, unless another execution of its task id took its *)
(* event or removed it (_cancel_events); and only a cancel makes it        *)
(* canceled: for any number of executions, tasks and requests.             *)
THEOREM CancelHonoured == Spec => []CancelIsHonoured
<1>1. CancelInv => CancelIsHonoured
    BY DEF CancelInv
<1> QED BY <1>1, InitCancel, NextCancel, PTL DEF Spec

-----------------------------------------------------------------------------


Standing == {"COHERENT", "STRAINED", "DECOHERENT"}
Row == [count : Nat, sum : Nat, streak : Nat, last : Nat, status : Standing]
Member == [vector : Nat, streak : Nat]
Plan == {<<>>} \cup UNION {[S -> Member] : S \in SUBSET Session}
Label == Tool \cup Writing \cup SwarmWriting \cup {"idle", "returned", "raised"}
Frame == [pc : Label, cast : Nat, row : Row \cup {NoChannel}, session : Nat,
          plan : Plan, todo : SUBSET Session, status : Standing \cup {""}]

\* A call names a session, and members still to be written are in its plan.
FrameInv(c) ==
    /\ frame[c].pc \in {"found", "enter"} => frame[c].session \in Session
    /\ At(c, "member") => /\ frame[c].plan \in UNION {[S -> Member] : S \in SUBSET Session}
                          /\ frame[c].todo \subseteq DOMAIN frame[c].plan
                          /\ frame[c].todo # {}

Typed ==
    /\ frame \in [Caller -> Frame]
    /\ channel \in Row \cup {NoChannel}
    /\ casts \subseteq Nat /\ lost \subseteq Nat
    /\ evaluated \in Nat /\ counted \in Nat /\ consensus \in Nat
    /\ members \in [Session -> Member \cup {NoMember}]
    /\ latest \in [Session -> Nat]
    /\ \A c \in Caller : FrameInv(c)

-----------------------------------------------------------------------------
(* Frames.                                                                 *)

LEMMA IdleTyped == Idle \in Frame
BY DEF Idle, Frame, Label, Plan

\* The frames of the others stay.
OnlyCall(c) == \A d \in Caller \ {c} : frame'[d] = frame[d]

LEMMA Becomes ==
    ASSUME Typed, NEW c \in Caller, NEW f \in Frame, frame' = [frame EXCEPT ![c] = f]
    PROVE  frame' \in [Caller -> Frame] /\ frame'[c] = f /\ OnlyCall(c)
BY DEF Typed, OnlyCall

LEMMA LeaveBecomes ==
    ASSUME Typed, NEW c \in Caller, NEW l \in Label, Leave(c, l)
    PROVE  /\ frame' \in [Caller -> Frame] /\ OnlyCall(c)
           /\ frame'[c].pc = l /\ frame'[c].cast = frame[c].cast
<1> DEFINE f == [Idle EXCEPT !.pc = l, !.cast = frame[c].cast]
<1>1. frame[c].cast \in Nat
    BY DEF Typed, Frame
<1>2. f \in Frame /\ f.pc = l /\ f.cast = frame[c].cast
    BY <1>1, IdleTyped DEF Idle, Frame
<1>3. frame' = [frame EXCEPT ![c] = f]
    BY DEF Leave
<1> HIDE DEF f
<1> QED BY <1>2, <1>3, Becomes

LEMMA GotoBecomes ==
    ASSUME Typed, NEW c \in Caller, NEW l \in Label, Goto(c, l)
    PROVE  /\ frame' \in [Caller -> Frame] /\ OnlyCall(c)
           /\ frame'[c].pc = l /\ frame'[c].cast = frame[c].cast
           /\ frame'[c].row = frame[c].row /\ frame'[c].session = frame[c].session
<1> DEFINE f == [frame[c] EXCEPT !.pc = l]
<1>1. frame[c] \in Frame
    BY DEF Typed
<1>2. /\ f \in Frame /\ f.pc = l /\ f.cast = frame[c].cast
      /\ f.row = frame[c].row /\ f.session = frame[c].session
    BY <1>1 DEF Frame
<1>3. frame' = [frame EXCEPT ![c] = f]
    BY DEF Goto
<1> HIDE DEF f
<1> QED BY <1>2, <1>3, Becomes

\* A call whose frame is of no concern to FrameInv.
LEMMA PlainFrame ==
    ASSUME Typed, NEW c \in Caller, OnlyCall(c),
           frame'[c].pc \notin {"found", "enter", "member"}
    PROVE  \A d \in Caller : FrameInv(d)'
BY DEF Typed, OnlyCall, FrameInv, At

LEMMA AfterTyped ==
    ASSUME Typed, NEW level \in Level, NEW id \in Nat
    PROVE  LET r == After(channel, level, id)
               n == IF channel = NoChannel THEN 0 ELSE channel.count
           IN  /\ r \in Row /\ r.count = n + 1 /\ r.last = id
               /\ (channel # NoChannel => channel.streak <= channel.count)
                     => r.streak <= r.count
<1>1. level \in Nat
    BY CastAssumption
<1> DEFINE old == Before(channel)
<1>2. old.count \in Nat /\ old.sum \in Nat /\ old.streak \in Nat
    BY DEF Typed, Before, Row
<1>3. /\ old.count = IF channel = NoChannel THEN 0 ELSE channel.count
      /\ (channel # NoChannel => channel.streak <= channel.count)
            => old.streak <= old.count
    BY DEF Typed, Before, Row
<1>4. \A s, n : Status(s, n) \in Standing
    BY DEF Status, Standing
<1>5. After(channel, level, id) =
         [count |-> old.count + 1, sum |-> old.sum + level,
          streak |-> IF Coherent(level) THEN old.streak + 1 ELSE 0,
          status |-> Status(old.sum + level, old.count + 1), last |-> id]
    BY DEF After
<1> HIDE DEF old
<1>6. Status(old.sum + level, old.count + 1) \in Standing
    BY <1>4
<1> QED BY <1>1, <1>2, <1>3, <1>5, <1>6 DEF Row

-----------------------------------------------------------------------------
(* Types.                                                                  *)

TablesTyped ==
    /\ channel \in Row \cup {NoChannel}
    /\ casts \subseteq Nat /\ lost \subseteq Nat
    /\ evaluated \in Nat /\ counted \in Nat /\ consensus \in Nat
    /\ members \in [Session -> Member \cup {NoMember}]
    /\ latest \in [Session -> Nat]

LEMMA InitTyped == Init => Typed
<1> SUFFICES ASSUME Init PROVE Typed
    OBVIOUS
<1>1. Idle.pc = "idle"
    BY DEF Idle
<1>2. \A c \in Caller : frame[c] = Idle
    BY DEF Init, ChannelInit
<1>3. frame \in [Caller -> Frame]
    BY IdleTyped DEF Init, ChannelInit
<1>4. \A c \in Caller : FrameInv(c)
    BY <1>1, <1>2 DEF FrameInv, At
<1> QED BY <1>3, <1>4 DEF Init, ChannelInit, SwarmInit, Typed

LEMMA PlainTyped ==
    ASSUME Typed, NEW c \in Caller, TablesTyped', frame' \in [Caller -> Frame], OnlyCall(c),
           frame'[c].pc \notin {"found", "enter", "member"}
    PROVE  Typed'
BY PlainFrame DEF Typed, TablesTyped

(* What read_channel_state and the evaluation leave in the frame.          *)
LEMMA ReadStep ==
    ASSUME Typed, NEW c \in Caller, NEW first \in {"channel", "cast_first"},
           ReadForCast(c, first)
    PROVE  /\ frame' \in [Caller -> Frame] /\ OnlyCall(c) /\ evaluated' \in Nat
           /\ \/ /\ frame'[c].pc = "raised" /\ frame'[c].cast = frame[c].cast
                 /\ crossed' = crossed
              \/ /\ frame'[c].pc = first /\ frame'[c].row \in Row
                 /\ frame'[c].row.last = frame'[c].cast
                 /\ frame'[c].row.count =
                       (IF channel = NoChannel THEN 0 ELSE channel.count) + 1
                 /\ (channel # NoChannel => channel.streak <= channel.count)
                       => frame'[c].row.streak <= frame'[c].row.count
                 /\ Crossing("channel", Holding \ {c})
<1>1. PICK force \in BOOLEAN, level \in Level :
        IF Refused(force)
        THEN Raise(c) /\ UNCHANGED <<evaluated, crossed>>
        ELSE /\ evaluated' = evaluated + 1
             /\ frame' = [frame EXCEPT ![c] =
                    [Idle EXCEPT !.pc = first, !.cast = evaluated + 1,
                                 !.row = After(channel, level, evaluated + 1)]]
             /\ Crossing("channel", Holding \ {c})
    BY DEF ReadForCast
<1>2. CASE Refused(force)
    <2>1. "raised" \in Label
        BY DEF Label
    <2> QED BY <1>1, <1>2, <2>1, LeaveBecomes DEF Raise, Typed
<1>3. CASE ~Refused(force)
    <2> DEFINE r == After(channel, level, evaluated + 1)
               f == [Idle EXCEPT !.pc = first, !.cast = evaluated + 1, !.row = r]
    <2>1. evaluated + 1 \in Nat
        BY DEF Typed
    <2>2. /\ r \in Row /\ r.last = evaluated + 1
          /\ r.count = (IF channel = NoChannel THEN 0 ELSE channel.count) + 1
          /\ (channel # NoChannel => channel.streak <= channel.count) => r.streak <= r.count
        BY <2>1, AfterTyped
    <2> HIDE DEF r
    <2>3. first \in Label
        BY DEF Label, Writing
    <2>4. f \in Frame /\ f.pc = first /\ f.cast = evaluated + 1 /\ f.row = r
        BY <2>1, <2>2, <2>3, IdleTyped DEF Idle, Frame
    <2>5. frame' = [frame EXCEPT ![c] = f]
        BY <1>1, <1>3 DEF r
    <2> HIDE DEF f
    <2>6. frame' \in [Caller -> Frame] /\ frame'[c] = f /\ OnlyCall(c)
        BY <2>4, <2>5, Becomes
    <2> QED BY <1>1, <1>3, <2>1, <2>2, <2>4, <2>6
<1> QED BY <1>2, <1>3

LEMMA ChannelTyped ==
    ASSUME Typed, NEW c \in Caller, ChannelStep(c), UNCHANGED swarmVars
    PROVE  Typed' /\ OnlyCall(c)
<1>0. UNCHANGED <<swarm, members, latest, consensus>>
    BY DEF swarmVars, swarmTables
<1>l. {"raised", "returned", "cast", "channel_last", "synced"} \subseteq Label
    BY DEF Label, Writing
<1>f. frame[c] \in Frame /\ frame[c].row \in Row \cup {NoChannel} /\ frame[c].cast \in Nat
    BY DEF Typed, Frame
<1>1. CASE Chained(c) \/ Geometric(c)
    <2>1. PICK first \in {"channel", "cast_first"} : ReadForCast(c, first)
        BY <1>1 DEF Chained, Geometric
    <2>2. UNCHANGED <<channel, counted, casts, lost>>
        BY <1>1 DEF Chained, Geometric, channelVars
    <2>3. TablesTyped'
        BY <1>0, <2>1, <2>2, ReadStep DEF Typed, TablesTyped
    <2> QED BY <2>1, <2>3, ReadStep, PlainTyped
<1>2. CASE WriteChannel(c)
    <2>1. TablesTyped'
        BY <1>0, <1>2, <1>f DEF WriteChannel, Typed, TablesTyped
    <2>2. PICK l \in {"cast", "returned"} : Leave(c, l)
        BY <1>2 DEF WriteChannel, Return
    <2> QED BY <1>l, <2>1, <2>2, LeaveBecomes, PlainTyped
<1>3. CASE WriteCast(c)
    <2>1. TablesTyped'
        BY <1>0, <1>3, <1>f DEF WriteCast, CastStored, channelVars, Typed, TablesTyped
    <2>2. CASE At(c, "cast")
        <3>1. Leave(c, "returned")
            BY <1>3, <2>2 DEF WriteCast, Return
        <3> QED BY <1>l, <2>1, <3>1, LeaveBecomes, PlainTyped
    <2>3. CASE ~At(c, "cast")
        <3>1. Goto(c, "channel_last")
            BY <1>3, <2>3 DEF WriteCast
        <3> QED BY <1>l, <2>1, <3>1, GotoBecomes, PlainTyped
    <2> QED BY <2>2, <2>3
<1>4. CASE Sync(c)
    <2>1. TablesTyped'
        BY <1>0, <1>4 DEF Sync, channelVars, Typed, TablesTyped
    <2>2. CASE channel = NoChannel
        <3>1. Leave(c, "raised")
            BY <1>4, <2>2 DEF Sync, Raise
        <3> QED BY <1>l, <2>1, <3>1, LeaveBecomes, PlainTyped
    <2>3. CASE channel # NoChannel
        <3> DEFINE f == [Idle EXCEPT !.pc = "synced", !.row = Synced(channel)]
        <3>1. Synced(channel) \in Row
            BY <2>3 DEF Synced, Typed, Row, Standing
        <3>2. f \in Frame /\ f.pc = "synced"
            BY <1>l, <3>1, IdleTyped DEF Idle, Frame
        <3>3. frame' = [frame EXCEPT ![c] = f]
            BY <1>4, <2>3 DEF Sync
        <3> HIDE DEF f
        <3> QED BY <2>1, <3>2, <3>3, Becomes, PlainTyped
    <2> QED BY <2>2, <2>3
<1>5. CASE WriteSynced(c)
    <2>1. TablesTyped'
        BY <1>0, <1>5, <1>f DEF WriteSynced, Typed, TablesTyped
    <2> QED BY <1>l, <1>5, <2>1, LeaveBecomes, PlainTyped DEF WriteSynced, Return
<1>6. CASE CallFails(c)
    <2>1. TablesTyped'
        BY <1>0, <1>6, <1>f DEF CallFails, channelVars, Typed, TablesTyped
    <2> QED BY <1>l, <1>6, <2>1, LeaveBecomes, PlainTyped DEF CallFails, Raise
<1> QED BY <1>1, <1>2, <1>3, <1>4, <1>5, <1>6 DEF ChannelStep

LEMMA LeastOf ==
    ASSUME NEW S \in SUBSET Session, S # {}
    PROVE  (CHOOSE x \in S : \A y \in S : x <= y) \in S
<1>1. S \in SUBSET Nat
    BY CastAssumption
<1>2. \E x \in S : \A y \in S : x <= y
    BY <1>1, LeastNumber
<1> QED BY <1>2

(* A swarm cast computes a plan for every member and the caster.           *)
LEMMA SwarmCastStep ==
    ASSUME Typed, NEW c \in Caller, NEW s \in Session, NEW level \in Level,
           SwarmCast(c, s, level), swarm # NoSwarm
    PROVE  LET f == frame'[c]
           IN  /\ frame' \in [Caller -> Frame] /\ OnlyCall(c)
               /\ f.pc = "member" /\ f.cast = evaluated + 1
               /\ f.todo = Joined \cup {s} /\ f.status = SwarmStatus(level)
               /\ f.plan \in [Joined \cup {s} -> Member]
               /\ f.plan[s].vector = evaluated + 1
               /\ \A x \in Joined \ {s} : f.plan[x].vector = members[x].vector
               /\ \A x \in Joined \cup {s} : \E streak \in Nat :
                     /\ f.plan[x].streak = Streak(streak, level)
                     /\ streak = 0 \/ (x \in Joined /\ streak = members[x].streak)
<1> DEFINE id == evaluated + 1
           by == Submitted(s, id)
           plan == [x \in Joined \cup {s} |-> [by[x] EXCEPT !.streak = Streak(@, level)]]
           f == [Idle EXCEPT !.pc = "member", !.cast = id, !.session = s, !.plan = plan,
                             !.todo = Joined \cup {s}, !.status = SwarmStatus(level)]
<1>1. id \in Nat /\ s \in Nat /\ level \in Nat
    BY CastAssumption DEF Typed
<1>2. by[s] = [vector |-> id, streak |-> IF members[s] = NoMember THEN 0 ELSE members[s].streak]
    BY DEF Submitted, Typed
<1>3. \A x \in Joined \ {s} : by[x] = members[x] /\ members[x] \in Member
    BY DEF Submitted, Typed, Joined
<1>4. /\ by[s] \in Member /\ by[s].vector = id
      /\ by[s].streak = 0 \/ (s \in Joined /\ by[s].streak = members[s].streak)
    BY <1>1, <1>2 DEF Typed, Member, Joined
<1> HIDE DEF by, id
<1>5. \A x \in Joined \cup {s} : by[x] \in Member
    BY <1>3, <1>4
<1>6. \A x \in Joined \cup {s} :
         /\ plan[x] \in Member /\ plan[x].vector = by[x].vector
         /\ plan[x].streak = Streak(by[x].streak, level)
    BY <1>5 DEF Member, Streak
<1>7. plan \in [Joined \cup {s} -> Member]
    BY <1>6
<1>8. \A x \in Joined \cup {s} :
         /\ by[x].streak \in Nat
         /\ by[x].streak = 0 \/ (x \in Joined /\ by[x].streak = members[x].streak)
    BY <1>3, <1>4, <1>5 DEF Member
<1>9. frame' = [frame EXCEPT ![c] = f]
    BY DEF SwarmCast, Planned, by, id
<1> HIDE DEF plan
<1>10. plan \in Plan
    BY <1>7 DEF Plan, Joined
<1>11. "member" \in Label /\ SwarmStatus(level) \in Standing
    BY DEF Label, SwarmWriting, SwarmStatus, Standing
<1>12. /\ f \in Frame /\ f.pc = "member" /\ f.cast = id /\ f.plan = plan
       /\ f.todo = Joined \cup {s} /\ f.status = SwarmStatus(level)
    BY <1>1, <1>10, <1>11, IdleTyped DEF Idle, Frame, Joined
<1> HIDE DEF f
<1>13. frame' \in [Caller -> Frame] /\ frame'[c] = f /\ OnlyCall(c)
    BY <1>9, <1>12, Becomes
<1>14. \A x \in Joined \cup {s} : \E streak \in Nat :
          /\ plan[x].streak = Streak(streak, level)
          /\ streak = 0 \/ (x \in Joined /\ streak = members[x].streak)
    BY <1>6, <1>8
<1> QED BY <1>3, <1>4, <1>6, <1>7, <1>12, <1>13, <1>14 DEF id

(* upsert_swarm_member: the row of the plan, and one fewer to write.       *)
LEMMA WriteMemberStep ==
    ASSUME Typed, NEW c \in Caller, WriteMember(c)
    PROVE  LET f == frame[c]
               g == frame'[c]
           IN  /\ frame' \in [Caller -> Frame] /\ OnlyCall(c)
               /\ g.cast = f.cast /\ g.status = f.status /\ g.plan = f.plan
               /\ g.pc = IF g.todo = {} THEN "state" ELSE "member"
               /\ \E s \in f.todo : /\ g.todo = f.todo \ {s}
                                    /\ f.plan[s] \in Member
                                    /\ members' = [members EXCEPT ![s] = f.plan[s]]
<1> DEFINE s == CHOOSE x \in frame[c].todo : \A y \in frame[c].todo : x <= y
           rest == frame[c].todo \ {s}
           f == [frame[c] EXCEPT !.todo = rest, !.pc = IF rest = {} THEN "state" ELSE "member"]
<1>1. frame[c] \in Frame /\ frame[c].todo \subseteq Session /\ frame[c].todo # {}
      /\ At(c, "member")
    BY DEF Typed, Frame, FrameInv, WriteMember
<1>2. s \in frame[c].todo
    BY <1>1, LeastOf
<1>3. frame[c].plan[s] \in Member
    <2>1. PICK D \in SUBSET Session : frame[c].plan \in [D -> Member]
        BY <1>1 DEF Typed, FrameInv
    <2>2. s \in D
        BY <1>1, <1>2, <2>1 DEF Typed, FrameInv
    <2> QED BY <2>1, <2>2
<1>4. /\ members' = [members EXCEPT ![s] = frame[c].plan[s]]
      /\ frame' = [frame EXCEPT ![c].todo = rest,
                                ![c].pc = IF rest = {} THEN "state" ELSE @]
    BY DEF WriteMember
<1> HIDE DEF s
<1>5. {"state", "member"} \subseteq Label
    BY DEF Label, SwarmWriting
<1>6. /\ f \in Frame /\ f.cast = frame[c].cast /\ f.status = frame[c].status
      /\ f.plan = frame[c].plan /\ f.todo = rest
      /\ f.pc = IF rest = {} THEN "state" ELSE "member"
    BY <1>1, <1>5 DEF Frame
<1>7. frame' = [frame EXCEPT ![c] = f]
    BY <1>1, <1>4 DEF Typed, Frame, At
<1> HIDE DEF f
<1>8. frame' \in [Caller -> Frame] /\ frame'[c] = f /\ OnlyCall(c)
    BY <1>6, <1>7, Becomes
<1> QED BY <1>2, <1>3, <1>4, <1>6, <1>8

LEMMA JoinStep ==
    ASSUME Typed, NEW c \in Caller, NEW s \in Session, Join(c, s)
    PROVE  /\ frame' \in [Caller -> Frame] /\ OnlyCall(c)
           /\ frame'[c].pc \in {"found", "enter"}
           /\ frame'[c].session = s /\ frame'[c].cast = 0
<1> DEFINE l == IF swarm = NoSwarm THEN "found" ELSE "enter"
           f == [Idle EXCEPT !.pc = l, !.session = s]
<1>1. l \in Label /\ l \in {"found", "enter"} /\ s \in Nat
    BY CastAssumption DEF Label, SwarmWriting
<1>2. frame' = [frame EXCEPT ![c] = f]
    BY DEF Join
<1> HIDE DEF l
<1>3. f \in Frame /\ f.pc = l /\ f.session = s /\ f.cast = 0
    BY <1>1, IdleTyped DEF Idle, Frame
<1> HIDE DEF f
<1> QED BY <1>1, <1>2, <1>3, Becomes

LEMMA SwarmTyped ==
    ASSUME Typed, NEW c \in Caller, SwarmStep(c)
    PROVE  Typed' /\ OnlyCall(c)
<1>l. {"raised", "returned", "cast", "enter"} \subseteq Label
    BY DEF Label, Writing, SwarmWriting
<1>f. frame[c].cast \in Nat
    BY DEF Typed, Frame
<1>1. ASSUME NEW s \in Session, Join(c, s) PROVE Typed' /\ OnlyCall(c)
    <2>1. TablesTyped'
        BY <1>1 DEF Join, channelVars, swarmVars, swarmTables, Typed, TablesTyped
    <2>2. \A d \in Caller : FrameInv(d)'
        BY <1>1, JoinStep DEF Typed, FrameInv, OnlyCall, At
    <2> QED BY <1>1, <2>1, <2>2, JoinStep DEF Typed, TablesTyped
<1>2. CASE Found(c)
    <2>1. TablesTyped'
        BY <1>2 DEF Found, channelVars, Typed, TablesTyped
    <2>2. Goto(c, "enter") /\ frame[c].session \in Session
        BY <1>2 DEF Found, Typed, FrameInv, At
    <2>3. frame' \in [Caller -> Frame] /\ OnlyCall(c) /\ frame'[c].pc = "enter"
          /\ frame'[c].session \in Session
        BY <1>l, <2>2, GotoBecomes
    <2>4. \A d \in Caller : FrameInv(d)'
        BY <2>3 DEF Typed, FrameInv, OnlyCall, At
    <2> QED BY <2>1, <2>3, <2>4 DEF Typed, TablesTyped
<1>3. CASE Enter(c)
    <2>1. frame[c].session \in Session /\ Zero \in Member
        BY <1>3 DEF Enter, Typed, FrameInv, At, Zero, Member
    <2>2. TablesTyped'
        BY <1>3, <2>1 DEF Enter, channelVars, Typed, TablesTyped
    <2> QED BY <1>l, <1>3, <2>2, LeaveBecomes, PlainTyped DEF Enter, Return
<1>4. ASSUME NEW s \in Session, NEW level \in Level, SwarmCast(c, s, level)
      PROVE  Typed' /\ OnlyCall(c)
    <2>1. TablesTyped'
        BY <1>4 DEF SwarmCast, channelVars, swarmTables, Typed, TablesTyped
    <2>2. CASE swarm = NoSwarm
        <3>1. Leave(c, "raised")
            BY <1>4, <2>2 DEF SwarmCast, Raise
        <3> QED BY <1>l, <2>1, <3>1, LeaveBecomes, PlainTyped
    <2>3. CASE swarm # NoSwarm
        <3> DEFINE f == frame'[c]
        <3>1. /\ frame' \in [Caller -> Frame] /\ OnlyCall(c) /\ f.pc = "member"
              /\ f.todo = Joined \cup {s} /\ f.plan \in [Joined \cup {s} -> Member]
            BY <1>4, <2>3, SwarmCastStep
        <3>2. Joined \cup {s} \in SUBSET Session
            BY DEF Joined
        <3>3. FrameInv(c)'
            BY <3>1, <3>2 DEF FrameInv, At
        <3>4. \A d \in Caller : FrameInv(d)'
            BY <3>1, <3>3 DEF Typed, FrameInv, OnlyCall, At
        <3> QED BY <2>1, <3>1, <3>4 DEF Typed, TablesTyped
    <2> QED BY <2>2, <2>3
<1>5. CASE WriteMember(c)
    <2> DEFINE f == frame[c]
               g == frame'[c]
    <2>1. PICK s \in f.todo : /\ g.todo = f.todo \ {s}
                              /\ f.plan[s] \in Member
                              /\ members' = [members EXCEPT ![s] = f.plan[s]]
        BY <1>5, WriteMemberStep
    <2>2. f.todo \subseteq Session
        BY DEF Typed, Frame
    <2>3. TablesTyped'
        BY <1>5, <2>1, <2>2 DEF WriteMember, channelVars, Typed, TablesTyped
    <2>4. At(c, "member")
        BY <1>5 DEF WriteMember
    <2>5. FrameInv(c)'
        BY <1>5, <2>1, <2>4, WriteMemberStep DEF Typed, FrameInv, At
    <2>6. \A d \in Caller : FrameInv(d)'
        BY <1>5, <2>5, WriteMemberStep DEF Typed, FrameInv, OnlyCall, At
    <2> QED BY <1>5, <2>3, <2>6, WriteMemberStep DEF Typed, TablesTyped
<1>6. CASE WriteState(c)
    <2>1. TablesTyped'
        BY <1>6 DEF WriteState, channelVars, Typed, TablesTyped
    <2> QED BY <1>l, <1>6, <2>1, LeaveBecomes, PlainTyped DEF WriteState
<1>7. CASE SwarmFails(c)
    <2>1. TablesTyped'
        BY <1>7, <1>f DEF SwarmFails, channelVars, swarmVars, swarmTables, Typed, TablesTyped
    <2> QED BY <1>l, <1>7, <2>1, LeaveBecomes, PlainTyped DEF SwarmFails, Raise
<1> QED BY <1>1, <1>2, <1>3, <1>4, <1>5, <1>6, <1>7 DEF SwarmStep

(* What the coroutine of an execution does to its frame: the tool it       *)
(* starts, and the frame it clears.                                        *)
Tables == <<channel, counted, casts, evaluated, lost, crossed, swarm, members, latest, consensus>>

LEMMA StartStep ==
    ASSUME Typed, NEW c \in Caller, StartHandler(c), c \notin signalled
    PROVE  /\ frame' \in [Caller -> Frame] /\ OnlyCall(c) /\ frame'[c].pc \in Tool
           /\ frame'[c].cast = frame[c].cast /\ UNCHANGED Tables
<1>1. PICK tool \in Tool : Goto(c, tool)
    BY DEF StartHandler
<1>2. tool \in Label
    BY DEF Label
<1>3. UNCHANGED Tables
    BY DEF StartHandler, Tables, channelVars, swarmVars, swarmTables
<1> QED BY <1>1, <1>2, <1>3, GotoBecomes

LEMMA PopStep ==
    ASSUME Typed, NEW c \in Caller, Pop(c)
    PROVE  /\ frame' \in [Caller -> Frame] /\ OnlyCall(c) /\ frame'[c].pc = "idle"
           /\ frame'[c].cast = 0 /\ UNCHANGED Tables
<1>1. frame' = [frame EXCEPT ![c] = Idle] /\ UNCHANGED Tables
    BY DEF Pop, Tables, channelVars, swarmVars, swarmTables
<1>2. Idle.pc = "idle" /\ Idle.cast = 0
    BY DEF Idle
<1> QED BY <1>1, <1>2, IdleTyped, Becomes

(* Any step is one of a handler, one of these two, or leaves all this.     *)
LEMMA NextCases ==
    ASSUME [Next]_vars
    PROVE  \/ \E c \in Caller :
                 \/ HandlerStep(c)
                 \/ StartHandler(c) /\ c \notin signalled
                 \/ Pop(c)
           \/ UNCHANGED castVars
<1>1. ASSUME NEW c \in Caller, StartHandler(c) PROVE c \in signalled => UNCHANGED castVars
    BY <1>1 DEF StartHandler, castVars
<1> QED BY <1>1 DEF Next, vars, Execute, Refuse, HandlerEnds, Cancel

LEMMA NextTyped == Typed /\ [Next]_vars => Typed'
<1> SUFFICES ASSUME Typed, [Next]_vars PROVE Typed'
    OBVIOUS
<1>1. ASSUME NEW c \in Caller, HandlerStep(c) PROVE Typed'
    BY <1>1, ChannelTyped, SwarmTyped DEF HandlerStep
<1>2. ASSUME NEW c \in Caller, StartHandler(c), c \notin signalled PROVE Typed'
    <2>1. frame'[c].pc \in Tool /\ UNCHANGED Tables
        BY <1>2, StartStep
    <2>2. TablesTyped' /\ frame'[c].pc \notin {"found", "enter", "member"}
        BY <2>1 DEF Tables, Tool, Typed, TablesTyped
    <2> QED BY <1>2, <2>2, StartStep, PlainTyped
<1>3. ASSUME NEW c \in Caller, Pop(c) PROVE Typed'
    <2>1. TablesTyped' /\ frame'[c].pc \notin {"found", "enter", "member"}
        BY <1>3, PopStep DEF Tables, Typed, TablesTyped
    <2> QED BY <1>3, <2>1, PopStep, PlainTyped
<1>4. CASE UNCHANGED castVars
    BY <1>4 DEF castVars, channelVars, swarmVars, swarmTables, Typed, FrameInv, At
<1> QED BY <1>1, <1>2, <1>3, <1>4, NextCases

-----------------------------------------------------------------------------
(* What the channel counts.                                                *)

\* Copies to which a cast was added, and all copies that will be written.
Counting == {"channel", "channel_last", "cast_first"}
Holds(c) == frame[c].pc \in Counting \cup {"synced"}

Bounded(r, n) == r.streak <= r.count /\ r.count <= n

CountCall(c) ==
    /\ Holds(c) => frame[c].row \in Row
    /\ frame[c].pc \in Counting =>
          /\ Bounded(frame[c].row, counted + 1)
          /\ "channel" \notin crossed => frame[c].row.count = counted + 1
    /\ At(c, "synced") =>
          /\ Bounded(frame[c].row, counted)
          /\ "channel" \notin crossed => frame[c].row.count = counted

\* One copy at most, and the row counts what was written.
OneCopy ==
    /\ channel = NoChannel => counted = 0
    /\ channel # NoChannel => channel.count = counted
    /\ \A c, d \in Caller : Holds(c) /\ Holds(d) => c = d

CountInv ==
    /\ channel # NoChannel => Bounded(channel, counted)
    /\ \A c \in Caller : CountCall(c)
    /\ "channel" \notin crossed => OneCopy

LEMMA InitCount == Init => CountInv
<1> SUFFICES ASSUME Init PROVE CountInv
    OBVIOUS
<1>1. \A c \in Caller : frame[c].pc = "idle"
    BY DEF Init, ChannelInit, Idle
<1> QED BY <1>1 DEF Init, ChannelInit, CountInv, CountCall, OneCopy, Holds, Counting, At

LEMMA HoldingIsHolds == \A c \in Caller : c \in Holding <=> Holds(c)
BY DEF Holding, Holds, Counting, At

(* A step of one call that leaves the channel and takes no copy beside     *)
(* another call's.                                                         *)
LEMMA QuietCount ==
    ASSUME CountInv, NEW c \in Caller, OnlyCall(c), UNCHANGED <<channel, counted>>,
           crossed \subseteq crossed', CountCall(c)',
           "channel" \notin crossed' /\ Holds(c)' =>
               Holds(c) \/ \A d \in Caller \ {c} : ~Holds(d)
    PROVE  CountInv'
<1>1. ASSUME NEW d \in Caller PROVE CountCall(d)'
    BY DEF CountInv, CountCall, Holds, OnlyCall, At
<1>2. ASSUME "channel" \notin crossed' PROVE OneCopy'
    <2>1. OneCopy
        BY <1>2 DEF CountInv
    <2>2. \A d \in Caller \ {c} : Holds(d)' = Holds(d)
        BY DEF OnlyCall, Holds
    <2> QED BY <1>2, <2>1, <2>2 DEF OneCopy
<1> QED BY <1>1, <1>2 DEF CountInv

\* A call that holds no copy afterwards.
LEMMA FreeCount ==
    ASSUME CountInv, NEW c \in Caller, OnlyCall(c), UNCHANGED <<channel, counted>>,
           crossed \subseteq crossed', ~Holds(c)'
    PROVE  CountInv'
<1>1. CountCall(c)'
    BY DEF CountCall, Holds, Counting, At
<1> QED BY <1>1, QuietCount

(* A copy goes back.                                                       *)
LEMMA WrittenCount ==
    ASSUME Typed, CountInv, NEW c \in Caller, OnlyCall(c), Holds(c), ~Holds(c)',
           channel' = frame[c].row, UNCHANGED crossed,
           counted' = IF At(c, "synced") THEN counted ELSE counted + 1
    PROVE  CountInv'
<1> DEFINE r == frame[c].row
<1>0. counted \in Nat /\ counted' \in Nat /\ counted <= counted'
    BY DEF Typed
<1>1. r \in Row /\ Bounded(r, counted') /\ ("channel" \notin crossed => r.count = counted')
    BY DEF CountInv, CountCall, Holds, At
<1>2. r # NoChannel
    BY <1>1, CastAssumption DEF Row, Standing
<1>3. ASSUME NEW d \in Caller PROVE CountCall(d)'
    <2>1. CASE d = c
        BY <2>1 DEF CountCall, Holds, Counting, At
    <2>2. CASE d # c
        <3>1. frame'[d] = frame[d] /\ CountCall(d) /\ ("channel" \notin crossed => ~Holds(d))
            BY <2>2 DEF OnlyCall, CountInv, OneCopy
        <3>2. Holds(d) => frame[d].row.count \in Nat /\ frame[d].row.streak \in Nat
            BY <3>1 DEF CountCall, Row
        <3> QED BY <1>0, <3>1, <3>2 DEF CountCall, Holds, Bounded, At
    <2> QED BY <2>1, <2>2
<1>4. ASSUME "channel" \notin crossed' PROVE OneCopy'
    BY <1>1, <1>2, <1>4 DEF CountInv, OneCopy, OnlyCall, Holds
<1> QED BY <1>1, <1>2, <1>3, <1>4 DEF CountInv

LEMMA CrossingGrows ==
    ASSUME NEW part, NEW others, Crossing(part, others)
    PROVE  /\ crossed \subseteq crossed'
           /\ part \notin crossed' => others = {} /\ part \notin crossed
BY DEF Crossing

(* A call of the swarm leaves the channel to others.                       *)
LEMMA SwarmApart ==
    ASSUME Typed, NEW c \in Caller, SwarmStep(c)
    PROVE  /\ frame'[c].pc \in SwarmWriting \cup {"cast", "returned", "raised"}
           /\ UNCHANGED <<channel, counted, casts>> /\ crossed \subseteq crossed'
<1>l. {"raised", "returned", "cast", "enter"} \subseteq Label
    BY DEF Label, Writing, SwarmWriting
<1>0. UNCHANGED <<channel, counted, casts>>
    BY DEF SwarmStep, Join, Found, Enter, SwarmCast, WriteMember, WriteState, SwarmFails,
           channelVars
<1>1. ASSUME NEW s \in Session, Join(c, s)
      PROVE  frame'[c].pc \in SwarmWriting /\ crossed \subseteq crossed'
    BY <1>1, JoinStep, CrossingGrows DEF Join, SwarmWriting
<1>2. CASE Found(c)
    BY <1>l, <1>0, <1>2, GotoBecomes DEF Found, SwarmWriting
<1>3. CASE Enter(c)
    BY <1>l, <1>0, <1>3, LeaveBecomes DEF Enter, Return
<1>4. ASSUME NEW s \in Session, NEW level \in Level, SwarmCast(c, s, level)
      PROVE  /\ frame'[c].pc \in SwarmWriting \cup {"raised"}
             /\ crossed \subseteq crossed'
    <2>1. CASE swarm = NoSwarm
        <3>1. Leave(c, "raised") /\ crossed' = crossed
            BY <1>4, <2>1 DEF SwarmCast, Raise
        <3> QED BY <1>l, <3>1, LeaveBecomes
    <2>2. CASE swarm # NoSwarm
        <3>1. frame'[c].pc = "member"
            BY <1>4, <2>2, SwarmCastStep
        <3>2. Crossing("swarm", Swarming \ {c})
            BY <1>4, <2>2 DEF SwarmCast
        <3> QED BY <3>1, <3>2, CrossingGrows DEF SwarmWriting
    <2> QED BY <2>1, <2>2
<1>5. CASE WriteMember(c)
    BY <1>0, <1>5, WriteMemberStep DEF WriteMember, SwarmWriting
<1>6. CASE WriteState(c)
    BY <1>l, <1>0, <1>6, LeaveBecomes DEF WriteState
<1>7. CASE SwarmFails(c)
    BY <1>l, <1>0, <1>7, LeaveBecomes DEF SwarmFails, Raise
<1> QED BY <1>0, <1>1, <1>2, <1>3, <1>4, <1>5, <1>6, <1>7 DEF SwarmStep

LEMMA ReadCount ==
    ASSUME Typed, CountInv, NEW c \in Caller, NEW first \in {"channel", "cast_first"},
           ReadForCast(c, first), UNCHANGED <<channel, counted>>
    PROVE  CountInv'
<1>1. CASE frame'[c].pc = "raised" /\ crossed' = crossed
    BY <1>1, ReadStep, FreeCount DEF Holds, Counting
<1>2. CASE ~(frame'[c].pc = "raised" /\ crossed' = crossed)
    <2> DEFINE r == frame'[c].row
    <2>1. /\ frame'[c].pc = first /\ r \in Row
          /\ r.count = (IF channel = NoChannel THEN 0 ELSE channel.count) + 1
          /\ (channel # NoChannel => channel.streak <= channel.count) => r.streak <= r.count
          /\ Crossing("channel", Holding \ {c})
        BY <1>2, ReadStep
    <2>2. /\ crossed \subseteq crossed'
          /\ "channel" \notin crossed' => Holding \ {c} = {} /\ "channel" \notin crossed
        BY <2>1, CrossingGrows
    <2>3. Bounded(r, counted + 1)
        BY <2>1 DEF CountInv, Bounded, Typed, Row
    <2>4. "channel" \notin crossed' => r.count = counted + 1
        BY <2>1, <2>2 DEF CountInv, OneCopy
    <2>5. CountCall(c)'
        BY <2>1, <2>3, <2>4 DEF CountCall, Bounded, Holds, Counting, At
    <2>6. "channel" \notin crossed' => \A d \in Caller \ {c} : ~Holds(d)
        BY <2>2, HoldingIsHolds
    <2> QED BY <2>2, <2>5, <2>6, ReadStep, QuietCount
<1> QED BY <1>1, <1>2

LEMMA ChannelCount ==
    ASSUME Typed, CountInv, NEW c \in Caller, ChannelStep(c), UNCHANGED swarmVars
    PROVE  CountInv'
<1>l. {"raised", "returned", "cast", "channel_last", "synced"} \subseteq Label
    BY DEF Label, Writing
<1>o. OnlyCall(c)
    BY ChannelTyped
<1>1. CASE Chained(c) \/ Geometric(c)
    BY <1>1, ReadCount DEF Chained, Geometric, channelVars
<1>2. CASE WriteChannel(c)
    <2>1. PICK l \in {"cast", "returned"} : Leave(c, l)
        BY <1>2 DEF WriteChannel, Return
    <2>2. frame'[c].pc \in {"cast", "returned"}
        BY <1>l, <2>1, LeaveBecomes
    <2>3. Holds(c) /\ ~Holds(c)' /\ ~At(c, "synced")
        BY <1>2, <2>2 DEF WriteChannel, Holds, Counting, At
    <2> QED BY <1>2, <1>o, <2>3, WrittenCount DEF WriteChannel
<1>3. CASE WriteCast(c)
    <2>1. CASE At(c, "cast")
        <3>1. frame'[c].pc = "returned"
            BY <1>l, <1>3, <2>1, LeaveBecomes DEF WriteCast, Return
        <3> QED BY <1>3, <1>o, <3>1, FreeCount DEF WriteCast, channelVars, Holds, Counting
    <2>2. CASE At(c, "cast_first") /\ ~At(c, "cast")
        <3>1. Goto(c, "channel_last")
            BY <1>3, <2>2 DEF WriteCast
        <3>2. frame'[c].pc = "channel_last" /\ frame'[c].row = frame[c].row
            BY <1>l, <3>1, GotoBecomes
        <3>3. UNCHANGED <<channel, counted, crossed>>
            BY <1>3 DEF WriteCast, channelVars
        <3>4. CountCall(c)' /\ Holds(c)
            BY <2>2, <3>2, <3>3 DEF CountInv, CountCall, Holds, Counting, Bounded, At
        <3> QED BY <1>o, <3>3, <3>4, QuietCount
    <2> QED BY <1>3, <2>1, <2>2 DEF WriteCast
<1>4. CASE Sync(c)
    <2>1. CASE channel = NoChannel
        <3>1. Leave(c, "raised") /\ UNCHANGED <<channel, counted, crossed>>
            BY <1>4, <2>1 DEF Sync, Raise, channelVars
        <3>2. frame'[c].pc = "raised"
            BY <1>l, <3>1, LeaveBecomes
        <3> QED BY <1>o, <3>1, <3>2, FreeCount DEF Holds, Counting
    <2>2. CASE channel # NoChannel
        <3> DEFINE f == [Idle EXCEPT !.pc = "synced", !.row = Synced(channel)]
        <3>1. /\ Synced(channel) \in Row
              /\ Synced(channel).count = channel.count /\ Synced(channel).streak = 0
            BY <2>2 DEF Synced, Typed, Row, Standing
        <3>2. f \in Frame /\ f.pc = "synced" /\ f.row = Synced(channel)
            BY <1>l, <3>1, IdleTyped DEF Idle, Frame
        <3>3. /\ frame' = [frame EXCEPT ![c] = f] /\ UNCHANGED <<channel, counted>>
              /\ Crossing("channel", Holding \ {c})
            BY <1>4, <2>2 DEF Sync, channelVars
        <3> HIDE DEF f
        <3>4. frame'[c] = f
            BY <3>2, <3>3, Becomes
        <3>5. /\ crossed \subseteq crossed'
              /\ "channel" \notin crossed' => Holding \ {c} = {} /\ "channel" \notin crossed
            BY <3>3, CrossingGrows
        <3>6. Bounded(Synced(channel), counted)
            BY <2>2, <3>1 DEF CountInv, Bounded, Row
        <3>7. "channel" \notin crossed' => Synced(channel).count = counted
            BY <2>2, <3>1, <3>5 DEF CountInv, OneCopy
        <3>8. CountCall(c)'
            BY <3>1, <3>2, <3>3, <3>4, <3>6, <3>7 DEF CountCall, Bounded, Counting, At
        <3>9. "channel" \notin crossed' => \A d \in Caller \ {c} : ~Holds(d)
            BY <3>5, HoldingIsHolds
        <3> QED BY <1>o, <3>3, <3>5, <3>8, <3>9, QuietCount
    <2> QED BY <2>1, <2>2
<1>5. CASE WriteSynced(c)
    <2>1. frame'[c].pc = "returned"
        BY <1>l, <1>5, LeaveBecomes DEF WriteSynced, Return
    <2>2. Holds(c) /\ ~Holds(c)'
        BY <1>5, <2>1 DEF WriteSynced, Holds, Counting, At
    <2> QED BY <1>5, <1>o, <2>2, WrittenCount DEF WriteSynced
<1>6. CASE CallFails(c)
    <2>1. frame'[c].pc = "raised"
        BY <1>l, <1>6, LeaveBecomes DEF CallFails, Raise
    <2> QED BY <1>6, <1>o, <2>1, FreeCount DEF CallFails, channelVars, Holds, Counting
<1> QED BY <1>1, <1>2, <1>3, <1>4, <1>5, <1>6 DEF ChannelStep

LEMMA NextCount == Typed /\ CountInv /\ [Next]_vars => CountInv'
<1> SUFFICES ASSUME Typed, CountInv, [Next]_vars PROVE CountInv'
    OBVIOUS
<1>1. ASSUME NEW c \in Caller, HandlerStep(c) PROVE CountInv'
    <2>1. ASSUME SwarmStep(c) PROVE CountInv'
        <3>1. ~Holds(c)'
            BY <2>1, SwarmApart DEF Holds, Counting, SwarmWriting
        <3> QED BY <2>1, <3>1, SwarmApart, SwarmTyped, FreeCount
    <2> QED BY <1>1, <2>1, ChannelCount DEF HandlerStep
<1>2. ASSUME NEW c \in Caller, StartHandler(c), c \notin signalled PROVE CountInv'
    BY <1>2, StartStep, FreeCount DEF Tables, Holds, Counting, Tool
<1>3. ASSUME NEW c \in Caller, Pop(c) PROVE CountInv'
    BY <1>3, PopStep, FreeCount DEF Tables, Holds, Counting
<1>4. CASE UNCHANGED castVars
    BY <1>4 DEF castVars, channelVars, CountInv, CountCall, OneCopy, Holds, Bounded, At
<1> QED BY <1>1, <1>2, <1>3, <1>4, NextCases

(* The channel never counts a cast that was not written to it, whatever    *)
(* write_channel_state calls of chained and geometric casts and syncs      *)
(* overlap, fail or are forced, and misses one only when two overlapped:   *)
(* for any number of executions and requests.                              *)
THEOREM CountBacked == Spec => []CountIsBacked
<1>1. CountInv => CountIsBacked
    BY DEF CountInv, CountIsBacked, OneCopy, Bounded
<1> QED BY <1>1, InitTyped, InitCount, NextTyped, NextCount, PTL DEF Spec

-----------------------------------------------------------------------------
(* The last casts.                                                         *)

\* Stored, about to be, or of a call that raised.
KnownCasts == casts \cup lost \cup {frame[c].cast : c \in {d \in Caller : At(d, "cast")}}

LastCall(c) ==
    /\ frame[c].pc \in Counting => frame[c].row.last = frame[c].cast
    /\ At(c, "channel_last") => frame[c].cast \in casts
    /\ At(c, "synced") => frame[c].row.last \in KnownCasts
    /\ At(c, "returned") /\ frame[c].cast # 0 => frame[c].cast \in casts
    /\ frame[c].pc \in {"synced", "found", "enter"} => frame[c].cast = 0

LastInv ==
    /\ channel # NoChannel => channel.last \in KnownCasts
    /\ swarm # NoSwarm => swarm.last \in KnownCasts \cup {0}
    /\ \A c \in Caller : LastCall(c)

LEMMA InitLast == Init => LastInv
<1> SUFFICES ASSUME Init PROVE LastInv
    OBVIOUS
<1>1. \A c \in Caller : frame[c].pc = "idle" /\ frame[c].cast = 0
    BY DEF Init, ChannelInit, Idle
<1> QED BY <1>1 DEF Init, ChannelInit, SwarmInit, LastInv, LastCall, Counting, At

(* A cast is known for good: a call leaves "cast" by storing it or raising. *)
LEMMA KnownStays ==
    ASSUME NEW c \in Caller, OnlyCall(c), casts \subseteq casts', lost \subseteq lost',
           At(c, "cast") => frame[c].cast \in casts' \cup lost'
    PROVE  KnownCasts \subseteq KnownCasts'
<1>1. ASSUME NEW d \in Caller, At(d, "cast") PROVE frame[d].cast \in KnownCasts'
    <2>1. CASE d = c
        BY <1>1, <2>1 DEF KnownCasts
    <2>2. CASE d # c
        BY <1>1, <2>2 DEF OnlyCall, KnownCasts, At
    <2> QED BY <2>1, <2>2
<1> QED BY <1>1 DEF KnownCasts

LEMMA CallLast ==
    ASSUME LastInv, NEW c \in Caller, OnlyCall(c), casts \subseteq casts', lost \subseteq lost',
           At(c, "cast") => frame[c].cast \in casts' \cup lost',
           \/ channel' = channel
           \/ channel' # NoChannel => channel'.last \in KnownCasts',
           \/ swarm' = swarm
           \/ swarm' # NoSwarm => swarm'.last \in KnownCasts' \cup {0},
           LastCall(c)'
    PROVE  LastInv'
<1>1. KnownCasts \subseteq KnownCasts'
    BY KnownStays
<1>2. ASSUME NEW d \in Caller PROVE LastCall(d)'
    <2>1. CASE d = c
        BY <2>1
    <2>2. CASE d # c
        BY <1>1, <2>2 DEF LastInv, LastCall, OnlyCall, At
    <2> QED BY <2>1, <2>2
<1> QED BY <1>1, <1>2 DEF LastInv

\* A call that knows nothing of a cast, or only its number.
LEMMA FreeLast ==
    ASSUME NEW c \in Caller,
           frame'[c].pc \in Tool \cup {"idle", "raised", "cast", "member", "state"}
    PROVE  LastCall(c)'
BY DEF LastCall, Counting, At, Tool

LEMMA ChannelLast ==
    ASSUME Typed, CountInv, LastInv, NEW c \in Caller, ChannelStep(c), UNCHANGED swarmVars
    PROVE  LastInv'
<1>l. {"raised", "returned", "cast", "channel_last", "synced"} \subseteq Label
    BY DEF Label, Writing
<1>o. OnlyCall(c)
    BY ChannelTyped
<1>s. swarm' = swarm
    BY DEF swarmVars, swarmTables
<1>i. LastCall(c)
    BY DEF LastInv
<1>1. CASE Chained(c) \/ Geometric(c)
    <2>1. PICK first \in {"channel", "cast_first"} : ReadForCast(c, first)
        BY <1>1 DEF Chained, Geometric
    <2>2. UNCHANGED <<channel, casts, lost>> /\ ~At(c, "cast")
        BY <1>1 DEF Chained, Geometric, channelVars, At
    <2>3. LastCall(c)'
        BY <2>1, ReadStep DEF LastCall, Counting, At
    <2> QED BY <1>o, <1>s, <2>2, <2>3, CallLast
<1>2. CASE WriteChannel(c)
    <2>0. /\ channel' = frame[c].row /\ UNCHANGED <<casts, lost>>
          /\ frame[c].pc \in {"channel", "channel_last"}
        BY <1>2 DEF WriteChannel, At
    <2>1. CASE At(c, "channel")
        <3>1. frame'[c].pc = "cast" /\ frame'[c].cast = frame[c].cast
            BY <1>l, <1>2, <2>1, LeaveBecomes DEF WriteChannel
        <3>2. channel'.last \in KnownCasts'
            BY <1>i, <2>0, <3>1 DEF LastCall, Counting, KnownCasts, At
        <3> QED BY <1>o, <1>s, <2>0, <2>1, <3>1, <3>2, FreeLast, CallLast DEF At
    <2>2. CASE ~At(c, "channel")
        <3>1. frame'[c].pc = "returned" /\ frame'[c].cast = frame[c].cast
            BY <1>l, <1>2, <2>2, LeaveBecomes DEF WriteChannel, Return
        <3>2. channel'.last = frame[c].cast /\ frame[c].cast \in casts'
            BY <1>i, <2>0, <2>2 DEF LastCall, Counting, At
        <3>3. LastCall(c)'
            BY <3>1, <3>2 DEF LastCall, Counting, At
        <3> QED BY <1>o, <1>s, <2>0, <3>2, <3>3, CallLast DEF KnownCasts, At
    <2> QED BY <2>1, <2>2
<1>3. CASE WriteCast(c)
    <2>0. /\ casts' = casts \cup {frame[c].cast} /\ UNCHANGED <<channel, lost>>
          /\ frame[c].pc \in {"cast", "cast_first"}
        BY <1>3 DEF WriteCast, CastStored, channelVars, At
    <2>1. CASE At(c, "cast")
        <3>1. frame'[c].pc = "returned" /\ frame'[c].cast = frame[c].cast
            BY <1>l, <1>3, <2>1, LeaveBecomes DEF WriteCast, Return
        <3>2. LastCall(c)'
            BY <2>0, <3>1 DEF LastCall, Counting, At
        <3> QED BY <1>o, <1>s, <2>0, <3>2, CallLast
    <2>2. CASE ~At(c, "cast")
        <3>1. Goto(c, "channel_last")
            BY <1>3, <2>2 DEF WriteCast
        <3>2. /\ frame'[c].pc = "channel_last" /\ frame'[c].cast = frame[c].cast
              /\ frame'[c].row = frame[c].row
            BY <1>l, <3>1, GotoBecomes
        <3>3. LastCall(c)'
            BY <1>i, <2>0, <2>2, <3>2 DEF LastCall, Counting, At
        <3> QED BY <1>o, <1>s, <2>0, <2>2, <3>3, CallLast
    <2> QED BY <2>1, <2>2
<1>4. CASE Sync(c)
    <2>0. UNCHANGED <<channel, casts, lost>> /\ At(c, "sync")
        BY <1>4 DEF Sync, channelVars
    <2>1. CASE channel = NoChannel
        <3>1. frame'[c].pc = "raised"
            BY <1>l, <1>4, <2>1, LeaveBecomes DEF Sync, Raise
        <3> QED BY <1>o, <1>s, <2>0, <3>1, FreeLast, CallLast DEF At
    <2>2. CASE channel # NoChannel
        <3> DEFINE f == [Idle EXCEPT !.pc = "synced", !.row = Synced(channel)]
        <3>1. Synced(channel) \in Row /\ Synced(channel).last = channel.last
            BY <2>2 DEF Synced, Typed, Row, Standing
        <3>2. f \in Frame /\ f.pc = "synced" /\ f.row = Synced(channel) /\ f.cast = 0
            BY <1>l, <3>1, IdleTyped DEF Idle, Frame
        <3>3. frame' = [frame EXCEPT ![c] = f]
            BY <1>4, <2>2 DEF Sync
        <3> HIDE DEF f
        <3>4. frame'[c] = f
            BY <3>2, <3>3, Becomes
        <3>5. KnownCasts \subseteq KnownCasts'
            BY <1>o, <2>0, KnownStays DEF At
        <3>6. channel.last \in KnownCasts'
            BY <2>2, <3>5 DEF LastInv
        <3>7. LastCall(c)'
            BY <3>1, <3>2, <3>4, <3>6 DEF LastCall, Counting, At
        <3> QED BY <1>o, <1>s, <2>0, <3>7, CallLast DEF At
    <2> QED BY <2>1, <2>2
<1>5. CASE WriteSynced(c)
    <2>0. channel' = frame[c].row /\ UNCHANGED <<casts, lost>> /\ At(c, "synced")
        BY <1>5 DEF WriteSynced
    <2>1. frame'[c].pc = "returned" /\ frame'[c].cast = frame[c].cast
        BY <1>l, <1>5, LeaveBecomes DEF WriteSynced, Return
    <2>2. KnownCasts \subseteq KnownCasts'
        BY <1>o, <2>0, KnownStays DEF At
    <2>3. channel'.last \in KnownCasts' /\ frame'[c].cast = 0
        BY <1>i, <2>0, <2>1, <2>2 DEF LastCall, At
    <2>4. LastCall(c)'
        BY <2>1, <2>3 DEF LastCall, Counting, At
    <2> QED BY <1>o, <1>s, <2>0, <2>3, <2>4, CallLast DEF At
<1>6. CASE CallFails(c)
    <2>1. lost' = lost \cup {frame[c].cast} /\ UNCHANGED <<channel, casts>>
        BY <1>6 DEF CallFails, channelVars
    <2>2. frame'[c].pc = "raised"
        BY <1>l, <1>6, LeaveBecomes DEF CallFails, Raise
    <2> QED BY <1>o, <1>s, <2>1, <2>2, FreeLast, CallLast
<1> QED BY <1>1, <1>2, <1>3, <1>4, <1>5, <1>6 DEF ChannelStep

LEMMA SwarmLast ==
    ASSUME Typed, LastInv, NEW c \in Caller, SwarmStep(c)
    PROVE  LastInv'
<1>l. {"raised", "returned", "cast", "enter"} \subseteq Label
    BY DEF Label, Writing, SwarmWriting
<1>o. OnlyCall(c)
    BY SwarmTyped
<1>i. LastCall(c)
    BY DEF LastInv
<1>c. ~At(c, "cast")
    BY DEF SwarmStep, Join, Found, Enter, SwarmCast, WriteMember, WriteState, SwarmFails,
           SwarmWriting, At
<1>k. UNCHANGED <<channel, casts>>
    BY SwarmApart
<1>1. ASSUME NEW s \in Session, Join(c, s) PROVE LastInv'
    <2>1. LastCall(c)'
        BY <1>1, JoinStep DEF LastCall, Counting, At
    <2> QED BY <1>o, <1>c, <1>k, <1>1, <2>1, CallLast DEF Join, swarmVars, swarmTables
<1>2. CASE Found(c)
    <2>0. Goto(c, "enter") /\ At(c, "found") /\ lost' = lost /\ swarm'.last = 0
        BY <1>2 DEF Found
    <2>1. frame'[c].pc = "enter" /\ frame'[c].cast = frame[c].cast
        BY <1>l, <2>0, GotoBecomes
    <2>2. LastCall(c)'
        BY <1>i, <2>0, <2>1 DEF LastCall, Counting, At
    <2> QED BY <1>o, <1>c, <1>k, <2>0, <2>2, CallLast
<1>3. CASE Enter(c)
    <2>0. Leave(c, "returned") /\ At(c, "enter") /\ UNCHANGED <<lost, swarm>>
        BY <1>3 DEF Enter, Return
    <2>1. frame'[c].pc = "returned" /\ frame'[c].cast = frame[c].cast
        BY <1>l, <2>0, LeaveBecomes
    <2>2. LastCall(c)'
        BY <1>i, <2>0, <2>1 DEF LastCall, Counting, At
    <2> QED BY <1>o, <1>c, <1>k, <2>0, <2>2, CallLast
<1>4. ASSUME NEW s \in Session, NEW level \in Level, SwarmCast(c, s, level) PROVE LastInv'
    <2>0. UNCHANGED <<lost, swarm>>
        BY <1>4 DEF SwarmCast, swarmTables
    <2>1. CASE swarm = NoSwarm
        <3>1. frame'[c].pc = "raised"
            BY <1>l, <1>4, <2>1, LeaveBecomes DEF SwarmCast, Raise
        <3> QED BY <1>o, <1>c, <1>k, <2>0, <3>1, FreeLast, CallLast
    <2>2. CASE swarm # NoSwarm
        <3>1. frame'[c].pc = "member"
            BY <1>4, <2>2, SwarmCastStep
        <3> QED BY <1>o, <1>c, <1>k, <2>0, <3>1, FreeLast, CallLast
    <2> QED BY <2>1, <2>2
<1>5. CASE WriteMember(c)
    <2>1. frame'[c].pc \in {"member", "state"} /\ UNCHANGED <<lost, swarm>>
        BY <1>5, WriteMemberStep DEF WriteMember
    <2> QED BY <1>o, <1>c, <1>k, <2>1, FreeLast, CallLast
<1>6. CASE WriteState(c)
    <2>0. Leave(c, "cast") /\ lost' = lost /\ swarm'.last = frame[c].cast
        BY <1>6 DEF WriteState
    <2>1. frame'[c].pc = "cast" /\ frame'[c].cast = frame[c].cast
        BY <1>l, <2>0, LeaveBecomes
    <2>2. swarm'.last \in KnownCasts'
        BY <2>0, <2>1 DEF KnownCasts, At
    <2> QED BY <1>o, <1>c, <1>k, <2>0, <2>1, <2>2, FreeLast, CallLast
<1>7. CASE SwarmFails(c)
    <2>1. lost' = lost \cup {frame[c].cast} /\ swarm' = swarm
        BY <1>7 DEF SwarmFails, swarmVars, swarmTables
    <2>2. frame'[c].pc = "raised"
        BY <1>l, <1>7, LeaveBecomes DEF SwarmFails, Raise
    <2> QED BY <1>o, <1>c, <1>k, <2>1, <2>2, FreeLast, CallLast
<1> QED BY <1>1, <1>2, <1>3, <1>4, <1>5, <1>6, <1>7 DEF SwarmStep

(* A coroutine is past the handler only when the call is over, and reports *)
(* completed only when it returned.                                        *)
PlaceInv ==
    /\ stage \in [Caller -> {"free", "payload", "handler", "pop"}]
    /\ outcome \in [Caller -> {"", "rejected", "failed", "canceled", "completed"}]
    /\ \A c \in Caller :
          /\ stage[c] # "handler" => frame[c].pc \in {"idle", "returned", "raised"}
          /\ outcome[c] = "completed" => stage[c] = "pop" /\ At(c, "returned")

LEMMA InitPlace == Init => PlaceInv
<1> SUFFICES ASSUME Init PROVE PlaceInv
    OBVIOUS
<1>1. \A c \in Caller : frame[c].pc = "idle"
    BY DEF Init, ChannelInit, Idle
<1> QED BY <1>1 DEF Init, PlaceInv

LEMMA NextPlace == Typed /\ PlaceInv /\ [Next]_vars => PlaceInv'
<1> SUFFICES ASSUME Typed, PlaceInv, [Next]_vars PROVE PlaceInv'
    OBVIOUS
<1>1. ASSUME NEW c \in Caller, NEW t \in Task, Execute(c, t) PROVE PlaceInv'
    BY <1>1 DEF Execute, castVars, PlaceInv, At
<1>2. ASSUME NEW c \in Caller, Refuse(c) PROVE PlaceInv'
    BY <1>2 DEF Refuse, Report, castVars, PlaceInv, At
<1>3. ASSUME NEW c \in Caller, StartHandler(c) PROVE PlaceInv'
    <2>1. CASE c \in signalled
        BY <1>3, <2>1 DEF StartHandler, Report, PlaceInv, At
    <2>2. CASE c \notin signalled
        <3>1. /\ stage[c] = "payload" /\ stage' = [stage EXCEPT ![c] = "handler"]
              /\ outcome' = outcome
            BY <1>3, <2>2 DEF StartHandler
        <3>2. OnlyCall(c)
            BY <1>3, <2>2, StartStep
        <3> QED BY <3>1, <3>2 DEF PlaceInv, OnlyCall, At
    <2> QED BY <2>1, <2>2
<1>4. ASSUME NEW c \in Caller, HandlerStep(c) PROVE PlaceInv'
    <2>1. OnlyCall(c)
        BY <1>4, ChannelTyped, SwarmTyped DEF HandlerStep
    <2> QED BY <1>4, <2>1 DEF HandlerStep, executorVars, PlaceInv, OnlyCall, At
<1>5. ASSUME NEW c \in Caller, HandlerEnds(c) PROVE PlaceInv'
    BY <1>5 DEF HandlerEnds, Report, Verdict, castVars, PlaceInv, At
<1>6. ASSUME NEW c \in Caller, Pop(c) PROVE PlaceInv'
    <2>1. /\ stage' = [stage EXCEPT ![c] = "free"] /\ outcome' = [outcome EXCEPT ![c] = ""]
        BY <1>6 DEF Pop
    <2>2. OnlyCall(c) /\ frame'[c].pc = "idle"
        BY <1>6, PopStep
    <2> QED BY <2>1, <2>2 DEF PlaceInv, OnlyCall, At
<1>7. ASSUME NEW t \in Task, Cancel(t) PROVE PlaceInv'
    BY <1>7 DEF Cancel, castVars, PlaceInv, At
<1>8. CASE UNCHANGED vars
    BY <1>8 DEF vars, castVars, executorVars, PlaceInv, At
<1> QED BY <1>1, <1>2, <1>3, <1>4, <1>5, <1>6, <1>7, <1>8 DEF Next

LEMMA NextLast == Typed /\ CountInv /\ PlaceInv /\ LastInv /\ [Next]_vars => LastInv'
<1> SUFFICES ASSUME Typed, CountInv, PlaceInv, LastInv, [Next]_vars PROVE LastInv'
    OBVIOUS
<1>1. ASSUME NEW c \in Caller, HandlerStep(c) PROVE LastInv'
    BY <1>1, ChannelLast, SwarmLast DEF HandlerStep
<1>2. ASSUME NEW c \in Caller, StartHandler(c), c \notin signalled PROVE LastInv'
    <2>1. ~At(c, "cast")
        BY <1>2 DEF StartHandler, PlaceInv, At
    <2> QED BY <1>2, <2>1, StartStep, FreeLast, CallLast DEF Tables
<1>3. ASSUME NEW c \in Caller, Pop(c) PROVE LastInv'
    <2>1. ~At(c, "cast")
        BY <1>3 DEF Pop, PlaceInv, At
    <2> QED BY <1>3, <2>1, PopStep, FreeLast, CallLast DEF Tables
<1>4. CASE UNCHANGED castVars
    BY <1>4 DEF castVars, channelVars, swarmVars, swarmTables, LastInv, LastCall,
                KnownCasts, At
<1> QED BY <1>1, <1>2, <1>3, <1>4, NextCases

(* The last cast a channel or a swarm names is stored, about to be, or its *)
(* call raised after the row was written (write_channel_state before       *)
(* _write_cast); a task reported as completed has its cast: for any number *)
(* of executions and requests.                                             *)
THEOREM LastCastKnown == Spec => []LastCastExists
<1>1. LastInv /\ PlaceInv => LastCastExists
    BY DEF LastInv, PlaceInv, LastCall, LastCastExists, KnownCasts, At
<1> QED BY <1>1, InitTyped, InitCount, InitPlace, InitLast, NextTyped, NextCount, NextPlace,
           NextLast, PTL DEF Spec

-----------------------------------------------------------------------------
(* The members of the swarm.                                               *)

\* No streak is longer than the casts that reached consensus.
StreakCall(c) ==
    At(c, "member") => \A s \in DOMAIN frame[c].plan : frame[c].plan[s].streak <= consensus

StreakInv ==
    /\ \A s \in Joined : members[s].streak <= consensus
    /\ \A c \in Caller : StreakCall(c)

\* The members are those of a swarm with this status.
Follows(status) ==
    \A s \in Joined : /\ status = "DECOHERENT" => members[s].streak = 0
                      /\ members[s].vector = latest[s]

\* The plan of c gives such members, and where it is written they are so.
Plans(c) ==
    /\ Joined \subseteq DOMAIN frame[c].plan
    /\ \A s \in DOMAIN frame[c].plan :
          /\ frame[c].status = "DECOHERENT" => frame[c].plan[s].streak = 0
          /\ frame[c].plan[s].vector = latest[s]
          /\ s \notin frame[c].todo => members[s] = frame[c].plan[s]

Writes(c) == frame[c].pc \in SwarmWriting

WriterCall(c) ==
    /\ frame[c].pc \in {"found", "enter"} => Follows(swarm.status)
    /\ At(c, "member") => Plans(c)
    /\ At(c, "state") => Follows(frame[c].status)

OneWriter ==
    /\ \A c, d \in Caller : Writes(c) /\ Writes(d) => c = d
    /\ (\A c \in Caller : ~Writes(c)) => Follows(swarm.status)
    /\ \A c \in Caller : WriterCall(c)

SwarmInv ==
    /\ StreakInv
    /\ "swarm" \notin crossed => OneWriter

LEMMA InitSwarm == Init => SwarmInv
<1> SUFFICES ASSUME Init PROVE SwarmInv
    OBVIOUS
<1>1. \A c \in Caller : frame[c].pc = "idle"
    BY DEF Init, ChannelInit, Idle
<1>2. Joined = {}
    BY DEF Init, SwarmInit, Joined
<1>3. StreakInv
    BY <1>1, <1>2 DEF StreakInv, StreakCall, At
<1>4. OneWriter
    BY <1>1, <1>2 DEF OneWriter, WriterCall, Writes, SwarmWriting, Follows, At
<1> QED BY <1>3, <1>4 DEF SwarmInv

(* A step of a call that has nothing to do with the swarm.                 *)
LEMMA ApartSwarm ==
    ASSUME SwarmInv, NEW c \in Caller, OnlyCall(c),
           UNCHANGED <<swarm, members, latest, consensus>>, crossed \subseteq crossed',
           ~Writes(c), ~Writes(c)'
    PROVE  SwarmInv'
<1>1. Joined' = Joined
    BY DEF Joined
<1>2. StreakInv'
    BY <1>1 DEF SwarmInv, StreakInv, StreakCall, OnlyCall, Writes, SwarmWriting, At
<1>3. ASSUME "swarm" \notin crossed' PROVE OneWriter'
    <2>1. OneWriter
        BY <1>3 DEF SwarmInv
    <2>2. \A d \in Caller : Writes(d)' = Writes(d)
        BY DEF OnlyCall, Writes
    <2>3. ASSUME NEW d \in Caller PROVE WriterCall(d)'
        <3>1. CASE d = c
            BY <3>1 DEF Writes, WriterCall, SwarmWriting, At
        <3>2. CASE d # c
            <4>1. frame'[d] = frame[d] /\ WriterCall(d)
                BY <2>1, <3>2 DEF OnlyCall, OneWriter
            <4> QED BY <1>1, <4>1 DEF WriterCall, Follows, Plans, At
        <3> QED BY <3>1, <3>2
    <2>4. (\A d \in Caller : ~Writes(d)) => Follows(swarm.status)'
        BY <1>1, <2>1 DEF OneWriter, Follows
    <2> QED BY <2>1, <2>2, <2>3, <2>4 DEF OneWriter
<1> QED BY <1>2, <1>3 DEF SwarmInv

(* The step of a call that is alone with the swarm, or not any more.       *)
LEMMA AloneSwarm ==
    ASSUME NEW c \in Caller, OnlyCall(c), StreakInv',
           "swarm" \notin crossed' =>
               /\ \A d \in Caller \ {c} : ~Writes(d)
               /\ WriterCall(c)'
               /\ ~Writes(c)' => Follows(swarm.status)'
    PROVE  SwarmInv'
<1>1. ASSUME "swarm" \notin crossed' PROVE OneWriter'
    <2>1. \A d \in Caller \ {c} : ~Writes(d)'
        BY <1>1 DEF OnlyCall, Writes
    <2>2. \A d \in Caller \ {c} : WriterCall(d)'
        BY <2>1 DEF Writes, WriterCall, SwarmWriting, At
    <2> QED BY <1>1, <2>1, <2>2 DEF OneWriter
<1> QED BY <1>1 DEF SwarmInv

\* The other calls of a writer are not writing.
LEMMA WriterAlone ==
    ASSUME SwarmInv, NEW c \in Caller, Writes(c), "swarm" \notin crossed
    PROVE  OneWriter /\ WriterCall(c) /\ \A d \in Caller \ {c} : ~Writes(d)
BY DEF SwarmInv, OneWriter

\* A call that is the first to write.
LEMMA FirstWriter ==
    ASSUME SwarmInv, NEW c \in Caller, ~Writes(c), Crossing("swarm", Swarming \ {c}),
           "swarm" \notin crossed'
    PROVE  (\A d \in Caller : ~Writes(d)) /\ Follows(swarm.status)
<1>1. "swarm" \notin crossed /\ Swarming \ {c} = {}
    BY CrossingGrows
<1>2. \A d \in Caller : ~Writes(d)
    BY <1>1 DEF Swarming, Writes
<1> QED BY <1>1, <1>2 DEF SwarmInv, OneWriter

\* The streaks the other calls plan stay within a consensus that grows.
LEMMA StreaksStay ==
    ASSUME Typed, StreakInv, NEW c \in Caller, OnlyCall(c), consensus' \in Nat,
           consensus <= consensus', StreakCall(c)',
           \A s \in Joined' : members'[s].streak <= consensus'
    PROVE  StreakInv'
<1>1. ASSUME NEW d \in Caller PROVE StreakCall(d)'
    <2>1. CASE d = c
        BY <2>1
    <2>2. CASE d # c
        <3>1. frame'[d] = frame[d] /\ StreakCall(d)
            BY <2>2 DEF OnlyCall, StreakInv
        <3> SUFFICES ASSUME At(d, "member"), NEW s \in DOMAIN frame[d].plan
                     PROVE  frame[d].plan[s].streak <= consensus'
            BY <3>1 DEF StreakCall, At
        <3>2. PICK D \in SUBSET Session : frame[d].plan \in [D -> Member]
            BY DEF Typed, FrameInv
        <3>3. frame[d].plan[s].streak \in Nat /\ frame[d].plan[s].streak <= consensus
            BY <3>1, <3>2 DEF StreakCall, Member
        <3> QED BY <3>3 DEF Typed
    <2> QED BY <2>1, <2>2
<1> QED BY <1>1 DEF StreakInv

LEMMA EnterSwarm ==
    ASSUME Typed, SwarmInv, NEW c \in Caller, Enter(c)
    PROVE  SwarmInv'
<1> DEFINE s == frame[c].session
<1>0. /\ s \in Session /\ Writes(c) /\ UNCHANGED <<swarm, consensus, crossed>>
      /\ members' = [members EXCEPT ![s] = Zero] /\ latest' = [latest EXCEPT ![s] = 0]
    BY DEF Enter, Typed, FrameInv, Writes, SwarmWriting, At
<1>1. frame'[c].pc = "returned" /\ OnlyCall(c)
    <2>1. "returned" \in Label
        BY DEF Label
    <2> QED BY <2>1, LeaveBecomes DEF Enter, Return
<1>2. /\ Joined' \subseteq Joined \cup {s} /\ members'[s] = Zero /\ latest'[s] = 0
      /\ \A x \in Session \ {s} : members'[x] = members[x] /\ latest'[x] = latest[x]
    BY <1>0 DEF Typed, Joined
<1> HIDE DEF s
<1>3. Zero.streak = 0 /\ Zero.vector = 0
    BY DEF Zero
<1>4. \A x \in Joined' : members'[x].streak <= consensus'
    BY <1>0, <1>2, <1>3 DEF SwarmInv, StreakInv, Joined, Typed
<1>5. StreakInv'
    BY <1>0, <1>1, <1>4, StreaksStay DEF SwarmInv, StreakCall, Typed, At
<1>6. ASSUME "swarm" \notin crossed PROVE Follows(swarm.status)'
    <2>1. Follows(swarm.status)
        BY <1>6, <1>0, WriterAlone DEF WriterCall, Enter, At
    <2> QED BY <1>0, <1>2, <1>3, <2>1 DEF Follows, Joined
<1>7. WriterCall(c)'
    BY <1>1 DEF WriterCall, At
<1> QED BY <1>0, <1>1, <1>5, <1>6, <1>7, WriterAlone, AloneSwarm

LEMMA CastSwarm ==
    ASSUME Typed, SwarmInv, NEW c \in Caller, NEW s \in Session, NEW level \in Level,
           SwarmCast(c, s, level), swarm # NoSwarm
    PROVE  SwarmInv'
<1> DEFINE f == frame'[c]
           In == Joined \cup {s}
<1>0. /\ UNCHANGED <<swarm, members>> /\ latest' = [latest EXCEPT ![s] = evaluated + 1]
      /\ consensus' = IF Coherent(level) THEN consensus + 1 ELSE consensus
      /\ Crossing("swarm", Swarming \ {c}) /\ ~Writes(c)
    BY DEF SwarmCast, swarmTables, Writes, SwarmWriting, At
<1>1. /\ OnlyCall(c) /\ f.pc = "member" /\ f.todo = In /\ f.status = SwarmStatus(level)
      /\ f.plan \in [In -> Member] /\ f.plan[s].vector = evaluated + 1
      /\ \A x \in Joined \ {s} : f.plan[x].vector = members[x].vector
      /\ \A x \in In : \E streak \in Nat :
            /\ f.plan[x].streak = Streak(streak, level)
            /\ streak = 0 \/ (x \in Joined /\ streak = members[x].streak)
    BY SwarmCastStep
<1>2. level \in Nat /\ consensus \in Nat /\ consensus' \in Nat /\ consensus <= consensus'
    BY <1>0, CastAssumption DEF Typed
<1>3. Joined' = Joined /\ \A x \in Joined : members[x] \in Member
    BY <1>0 DEF Typed, Joined
<1>4. ASSUME NEW x \in In
      PROVE  /\ f.plan[x].streak <= consensus'
             /\ f.status = "DECOHERENT" => f.plan[x].streak = 0
    <2>1. PICK streak \in Nat : /\ f.plan[x].streak = Streak(streak, level)
                                /\ streak = 0 \/ (x \in Joined /\ streak = members[x].streak)
        BY <1>1, <1>4
    <2>2. streak <= consensus
        BY <1>2, <2>1 DEF SwarmInv, StreakInv
    <2> QED BY <1>0, <1>1, <1>2, <2>1, <2>2 DEF Streak, SwarmStatus
<1>5. StreakCall(c)'
    BY <1>1, <1>4 DEF StreakCall
<1>6. \A x \in Joined' : members'[x].streak <= consensus'
    BY <1>0, <1>2, <1>3 DEF SwarmInv, StreakInv, Member
<1>7. StreakInv'
    BY <1>1, <1>2, <1>5, <1>6, StreaksStay DEF SwarmInv
<1>8. ASSUME "swarm" \notin crossed' PROVE WriterCall(c)' /\ \A d \in Caller \ {c} : ~Writes(d)
    <2>1. (\A d \in Caller : ~Writes(d)) /\ Follows(swarm.status)
        BY <1>0, <1>8, FirstWriter
    <2>2. latest'[s] = evaluated + 1 /\ \A x \in Session \ {s} : latest'[x] = latest[x]
        BY <1>0 DEF Typed
    <2>3. \A x \in In : f.plan[x].vector = latest'[x]
        BY <1>1, <2>1, <2>2 DEF Follows, Joined
    <2>4. Plans(c)'
        BY <1>1, <1>3, <1>4, <2>3 DEF Plans
    <2> QED BY <1>1, <2>1, <2>4 DEF WriterCall, At
<1>9. Writes(c)'
    BY <1>1 DEF Writes, SwarmWriting
<1> QED BY <1>1, <1>7, <1>8, <1>9, AloneSwarm

LEMMA MemberSwarm ==
    ASSUME Typed, SwarmInv, NEW c \in Caller, WriteMember(c)
    PROVE  SwarmInv'
<1> DEFINE f == frame[c]
           g == frame'[c]
<1>0. UNCHANGED <<swarm, latest, consensus, crossed>> /\ At(c, "member") /\ Writes(c)
    BY DEF WriteMember, Writes, SwarmWriting, At
<1>1. /\ OnlyCall(c) /\ g.status = f.status /\ g.plan = f.plan
      /\ g.pc = IF g.todo = {} THEN "state" ELSE "member"
    BY WriteMemberStep
<1>2. PICK s \in f.todo : /\ g.todo = f.todo \ {s} /\ f.plan[s] \in Member
                          /\ members' = [members EXCEPT ![s] = f.plan[s]]
    BY WriteMemberStep
<1>3. s \in Session /\ s \in DOMAIN f.plan
    BY <1>0 DEF Typed, Frame, FrameInv
<1>4. /\ members'[s] = f.plan[s] /\ Joined' \subseteq Joined \cup {s}
      /\ \A x \in Session \ {s} : members'[x] = members[x]
    BY <1>2, <1>3 DEF Typed, Joined
<1>5. \A x \in DOMAIN f.plan : f.plan[x].streak <= consensus
    BY <1>0 DEF SwarmInv, StreakInv, StreakCall
<1>6. \A x \in Joined' : members'[x].streak <= consensus'
    BY <1>0, <1>3, <1>4, <1>5 DEF SwarmInv, StreakInv, Joined
<1>7. StreakCall(c)'
    BY <1>0, <1>1, <1>5 DEF StreakCall
<1>8. StreakInv'
    BY <1>0, <1>1, <1>6, <1>7, StreaksStay DEF SwarmInv, Typed
<1>9. ASSUME "swarm" \notin crossed PROVE WriterCall(c)'
    <2>1. Plans(c)
        BY <1>0, <1>9, WriterAlone DEF WriterCall
    <2>2. \A x \in DOMAIN f.plan : x \notin g.todo => members'[x] = f.plan[x]
        <3>1. DOMAIN f.plan \subseteq Session
            BY <1>0 DEF Typed, FrameInv
        <3> QED BY <1>2, <1>4, <2>1, <3>1 DEF Plans
    <2>3. Plans(c)'
        BY <1>0, <1>1, <1>3, <1>4, <2>1, <2>2 DEF Plans
    <2>4. g.todo = {} => Follows(f.status)'
        BY <1>1, <2>3 DEF Plans, Follows
    <2> QED BY <1>1, <2>3, <2>4 DEF WriterCall, At
<1>10. Writes(c)'
    BY <1>1 DEF Writes, SwarmWriting
<1> QED BY <1>0, <1>1, <1>8, <1>9, <1>10, WriterAlone, AloneSwarm

LEMMA SwarmKeeps ==
    ASSUME Typed, SwarmInv, NEW c \in Caller, SwarmStep(c)
    PROVE  SwarmInv'
<1>l. {"raised", "returned", "cast", "enter"} \subseteq Label
    BY DEF Label, Writing, SwarmWriting
<1>o. OnlyCall(c)
    BY SwarmTyped
<1>q. ASSUME UNCHANGED <<members, consensus>>, ~At(c, "member")' PROVE StreakInv'
    BY <1>o, <1>q, StreaksStay DEF SwarmInv, StreakInv, StreakCall, Typed, Joined
<1>1. ASSUME NEW s \in Session, Join(c, s) PROVE SwarmInv'
    <2>1. /\ UNCHANGED <<swarm, members, latest, consensus>>
          /\ Crossing("swarm", Swarming \ {c}) /\ ~Writes(c)
        BY <1>1 DEF Join, swarmVars, swarmTables, Writes, SwarmWriting, At
    <2>2. frame'[c].pc \in {"found", "enter"}
        BY <1>1, JoinStep
    <2>3. StreakInv' /\ Writes(c)'
        BY <1>q, <2>1, <2>2 DEF Writes, SwarmWriting, At
    <2>4. ASSUME "swarm" \notin crossed'
          PROVE  WriterCall(c)' /\ \A d \in Caller \ {c} : ~Writes(d)
        <3>1. (\A d \in Caller : ~Writes(d)) /\ Follows(swarm.status)
            BY <2>1, <2>4, FirstWriter
        <3>2. Follows(swarm.status)'
            BY <2>1, <3>1 DEF Follows, Joined
        <3> QED BY <2>2, <3>1, <3>2 DEF WriterCall, At
    <2> QED BY <1>o, <2>3, <2>4, AloneSwarm
<1>2. CASE Found(c)
    <2>1. /\ Goto(c, "enter") /\ At(c, "found") /\ swarm'.status = "STRAINED"
          /\ UNCHANGED <<members, latest, consensus, crossed>>
        BY <1>2 DEF Found
    <2>2. frame'[c].pc = "enter" /\ Writes(c)
        BY <1>l, <2>1, GotoBecomes DEF Writes, SwarmWriting, At
    <2>3. StreakInv' /\ Writes(c)'
        BY <1>q, <2>1, <2>2 DEF Writes, SwarmWriting, At
    <2>4. ASSUME "swarm" \notin crossed PROVE WriterCall(c)'
        <3>1. Follows(swarm.status)
            BY <2>1, <2>2, <2>4, WriterAlone DEF WriterCall, At
        <3>2. Follows(swarm.status)'
            BY <2>1, <3>1 DEF Follows, Joined
        <3> QED BY <2>2, <3>2 DEF WriterCall, At
    <2> QED BY <1>o, <2>1, <2>2, <2>3, <2>4, WriterAlone, AloneSwarm
<1>3. CASE Enter(c)
    BY <1>3, EnterSwarm
<1>4. ASSUME NEW s \in Session, NEW level \in Level, SwarmCast(c, s, level) PROVE SwarmInv'
    <2>1. CASE swarm = NoSwarm
        <3>1. /\ Leave(c, "raised") /\ At(c, "swarm")
              /\ UNCHANGED <<swarm, members, latest, consensus, crossed>>
            BY <1>4, <2>1 DEF SwarmCast, Raise, swarmTables
        <3>2. frame'[c].pc = "raised"
            BY <1>l, <3>1, LeaveBecomes
        <3> QED BY <1>o, <3>1, <3>2, ApartSwarm DEF Writes, SwarmWriting, At
    <2> QED BY <1>4, <2>1, CastSwarm
<1>5. CASE WriteMember(c)
    BY <1>5, MemberSwarm
<1>6. CASE WriteState(c)
    <2>1. /\ Leave(c, "cast") /\ At(c, "state") /\ swarm'.status = frame[c].status
          /\ UNCHANGED <<members, latest, consensus, crossed>>
        BY <1>6 DEF WriteState
    <2>2. frame'[c].pc = "cast" /\ Writes(c)
        BY <1>l, <2>1, LeaveBecomes DEF Writes, SwarmWriting, At
    <2>3. StreakInv' /\ WriterCall(c)'
        BY <1>q, <2>1, <2>2 DEF WriterCall, At
    <2>4. ASSUME "swarm" \notin crossed PROVE Follows(swarm.status)'
        <3>1. Follows(frame[c].status)
            BY <2>1, <2>2, <2>4, WriterAlone DEF WriterCall
        <3> QED BY <2>1, <3>1 DEF Follows, Joined
    <2> QED BY <1>o, <2>1, <2>2, <2>3, <2>4, WriterAlone, AloneSwarm
<1>7. CASE SwarmFails(c)
    <2>1. /\ Leave(c, "raised") /\ "swarm" \in crossed' /\ UNCHANGED <<members, consensus>>
        BY <1>7 DEF SwarmFails, Raise, swarmVars, swarmTables
    <2>2. frame'[c].pc = "raised"
        BY <1>l, <2>1, LeaveBecomes
    <2>3. StreakInv'
        BY <1>q, <2>1, <2>2 DEF At
    <2> QED BY <2>1, <2>3 DEF SwarmInv
<1> QED BY <1>1, <1>2, <1>3, <1>4, <1>5, <1>6, <1>7 DEF SwarmStep

(* A call of the channel leaves the swarm to others.                       *)
LEMMA ChannelApart ==
    ASSUME Typed, NEW c \in Caller, ChannelStep(c)
    PROVE  ~Writes(c) /\ ~Writes(c)' /\ crossed \subseteq crossed'
<1>l. {"raised", "returned", "cast", "channel_last", "synced"} \subseteq Label
    BY DEF Label, Writing, SwarmWriting
<1>0. ~Writes(c)
    BY DEF ChannelStep, Chained, Geometric, WriteChannel, WriteCast, Sync, WriteSynced,
           CallFails, Writing, Writes, SwarmWriting, At
<1>1. CASE Chained(c) \/ Geometric(c)
    <2>1. PICK first \in {"channel", "cast_first"} : ReadForCast(c, first)
        BY <1>1 DEF Chained, Geometric
    <2>2. frame'[c].pc \in {"raised", "channel", "cast_first"} /\ crossed \subseteq crossed'
        BY <2>1, ReadStep, CrossingGrows
    <2> QED BY <1>0, <2>2 DEF Writes, SwarmWriting
<1>2. CASE WriteChannel(c)
    <2>1. PICK l \in {"cast", "returned"} : Leave(c, l)
        BY <1>2 DEF WriteChannel, Return
    <2> QED BY <1>0, <1>2, <1>l, <2>1, LeaveBecomes DEF WriteChannel, Writes, SwarmWriting
<1>3. CASE WriteCast(c)
    <2>1. Leave(c, "returned") \/ Goto(c, "channel_last")
        BY <1>3 DEF WriteCast, Return
    <2>2. frame'[c].pc \in {"returned", "channel_last"}
        BY <1>l, <2>1, LeaveBecomes, GotoBecomes
    <2> QED BY <1>0, <1>3, <2>2 DEF WriteCast, Writes, SwarmWriting
<1>4. CASE Sync(c)
    <2>1. CASE channel = NoChannel
        <3>1. Leave(c, "raised") /\ UNCHANGED crossed
            BY <1>4, <2>1 DEF Sync, Raise
        <3> QED BY <1>0, <1>l, <3>1, LeaveBecomes DEF Writes, SwarmWriting
    <2>2. CASE channel # NoChannel
        <3> DEFINE f == [Idle EXCEPT !.pc = "synced", !.row = Synced(channel)]
        <3>1. Synced(channel) \in Row
            BY <2>2 DEF Synced, Typed, Row, Standing
        <3>2. f \in Frame /\ f.pc = "synced"
            BY <1>l, <3>1, IdleTyped DEF Idle, Frame
        <3>3. frame' = [frame EXCEPT ![c] = f] /\ Crossing("channel", Holding \ {c})
            BY <1>4, <2>2 DEF Sync
        <3> HIDE DEF f
        <3>4. frame'[c].pc = "synced"
            BY <3>2, <3>3, Becomes
        <3> QED BY <1>0, <3>3, <3>4, CrossingGrows DEF Writes, SwarmWriting
    <2> QED BY <2>1, <2>2
<1>5. CASE WriteSynced(c)
    BY <1>0, <1>l, <1>5, LeaveBecomes DEF WriteSynced, Return, Writes, SwarmWriting
<1>6. CASE CallFails(c)
    BY <1>0, <1>l, <1>6, LeaveBecomes DEF CallFails, Raise, Writes, SwarmWriting
<1> QED BY <1>1, <1>2, <1>3, <1>4, <1>5, <1>6 DEF ChannelStep

LEMMA NextSwarm == Typed /\ PlaceInv /\ SwarmInv /\ [Next]_vars => SwarmInv'
<1> SUFFICES ASSUME Typed, PlaceInv, SwarmInv, [Next]_vars PROVE SwarmInv'
    OBVIOUS
<1>1. ASSUME NEW c \in Caller, HandlerStep(c) PROVE SwarmInv'
    <2>1. ASSUME ChannelStep(c), UNCHANGED swarmVars PROVE SwarmInv'
        BY <2>1, ChannelApart, ChannelTyped, ApartSwarm DEF swarmVars, swarmTables
    <2> QED BY <1>1, <2>1, SwarmKeeps DEF HandlerStep
<1>2. ASSUME NEW c \in Caller, StartHandler(c), c \notin signalled PROVE SwarmInv'
    <2>1. ~Writes(c)
        BY <1>2 DEF StartHandler, PlaceInv, Writes, SwarmWriting
    <2> QED BY <1>2, <2>1, StartStep, ApartSwarm DEF Tables, Writes, SwarmWriting, Tool
<1>3. ASSUME NEW c \in Caller, Pop(c) PROVE SwarmInv'
    <2>1. ~Writes(c)
        BY <1>3 DEF Pop, PlaceInv, Writes, SwarmWriting
    <2> QED BY <1>3, <2>1, PopStep, ApartSwarm DEF Tables, Writes, SwarmWriting
<1>4. CASE UNCHANGED castVars
    BY <1>4 DEF castVars, channelVars, swarmVars, swarmTables, SwarmInv, StreakInv, StreakCall,
                OneWriter, WriterCall, Writes, Follows, Plans, Joined, At
<1> QED BY <1>1, <1>2, <1>3, <1>4, NextCases

(* No member has a longer streak than the swarm had casts with consensus,  *)
(* whatever swarm_join and swarm_cast overlap or fail; and as long as none *)
(* did, a decoherent swarm leaves no member a streak and each member keeps *)
(* the vector it submitted last: for any number of executions, sessions    *)
(* and requests.                                                           *)
THEOREM SwarmFollows == Spec => []SwarmFollowsItsCasts
<1>1. SwarmInv => SwarmFollowsItsCasts
    BY DEF SwarmInv, StreakInv, OneWriter, Follows, Writes, Swarming, SwarmFollowsItsCasts
<1> QED BY <1>1, InitTyped, InitPlace, InitSwarm, NextTyped, NextPlace, NextSwarm, PTL DEF Spec

=============================================================================
