---------------------------- MODULE ChannelCasts ----------------------------
(***************************************************************************)
(* The casts of one branch: a chained tool_cast and tool_geometric_cast    *)
(* (mcp/tools/casting/_legacy.py) read the row of the channel, evaluate    *)
(* and write the whole row back; tool_sync_channel (mcp/tools/drift.py)    *)
(* reads it and writes it back too.  The cast row is a commit of its own,  *)
(* after the channel for a chained cast and before it for a geometric one. *)
(*                                                                         *)
(* Abstracted: resonance is a whole percentage and the row keeps its sum,  *)
(* from which the mean follows.  The constraint vector, which only blends  *)
(* into the evaluation, is left out: the evaluation yields any level.      *)
(***************************************************************************)
EXTENDS Naturals, FiniteSets

CONSTANTS
    Caller,         \* threads a handler runs in
    Level,          \* adjusted resonances, in percent
    MaxRequests,    \* bound on the calls of a behaviour
    Session,        \* of SwarmCasts; numbers, in the order of their names
    NoChannel

ASSUME CastAssumption ==
    /\ Level \subseteq 0 .. 100
    /\ MaxRequests \in Nat
    /\ Session \subseteq Nat /\ IsFiniteSet(Session)
    /\ NoChannel \notin [count : Nat, sum : Nat, streak : Nat, last : Nat,
                         status : {"COHERENT", "STRAINED", "DECOHERENT"}]

VARIABLES
    channel,        \* table channel_states: the row of the branch
    casts,          \* table cast_results: numbers of the casts stored
    evaluated,      \* how many casts were evaluated; numbers them
    frame,          \* the call each caller runs
    counted,        \* history: how many casts were written to the channel
    lost,           \* history: casts whose call failed after the evaluation
    crossed         \* history: "channel", "swarm" once read-modify-writes of it
                    \*   overlapped or, in the swarm, one broke off halfway

channelVars == <<channel, counted>>

\* engine/operations/cast.py, verdict_type.
Coherent(level) == level >= 75
Incoherent(level) == level < 45

Mean(sum, count, percent) == sum >= percent * count
Status(sum, count) ==
    IF Mean(sum, count, 65) THEN "COHERENT"
    ELSE IF Mean(sum, count, 40) THEN "STRAINED" ELSE "DECOHERENT"

ChannelRow == [count : 1 .. MaxRequests, sum : 0 .. 100 * MaxRequests,
               streak : 0 .. MaxRequests,
               status : {"COHERENT", "STRAINED", "DECOHERENT"},
               last : 1 .. MaxRequests]

Tool == {"chained", "geometric", "sync", "join", "swarm"}
Writing == {"channel", "channel_last", "cast", "cast_first", "synced"}

Idle == [pc |-> "idle", cast |-> 0, row |-> NoChannel,
         session |-> 0, plan |-> <<>>, todo |-> {}, status |-> ""]

At(c, label) == frame[c].pc = label
Goto(c, label) == frame' = [frame EXCEPT ![c].pc = label]
\* Of what the call read, only the number of its cast matters from here.
Leave(c, label) ==
    frame' = [frame EXCEPT ![c] = [Idle EXCEPT !.pc = label, !.cast = frame[c].cast]]
Return(c) == Leave(c, "returned")
Raise(c) == Leave(c, "raised")

ChannelInit ==
    /\ channel = NoChannel
    /\ casts = {}
    /\ evaluated = 0
    /\ frame = [c \in Caller |-> Idle]
    /\ counted = 0
    /\ lost = {}
    /\ crossed = {}

-----------------------------------------------------------------------------
(* The row after one more cast.                                            *)
Before(seen) == IF seen = NoChannel
                THEN [count |-> 0, sum |-> 0, streak |-> 0] ELSE seen

\* Mutant: the row does not name the cast.
AfterUnnamed(seen, level, id) ==
    LET old == Before(seen)
    IN  [count |-> old.count + 1, sum |-> old.sum + level, streak |-> 0,
         status |-> "COHERENT", last |-> 0]
After(seen, level, id) ==
    LET old == Before(seen)
        sum == old.sum + level
        count == old.count + 1
    IN  [count |-> count, sum |-> sum,
         streak |-> IF Coherent(level) THEN old.streak + 1 ELSE 0,
         status |-> Status(sum, count), last |-> id]

Refused(force) ==
    channel # NoChannel /\ channel.status = "DECOHERENT" /\ ~force

\* Calls that hold a channel row they will write back.
Holding == {c \in Caller : \E l \in {"channel", "channel_last", "cast_first", "synced"} : At(c, l)}
Crossing(part, others) == crossed' = IF others = {} THEN crossed ELSE crossed \cup {part}

(* read_channel_state and the evaluation.                                  *)
ReadForCast(c, first) ==
    \E force \in BOOLEAN, level \in Level :
        IF Refused(force)
        THEN /\ Raise(c)
             /\ UNCHANGED <<evaluated, crossed>>
        ELSE /\ evaluated' = evaluated + 1
             /\ frame' = [frame EXCEPT ![c] =
                    [Idle EXCEPT !.pc = first, !.cast = evaluated + 1,
                                 !.row = After(channel, level, evaluated + 1)]]
             /\ Crossing("channel", Holding \ {c})

Chained(c) ==
    /\ At(c, "chained")
    /\ ReadForCast(c, "channel")
    /\ UNCHANGED <<channelVars, casts, lost>>

Geometric(c) ==
    /\ At(c, "geometric")
    /\ ReadForCast(c, "cast_first")
    /\ UNCHANGED <<channelVars, casts, lost>>

(* write_channel_state: the chained cast row is still to come.             *)
WriteChannel(c) ==
    /\ At(c, "channel") \/ At(c, "channel_last")
    /\ channel' = frame[c].row
    /\ counted' = counted + 1
    /\ IF At(c, "channel") THEN Leave(c, "cast") ELSE Return(c)
    /\ UNCHANGED <<casts, evaluated, lost, crossed>>

\* Mutant: the caller is answered before the row is written.
CastUnwritten(c) == casts
CastStored(c) == casts \cup {frame[c].cast}

WriteCast(c) ==
    /\ At(c, "cast") \/ At(c, "cast_first")
    /\ casts' = CastStored(c)
    /\ IF At(c, "cast") THEN Return(c) ELSE Goto(c, "channel_last")
    /\ UNCHANGED <<channelVars, evaluated, lost, crossed>>

(* engine/operations/drift.py: a new status, the same count and mean.      *)
\* Mutant: a channel in sync starts counting anew.
SyncedAnew(row) == [row EXCEPT !.status = "COHERENT", !.streak = 0, !.count = 1]
Synced(row) == [row EXCEPT !.status = "COHERENT", !.streak = 0]

Sync(c) ==
    /\ At(c, "sync")
    /\ IF channel = NoChannel
       THEN /\ Raise(c)
            /\ UNCHANGED crossed
       ELSE /\ frame' = [frame EXCEPT ![c] =
                   [Idle EXCEPT !.pc = "synced", !.row = Synced(channel)]]
            /\ Crossing("channel", Holding \ {c})
    /\ UNCHANGED <<channelVars, casts, evaluated, lost>>

WriteSynced(c) ==
    /\ At(c, "synced")
    /\ channel' = frame[c].row
    /\ Return(c)
    /\ UNCHANGED <<casts, evaluated, counted, lost, crossed>>

(* A write raises, or a chained cast names a parent that is not stored.    *)
CallFails(c) ==
    /\ frame[c].pc \in Writing
    /\ Raise(c)
    /\ lost' = lost \cup {frame[c].cast}
    /\ UNCHANGED <<channelVars, casts, evaluated, crossed>>

ChannelStep(c) ==
    \/ Chained(c)
    \/ Geometric(c)
    \/ WriteChannel(c)
    \/ WriteCast(c)
    \/ Sync(c)
    \/ WriteSynced(c)
    \/ CallFails(c)
=============================================================================
