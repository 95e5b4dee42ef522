----------------------------- MODULE SwarmCasts -----------------------------
(***************************************************************************)
(* One swarm: tool_swarm_join and tool_swarm_cast (mcp/tools/swarm.py),    *)
(* whose tables are committed row by row from what the call read at its    *)
(* start: the members one after the other, the swarm, and the cast last.   *)
(*                                                                         *)
(* Abstracted: a member's vector is the number of the cast that submitted  *)
(* it, 0 for the zero vector of a join.  The consensus threshold is the    *)
(* default, 0.75, at which COHERENT and consensus are the same.            *)
(***************************************************************************)
EXTENDS ChannelCasts

CONSTANTS NoSwarm, NoMember

VARIABLES
    swarm,          \* table swarms: the row
    members,        \* table swarm_members, by session
    latest,         \* history: what each session submitted last, 0 after a join
    consensus       \* history: how many casts reached consensus

swarmTables == <<swarm, members>>
swarmVars == <<swarmTables, latest, consensus>>

Joined == {s \in Session : members[s] # NoMember}
Zero == [vector |-> 0, streak |-> 0]

SwarmInit ==
    /\ swarm = NoSwarm
    /\ members = [s \in Session |-> NoMember]
    /\ latest = [s \in Session |-> 0]
    /\ consensus = 0

\* Calls that will write to the swarm from what they read.
SwarmWriting == {"found", "enter", "member", "state"}
Swarming == {c \in Caller : frame[c].pc \in SwarmWriting}

-----------------------------------------------------------------------------
Join(c, s) ==
    /\ At(c, "join")
    /\ frame' = [frame EXCEPT ![c] =
           [Idle EXCEPT !.pc = IF swarm = NoSwarm THEN "found" ELSE "enter",
                        !.session = s]]
    /\ Crossing("swarm", Swarming \ {c})
    /\ UNCHANGED <<channelVars, casts, evaluated, lost, swarmVars>>

(* write_swarm_state is an upsert: it also replaces a swarm that another   *)
(* call founded, and cast in, since the read.                              *)
Found(c) ==
    /\ At(c, "found")
    /\ swarm' = [status |-> "STRAINED", last |-> 0]
    /\ Goto(c, "enter")
    /\ UNCHANGED <<channelVars, casts, evaluated, lost, crossed,
                   members, latest, consensus>>

(* A session that joins again loses its vector and its streak.             *)
Enter(c) ==
    /\ At(c, "enter")
    /\ members' = [members EXCEPT ![frame[c].session] = Zero]
    /\ latest' = [latest EXCEPT ![frame[c].session] = 0]
    /\ Return(c)
    /\ UNCHANGED <<channelVars, casts, evaluated, lost, crossed, swarm, consensus>>

-----------------------------------------------------------------------------
(* engine/operations/swarm.py, swarm_cast.                                 *)
SwarmStatus(level) ==
    IF Coherent(level) THEN "COHERENT"
    ELSE IF Incoherent(level) THEN "DECOHERENT" ELSE "STRAINED"

\* Mutant: an incoherent cast leaves the streaks.
KeptStreak(streak, level) == IF Coherent(level) THEN streak + 1 ELSE streak
Streak(streak, level) ==
    IF Coherent(level) THEN streak + 1
    ELSE IF Incoherent(level) THEN 0 ELSE streak

\* by_session: the caster is a member from now on, with its new vector.
Submitted(s, id) ==
    [members EXCEPT ![s] =
        [vector |-> id, streak |-> IF @ = NoMember THEN 0 ELSE @.streak]]

\* What a cast at this level makes of every member and the caster.
Planned(s, id, level) ==
    LET by == Submitted(s, id)
    IN  [x \in Joined \cup {s} |-> [by[x] EXCEPT !.streak = Streak(@, level)]]

(* The reads, and the evaluation of the weighted mean of the vectors.      *)
SwarmCast(c, s, level) ==
    /\ At(c, "swarm")
    /\ IF swarm = NoSwarm
       THEN /\ Raise(c)
            /\ UNCHANGED <<evaluated, crossed, latest, consensus>>
       ELSE LET id == evaluated + 1
            IN  /\ evaluated' = id
                /\ frame' = [frame EXCEPT ![c] =
                       [Idle EXCEPT !.pc = "member", !.cast = id, !.session = s,
                          !.plan = Planned(s, id, level),
                          !.todo = Joined \cup {s},
                          !.status = SwarmStatus(level)]]
                /\ latest' = [latest EXCEPT ![s] = id]
                /\ consensus' = IF Coherent(level) THEN consensus + 1 ELSE consensus
                /\ Crossing("swarm", Swarming \ {c})
    /\ UNCHANGED <<channelVars, casts, lost, swarmTables>>

(* upsert_swarm_member, in the order of the session ids.                   *)
WriteMember(c) ==
    /\ At(c, "member")
    /\ LET s == CHOOSE x \in frame[c].todo : \A y \in frame[c].todo : x <= y
           rest == frame[c].todo \ {s}
       IN  /\ members' = [members EXCEPT ![s] = frame[c].plan[s]]
           /\ frame' = [frame EXCEPT ![c].todo = rest,
                                     ![c].pc = IF rest = {} THEN "state" ELSE @]
    /\ UNCHANGED <<channelVars, casts, evaluated, lost, crossed,
                   swarm, latest, consensus>>

WriteState(c) ==
    /\ At(c, "state")
    /\ swarm' = [status |-> frame[c].status, last |-> frame[c].cast]
    /\ Leave(c, "cast")
    /\ UNCHANGED <<channelVars, casts, evaluated, lost, crossed,
                   members, latest, consensus>>

(* A write raises: the rows before it stay.                                *)
SwarmFails(c) ==
    /\ frame[c].pc \in SwarmWriting
    /\ Raise(c)
    /\ lost' = lost \cup {frame[c].cast}
    /\ crossed' = crossed \cup {"swarm"}
    /\ UNCHANGED <<channelVars, casts, evaluated, swarmVars>>

SwarmStep(c) ==
    \/ \E s \in Session : Join(c, s)
    \/ Found(c)
    \/ Enter(c)
    \/ \E s \in Session, level \in Level : SwarmCast(c, s, level)
    \/ WriteMember(c)
    \/ WriteState(c)
    \/ SwarmFails(c)
=============================================================================
