---------------------------- MODULE TaskExecutor ----------------------------
(***************************************************************************)
(* The executor of the A2A SDK (adapters/a2a/vermyth_executor.py) over the *)
(* cast tools: executions are coroutines of one asyncio loop, a step runs  *)
(* from one await to the next, and the handler of a task is a thread.      *)
(*                                                                         *)
(* Abstracted: the payload, trust and capability checks only decide whether*)
(* an execution reaches the handler.  What the SDK itself does to a        *)
(* coroutine when a task is canceled is outside this code and left out.    *)
(***************************************************************************)
EXTENDS SwarmCasts

CONSTANTS Task, NoTask, NoEvent

ASSUME TaskAssumption == NoTask \notin Task /\ NoEvent \notin Caller

VARIABLES
    events,         \* _cancel_events: the execution whose event is stored
    signalled,      \* the executions whose event is set
    stage,          \* where each execution is
    task,           \* its task id
    outcome,        \* the final state it reports
    requests,
    asked,          \* history: executions a cancel of their task found running
    shared          \* history: executions that had company on their task id

castVars == <<channelVars, casts, evaluated, frame, lost, crossed, swarmVars>>
executorVars == <<events, signalled, stage, task, outcome, requests, asked, shared>>
vars == <<castVars, executorVars>>

Init ==
    /\ ChannelInit
    /\ SwarmInit
    /\ events = [t \in Task |-> NoEvent]
    /\ signalled = {}
    /\ stage = [c \in Caller |-> "free"]
    /\ task = [c \in Caller |-> NoTask]
    /\ outcome = [c \in Caller |-> ""]
    /\ requests = 0
    /\ asked = {}
    /\ shared = {}

-----------------------------------------------------------------------------
Others(c, t) == {d \in Caller \ {c} : task[d] = t}

(* The event of an execution of the same task id is replaced.              *)
Execute(c, t) ==
    /\ stage[c] = "free"
    /\ requests < MaxRequests
    /\ requests' = requests + 1
    /\ task' = [task EXCEPT ![c] = t]
    /\ events' = [events EXCEPT ![t] = c]
    /\ stage' = [stage EXCEPT ![c] = "payload"]
    /\ shared' = IF Others(c, t) = {} THEN shared ELSE shared \cup Others(c, t) \cup {c}
    /\ UNCHANGED <<castVars, signalled, outcome, asked>>

Report(c, state) ==
    /\ outcome' = [outcome EXCEPT ![c] = state]
    /\ stage' = [stage EXCEPT ![c] = "pop"]

(* Low trust is rejected; a bad payload or capability, and an unknown      *)
(* skill, fail.                                                            *)
Refuse(c) ==
    /\ stage[c] = "payload"
    /\ \E state \in {"rejected", "failed"} : Report(c, state)
    /\ UNCHANGED <<castVars, events, signalled, task, requests, asked, shared>>

(* The first look at the event, and the thread of the handler.             *)
StartHandler(c) ==
    /\ stage[c] = "payload"
    /\ IF c \in signalled
       THEN /\ Report(c, "canceled")
            /\ UNCHANGED frame
       ELSE /\ \E tool \in Tool : Goto(c, tool)
            /\ stage' = [stage EXCEPT ![c] = "handler"]
            /\ UNCHANGED outcome
    /\ UNCHANGED <<channelVars, casts, evaluated, lost, crossed, swarmVars,
                   events, signalled, task, requests, asked, shared>>

HandlerStep(c) ==
    /\ stage[c] = "handler"
    /\ \/ ChannelStep(c) /\ UNCHANGED swarmVars
       \/ SwarmStep(c)
    /\ UNCHANGED executorVars

(* The loop takes the result of the thread and looks at the event again.   *)
\* Mutant: a result in hand is reported whatever the event says.
ResultFirst(c) == IF At(c, "raised") THEN "failed" ELSE "completed"
Verdict(c) ==
    IF At(c, "raised") THEN "failed"
    ELSE IF c \in signalled THEN "canceled" ELSE "completed"

HandlerEnds(c) ==
    /\ stage[c] = "handler"
    /\ At(c, "returned") \/ At(c, "raised")
    /\ Report(c, Verdict(c))
    /\ UNCHANGED <<castVars, events, signalled, task, requests, asked, shared>>

(* finally: whatever event is stored under the task id goes.               *)
Pop(c) ==
    /\ stage[c] = "pop"
    /\ events' = [events EXCEPT ![task[c]] = NoEvent]
    /\ stage' = [stage EXCEPT ![c] = "free"]
    /\ task' = [task EXCEPT ![c] = NoTask]
    /\ outcome' = [outcome EXCEPT ![c] = ""]
    /\ frame' = [frame EXCEPT ![c] = Idle]
    /\ signalled' = signalled \ {c}
    /\ asked' = asked \ {c}
    /\ shared' = shared \ {c}
    /\ UNCHANGED <<channelVars, casts, evaluated, lost, crossed, swarmVars, requests>>

Cancel(t) ==
    /\ events[t] # NoEvent
    /\ signalled' = signalled \cup {events[t]}
    /\ asked' = asked \cup {c \in Caller : task[c] = t /\ stage[c] # "pop"}
    /\ UNCHANGED <<castVars, events, stage, task, outcome, requests, shared>>

Next ==
    \/ \E c \in Caller :
          \/ \E t \in Task : Execute(c, t)
          \/ Refuse(c)
          \/ StartHandler(c)
          \/ HandlerStep(c)
          \/ HandlerEnds(c)
          \/ Pop(c)
    \/ \E t \in Task : Cancel(t)

Spec == Init /\ [][Next]_vars

Cast == 0 .. MaxRequests
Entry == [vector : Cast, streak : Cast]

TypeOK ==
    /\ channel \in ChannelRow \cup {NoChannel}
    /\ casts \subseteq Cast \ {0}
    /\ evaluated \in Cast
    /\ lost \subseteq Cast
    /\ swarm \in [status : {"COHERENT", "STRAINED", "DECOHERENT"}, last : Cast] \cup {NoSwarm}
    /\ members \in [Session -> Entry \cup {NoMember}]
    /\ \A c \in Caller :
          /\ frame[c].pc \in Tool \cup Writing \cup SwarmWriting
                                 \cup {"idle", "returned", "raised"}
          /\ frame[c].row \in ChannelRow \cup {NoChannel}
          /\ frame[c].todo \subseteq DOMAIN frame[c].plan
          /\ \A s \in DOMAIN frame[c].plan : frame[c].plan[s] \in Entry
    /\ events \in [Task -> Caller \cup {NoEvent}]
    /\ stage \in [Caller -> {"free", "payload", "handler", "pop"}]
    /\ task \in [Caller -> Task \cup {NoTask}]
    /\ outcome \in [Caller -> {"", "rejected", "failed", "canceled", "completed"}]

-----------------------------------------------------------------------------
(* Properties.                                                             *)

(* The channel never counts a cast that was not written to it, whatever    *)
(* casts and syncs overlap, fail or are forced; it has missed one only if  *)
(* the read-modify-writes of two calls overlapped.                         *)
CountIsBacked ==
    channel # NoChannel =>
        /\ channel.count <= counted
        /\ channel.streak <= channel.count
        /\ "channel" \notin crossed => channel.count = counted

(* The last cast of a channel or a swarm is stored, or about to be, or its *)
(* call raised in between; and a task reported as completed has its cast.  *)
LastCastExists ==
    LET known == casts \cup lost \cup {frame[c].cast : c \in {d \in Caller : At(d, "cast")}}
    IN  /\ channel # NoChannel => channel.last \in known
        /\ swarm # NoSwarm => swarm.last \in known \cup {0}
        /\ \A c \in Caller :
              outcome[c] = "completed" /\ frame[c].cast # 0 => frame[c].cast \in casts

(* A streak never exceeds the casts that reached consensus, whatever calls *)
(* overlap.  Without overlap and failure, members of a decoherent swarm    *)
(* have no streak, and each has the vector it submitted last.              *)
SwarmFollowsItsCasts ==
    /\ \A s \in Joined : members[s].streak <= consensus
    /\ "swarm" \notin crossed /\ Swarming = {} =>
          \A s \in Joined :
              /\ swarm.status = "DECOHERENT" => members[s].streak = 0
              /\ members[s].vector = latest[s]

(* An execution whose task is canceled before its handler ends is not      *)
(* reported as completed, unless another execution of the same task id     *)
(* replaced its event or removed it; and only a cancel makes it canceled.  *)
CancelIsHonoured ==
    \A c \in Caller :
        /\ outcome[c] = "completed" /\ c \in asked => c \in shared
        /\ outcome[c] = "canceled" => c \in asked
=============================================================================
