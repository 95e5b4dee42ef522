----------------------------- MODULE McpServer -----------------------------
(***************************************************************************)
(* The stdio server of mcp/server.py in front of the casts of              *)
(* LineageCasts, with other processes on the same file.  Its loop reads a  *)
(* message, runs the handler and sends the answer before it reads the      *)
(* next: JSON-RPC lines in text mode, frames of mcp/binary_transport.py in *)
(* binary mode.                                                            *)
(*                                                                         *)
(* Abstracted: a message is what the loop tells apart of it.  "Elsewhere"  *)
(* stands for the tools that leave the tables of LineageCasts alone: those *)
(* that read, and those that write seeds, edges, programs, aspects and     *)
(* sigils, genesis proposals, bundles and the members of a swarm; they     *)
(* return or raise.                                                        *)
(***************************************************************************)
EXTENDS LineageCasts

CONSTANTS
    Loop,           \* the caller that is the loop of the server
    MaxAnswers,     \* bound on the requests read between two starts
    NoRequest

VARIABLES
    mode,           \* what each process was started as
    request,        \* the tool of the message read last, "running" once it is called
    due,            \* answers owed for the messages read since the start
    sent            \* answers handed to _send since the start; it drops one
                    \* that it cannot write

loopVars == <<mode, request, due, sent>>
vars == <<lineageVars, loopVars>>

-----------------------------------------------------------------------------
(* Messages.                                                               *)

\* The tools that write cast_results.
CastTool == {"cast", "fluid_cast", "auto_cast", "predictive_cast", "decide",
            "geometric_cast", "swarm_cast"}

Tool == CastTool \cup {"set_divergence_thresholds", "elsewhere", "unknown"}

\* What a bundle in the arguments is: none, one that stands for a tool, one that
\* does not load.  A bundle for compile_program is one for a tool elsewhere.
Bundle == {"none", "cast", "decide", "elsewhere", "broken"}

ASSUME McpAssumption ==
    Loop \in Caller /\ NoRequest \notin Tool \cup {"running"} /\ MaxAnswers \in Nat

\* A bundle comes under the name of one tool here: it takes its place, whichever it is.
Call == [form : {"call"}, tool : Tool, bundle : {"none"}]
        \cup [form : {"call"}, tool : {"unknown"}, bundle : Bundle]

\* A notification has no id; initialize and the lists are answered from constants.
Line == [form : {"blank", "unreadable", "garbage", "notification", "initialized", "constant",
                 "resource", "no_arguments", "no_method"}] \cup Call

\* Frames: a bad header, a payload that is not JSON, one that is no object.
Frame == [form : {"header", "garbage", "flat", "session", "gossip", "causal",
                  "response"}] \cup Call

\* is_notification, and what _handle_message and _run_binary pass over.
\* Mutant: only the absent id is looked at.
SilentWithId(m) == m.form \in {"blank", "notification", "response"}
Silent(m) == m.form \in {"blank", "notification", "initialized", "response"}

\* Messages a client waits for an answer to.
Owed(m) == m.form \notin {"blank", "notification", "initialized", "response"}

\* What ends the process, as nothing catches what it raises: a line that is not
\* UTF-8 or nests too deep, a bad header, a payload that is no object.
Deadly(m) == m.form \in {"unreadable", "header", "flat"}

\* resolve_tool_invocation: a bundle takes the place of the tool that was named.
Resolved(m) == IF m.bundle = "none" THEN m.tool ELSE m.bundle

\* The calls that reach the tables of LineageCasts.
Reaches(m) == /\ m.form = "call"
              /\ m.bundle # "broken"
              /\ Resolved(m) \notin {"elsewhere", "unknown"}

Ready == Up(Loop) /\ request = NoRequest

Send == sent' = sent + 1 /\ request' = NoRequest

-----------------------------------------------------------------------------
(* The processes.                                                          *)

\* The transport the stdio server was started with.
Transports == {"text", "binary"}

\* The stdio server, the HTTP server, or a CLI command.
Kinds(p) == IF p = Home[Loop] THEN Transports ELSE {"threads", "command"}

Begins(p) ==
    /\ Start(p)
    /\ \E kind \in Kinds(p) : mode' = [mode EXCEPT ![p] = kind]
    /\ UNCHANGED <<request, due, sent>>

\* Also the end of the input.
StopServer ==
    /\ Exit(Home[Loop])
    /\ mode' = [mode EXCEPT ![Home[Loop]] = "off"]
    /\ request' = NoRequest
    /\ due' = 0
    /\ sent' = 0

Ends(p) ==
    /\ p # Home[Loop]
    /\ Exit(p)
    /\ mode' = [mode EXCEPT ![p] = "off"]
    /\ UNCHANGED <<request, due, sent>>

-----------------------------------------------------------------------------
(* The loop.                                                               *)

Read(m) ==
    /\ Ready
    /\ due < MaxAnswers
    /\ m \in IF mode[Home[Loop]] = "text" THEN Line ELSE Frame
    /\ \/ Silent(m) /\ UNCHANGED vars
       \/ Deadly(m) /\ StopServer
       \/ /\ ~Silent(m) /\ ~Deadly(m)
          /\ request' = IF Reaches(m) THEN Resolved(m) ELSE "elsewhere"
          /\ due' = IF Owed(m) THEN due + 1 ELSE due
          /\ UNCHANGED <<lineageVars, mode, sent>>

\* Parse errors, constants, resources, frames but PACKET, and the other tools.
AnswerElsewhere ==
    /\ Up(Loop)
    /\ request = "elsewhere"
    /\ Send
    /\ UNCHANGED <<lineageVars, mode, due>>

RunTool ==
    /\ Up(Loop)
    /\ \/ /\ request \in CastTool
          /\ Refuse(Loop)
       \/ /\ request \in {"cast", "fluid_cast"}
          /\ NewCast(Loop)
       \/ /\ request = "auto_cast"
          /\ AutoCast(Loop)
       \/ /\ request = "predictive_cast"
          /\ Predict(Loop)
       \/ /\ request = "decide"
          /\ Decide(Loop)
       \/ /\ request = "geometric_cast"
          /\ GeometricCast(Loop)
       \/ /\ request = "swarm_cast"
          /\ SwarmCast(Loop)
       \/ /\ request = "set_divergence_thresholds"
          /\ NewSet(Loop)
    /\ request' = "running"
    /\ UNCHANGED <<mode, due, sent>>

AnswerCall ==
    /\ Up(Loop)
    /\ Reply(Loop)
    /\ Send
    /\ UNCHANGED <<mode, due>>

-----------------------------------------------------------------------------
\* A request thread of the HTTP server: a tool, or a task of the gateway.
RequestThread(c) ==
    /\ c # Loop
    /\ Up(c)
    /\ mode[Home[c]] = "threads"
    /\ \/ NewCast(c) \/ AutoCast(c) \/ Predict(c) \/ Decide(c)
       \/ GeometricCast(c) \/ SwarmCast(c) \/ NewSet(c) \/ Reply(c)
    /\ UNCHANGED loopVars

(* The CLI commands that reach these tables; each ends with its process.   *)

\* "cast" and "fluid-cast".
cmd_cast(c) == NewCast(c)
cmd_auto_cast(c) == AutoCast(c)
cmd_predictive_cast(c) == Predict(c)
cmd_decide(c) == Decide(c)
cmd_geometric_cast(c) == GeometricCast(c)
cmd_swarm_cast(c) == SwarmCast(c)
cmd_set_thresholds(c) == NewSet(c)
cmd_backfill_divergence(c) == Backfill(c)

Command(c) ==
    /\ c # Loop
    /\ Up(c)
    /\ mode[Home[c]] = "command"
    /\ \/ cmd_cast(c) \/ cmd_auto_cast(c) \/ cmd_predictive_cast(c)
       \/ cmd_decide(c) \/ cmd_geometric_cast(c) \/ cmd_swarm_cast(c)
       \/ cmd_set_thresholds(c) \/ cmd_backfill_divergence(c)
    /\ UNCHANGED loopVars

\* The exit code of "cast" and "fluid-cast".
ExitCode(c, failOnDiverged) ==
    IF At(c, "raised") THEN 1
    ELSE IF failOnDiverged /\ frame[c].answer # NoReport
            /\ frame[c].answer.status = "DIVERGED" THEN 2 ELSE 0

Init ==
    /\ LineageInit
    /\ mode = [p \in Process |-> "off"]
    /\ request = NoRequest
    /\ due = 0
    /\ sent = 0

Next ==
    \/ \E p \in Process : Begins(p) \/ Ends(p)
    \/ StopServer
    \/ \E m \in Line \cup Frame : Read(m)
    \/ AnswerElsewhere \/ RunTool \/ AnswerCall
    \/ \E c \in Caller : RequestThread(c) \/ Command(c)
    \/ \E c \in Caller : CallStep(c) /\ UNCHANGED loopVars

Spec == Init /\ [][Next]_vars

-----------------------------------------------------------------------------
(* Properties.                                                             *)

(* Every stored cast has its ancestors: tool_lineage and lineage_drift     *)
(* find as many casts above it as its depth says, down to a cast without   *)
(* lineage, whatever failed or ended in between; only a prediction and the *)
(* cast of a decision, of whose chain nothing else is stored, cut the walk *)
(* short, and the walk from below them always stops there.                 *)
LineageIsGrounded ==
    \A i \in CastId : Stored(i) =>
        IF Chain(i) \cap detached = {}
        THEN /\ \A a \in Chain(i) : Stored(a)
             /\ Cardinality(Chain(i)) = casts[i].depth + 1
        ELSE \E a \in Chain(i) \cap detached : ~Stored(casts[a].parent)

(* A stored cast with lineage has its report: it names the parent in the   *)
(* lineage, and its status follows from the two casts under thresholds the *)
(* table has once had.  One stored by an earlier release may have none     *)
(* until backfill; the last cast of a chain that predictive_cast or decide *)
(* dropped never gets one, backfill or not.                                *)
ReportsAreJustified ==
    \A i \in CastId : Stored(i) /\ casts[i].parent # 0 =>
        IF i \in detached THEN reports[i] = NoReport
        ELSE \/ i \in old /\ reports[i] = NoReport
             \/ \E t \in inForce :
                   reports[i] = Report(casts[i].parent, casts[casts[i].parent].sigil,
                                       casts[i].sigil, t)

(* Outside a call of set_divergence_thresholds a process classifies with   *)
(* the thresholds a restart would load, as long as no two calls overlapped *)
(* and none was made beside another running process.                       *)
ThresholdsSurviveRestart ==
    ~contended /\ (\A c \in Caller : ~Setting(c)) =>
        \A p \in running : active[p] = Effective

(* What a cast call returns is stored when the caller gets it, whatever    *)
(* went on around the call: the drift it tells is the one in the table, a  *)
(* command that fails on a diverged cast exits with 2 for no other, and    *)
(* every process that reads the chain tells the same in lineage_drift,     *)
(* whatever thresholds it has by now.                                      *)
AnswersMatchTheTable ==
    \A c \in Caller : At(c, "returned") /\ frame[c].todo # <<>> =>
        LET i == Now(c).id
        IN  /\ casts[i] = Now(c).row
            /\ frame[c].answer = reports[i]
            /\ ExitCode(c, TRUE) = 2
               <=> reports[i] # NoReport /\ reports[i].status = "DIVERGED"
            /\ \A p \in running :
                  casts[i].parent # 0 /\ (\A j \in Chain(i) : Reads(p, j))
                  => LineageDrift(p, i)[i] = frame[c].answer

(* The loop makes one answer for each request and hands it to _send before *)
(* it reads the next; for a notification it makes none, also when that     *)
(* asks for a tool.                                                        *)
EachRequestIsAnsweredOnce ==
    Up(Loop) => due = sent + (IF request = NoRequest THEN 0 ELSE 1)
=============================================================================
