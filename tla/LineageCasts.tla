---------------------------- MODULE LineageCasts ----------------------------
(***************************************************************************)
(* The tools that write cast_results: tool_cast and tool_fluid_cast with a *)
(* parent_cast_id, tool_auto_cast, tool_predictive_cast, tool_decide,      *)
(* tool_geometric_cast and tool_swarm_cast, the divergence reports written *)
(* for the casts, the thresholds the reports are classified with           *)
(* (mcp/tools/casting/_legacy.py, causal.py, decisions.py, swarm.py,       *)
(* drift.py) and the backfill of cli/commands/drift.py, over the tables    *)
(* cast_results, divergence_reports and divergence_thresholds.             *)
(*                                                                         *)
(* Several processes share the file.  Each has read the thresholds when it *)
(* started, keeps them and the reports it wrote in memory (VermythTools in *)
(* mcp/tools/facade.py), and runs the calls of its threads.                *)
(*                                                                         *)
(* Abstracted: a sigil stands for its vector; L2 and Cosine give the       *)
(* distances of two, in hundredths like the thresholds.  A process reads a *)
(* row when its registry resolves every aspect of the row's sigil.  Seeds  *)
(* and crystals are GlyphLoop's, channels those of ChannelCasts, swarms    *)
(* those of SwarmCasts, edges those of CausalGraph, and the policies of    *)
(* tool_decide those of DecideTool; their failures are in Refuse, or where *)
(* they come after the cast.                                               *)
(***************************************************************************)
EXTENDS Naturals, FiniteSets, Sequences

CONSTANTS
    Process, Caller,
    Home,           \* [Caller -> Process]
    Sigil,
    Resolves,       \* [Process -> SUBSET Sigil]
    L2, Cosine,     \* [Sigil \X Sigil -> Nat]
    Payload,        \* arguments of set_divergence_thresholds
    MaxCasts,       \* bound on cast ids
    MaxChain,       \* the max_depth argument of auto_cast
    MaxSets,        \* bound on calls of set_divergence_thresholds
    MaxStarts,      \* bound on the starts of processes
    FillLimit,      \* the limit argument of backfill-divergence
    NoRow, NoReport, NoThresholds

Field == {"l2_stable_max", "l2_diverged_min", "cosine_stable_max", "cosine_diverged_min"}
Standing == {"STABLE", "DRIFTING", "DIVERGED"}

ASSUME LineageAssumption ==
    /\ Home \in [Caller -> Process]
    /\ Resolves \in [Process -> SUBSET Sigil]
    /\ L2 \in [Sigil \X Sigil -> Nat]
    /\ Cosine \in [Sigil \X Sigil -> Nat]
    /\ \A payload \in Payload :
          DOMAIN payload \subseteq Field /\ \A f \in DOMAIN payload : payload[f] \in Nat
    /\ {MaxCasts, MaxChain, MaxSets, MaxStarts, FillLimit} \subseteq Nat
    /\ NoRow \notin [sigil : Sigil, parent : Nat, depth : Nat]
    /\ NoReport \notin [parent : Nat, l2 : Nat, cosine : Nat, status : Standing]
    /\ NoThresholds \notin [Field -> Nat]

VARIABLES
    casts,          \* table cast_results: the row of each id
    reports,        \* table divergence_reports
    thresholds,     \* table divergence_thresholds: its one row
    active,         \* _active_thresholds of each process
    cached,         \* _divergence_cache of each process
    running,        \* processes past VermythTools.__init__
    frame,          \* the call each caller runs
    issued,         \* how many cast ids were made
    sets, starts,
    old,            \* history: casts of an earlier release, without a report
    inForce,        \* history: the thresholds the table has had
    detached,       \* history: casts stored without the cast they descend from
    contended       \* history: thresholds were written beside another process or call

tables == <<casts, reports, thresholds>>
memory == <<active, cached, running>>
bounds == <<issued, sets, starts>>
history == <<old, inForce, contended, detached>>
lineageVars == <<tables, memory, frame, bounds, history>>

-----------------------------------------------------------------------------
(* Thresholds and classification.                                          *)

CastId == 1 .. MaxCasts

Default == [l2_stable_max |-> 30, l2_diverged_min |-> 70,
            cosine_stable_max |-> 20, cosine_diverged_min |-> 50]

Valid(t) == /\ t.l2_stable_max < t.l2_diverged_min
            /\ t.cosine_stable_max < t.cosine_diverged_min

\* read_divergence_thresholds: the row, or the default without one.
Effective == IF thresholds = NoThresholds THEN Default ELSE thresholds

Band(x, stable, diverged) ==
    IF x < stable THEN "STABLE" ELSE IF x >= diverged THEN "DIVERGED" ELSE "DRIFTING"

Worst(bands) == IF "DIVERGED" \in bands THEN "DIVERGED"
                ELSE IF "DRIFTING" \in bands THEN "DRIFTING" ELSE "STABLE"

Classify(l2, cosine, t) ==
    Worst({Band(l2, t.l2_stable_max, t.l2_diverged_min),
           Band(cosine, t.cosine_stable_max, t.cosine_diverged_min)})

\* DivergenceReport.classify.
Report(parent, above, below, t) ==
    LET l2 == L2[above, below]
        cosine == Cosine[above, below]
    IN  [parent |-> parent, l2 |-> l2, cosine |-> cosine,
         status |-> Classify(l2, cosine, t)]

-----------------------------------------------------------------------------
(* Rows of cast_results.  A cast without lineage has parent 0; the branch  *)
(* of a cast only labels it and is left out.                               *)

Root(sigil) == [sigil |-> sigil, parent |-> 0, depth |-> 0]

Stored(i) == i \in CastId /\ casts[i] # NoRow
Reads(p, i) == Stored(i) /\ casts[i].sigil \in Resolves[p]

\* The lineage tool_cast gives a cast when it has read its parent.
\* Mutant: every child of a cast starts at depth one.
DescendantAtOne(row, parent) == [row EXCEPT !.parent = parent, !.depth = 1]
Descendant(row, parent) ==
    [row EXCEPT !.parent = parent, !.depth = casts[parent].depth + 1]

\* CompositionEngine.interpolate: the sigil of a vector has canonical aspects
\* only, and every process resolves those.
Interpolated == {s \in Sigil : \A p \in Process : s \in Resolves[p]}

\* The chain of engine.auto_cast: each cast descends from the one before and
\* has its sigil, as a vector is blended toward its own unit vector.
ChainRow(first, sigil, k) ==
    IF k = 1 THEN Root(sigil)
    ELSE [sigil |-> sigil, parent |-> first + k - 2, depth |-> k - 1]

\* The casts tool_lineage and tool_lineage_drift come to from i, with i: the
\* least set of ids that has i and the parent of every stored cast in it.
Upward(ids) == \A k \in ids : Stored(k) /\ casts[k].parent # 0 => casts[k].parent \in ids
Chain(i) == {j \in CastId : \A ids \in SUBSET CastId : i \in ids /\ Upward(ids) => j \in ids}

\* The report tool_lineage_drift tells for i: the one stored, else one made
\* now from a parent this process can read, else none.
HopDrift(p, i) ==
    LET parent == casts[i].parent
    IN  IF reports[i] # NoReport THEN reports[i]
        ELSE IF Reads(p, parent)
        THEN Report(parent, casts[parent].sigil, casts[i].sigil, active[p])
        ELSE NoReport

\* Its answer for a cast whose whole chain p reads: a report for each hop.
LineageDrift(p, i) ==
    [j \in {k \in Chain(i) : casts[k].parent # 0} |-> HopDrift(p, j)]

Missing == {i \in CastId : Stored(i) /\ casts[i].parent # 0 /\ reports[i] = NoReport}

-----------------------------------------------------------------------------
(* Frames.                                                                 *)

Idle == [pc |-> "idle", todo |-> <<>>, asked |-> 0, report |-> NoReport,
         wanted |-> NoThresholds, pairs |-> {}, answer |-> NoReport]

At(c, label) == frame[c].pc = label
Now(c) == Head(frame[c].todo)
Up(c) == Home[c] \in running

Become(c, f) == frame' = [frame EXCEPT ![c] = f]
Goto(c, label) == frame' = [frame EXCEPT ![c].pc = label]
Return(c, answer) == Become(c, [Idle EXCEPT !.pc = "returned", !.answer = answer])
\* A KeyError, a ValueError or a RuntimeError.
Raise(c) == Become(c, [Idle EXCEPT !.pc = "raised"])

\* A statement fails: the disk, or the other process holds the lock too long.
Broken(c) == Raise(c)

LineageInit ==
    /\ \E kept \in BOOLEAN, above, below \in Sigil :
          /\ old = IF kept THEN {2} ELSE {}
          /\ issued = IF kept THEN 2 ELSE 0
          /\ casts = [i \in CastId |->
                         IF kept /\ i = 1 THEN Root(above)
                         ELSE IF kept /\ i = 2
                         THEN [sigil |-> below, parent |-> 1, depth |-> 1]
                         ELSE NoRow]
    /\ reports = [i \in CastId |-> NoReport]
    /\ thresholds = NoThresholds
    /\ active = [p \in Process |-> Default]
    /\ cached = [p \in Process |-> [i \in CastId |-> NoReport]]
    /\ running = {}
    /\ frame = [c \in Caller |-> Idle]
    /\ sets = 0
    /\ starts = 0
    /\ inForce = {Default}
    /\ detached = {}
    /\ contended = FALSE

-----------------------------------------------------------------------------
(* Processes.                                                              *)

\* VermythTools.__init__.
Start(p) ==
    /\ p \notin running
    /\ starts < MaxStarts
    /\ starts' = starts + 1
    /\ running' = running \cup {p}
    /\ active' = [active EXCEPT ![p] = Effective]
    /\ UNCHANGED <<tables, cached, frame, issued, sets, history>>

\* The process ends, in the middle of its calls or not.
Exit(p) ==
    /\ p \in running
    /\ running' = running \ {p}
    /\ active' = [active EXCEPT ![p] = Default]
    /\ cached' = [cached EXCEPT ![p] = [i \in CastId |-> NoReport]]
    /\ frame' = [c \in Caller |-> IF Home[c] = p THEN Idle ELSE frame[c]]
    /\ UNCHANGED <<tables, bounds, history>>

-----------------------------------------------------------------------------
(* A cast, alone or in a chain: read the parent and classify, write the    *)
(* report, write the cast; the seeds are observed in between.              *)

Begin(c, items, asked) ==
    /\ Become(c, [Idle EXCEPT !.pc = IF asked # 0 THEN "parent" ELSE "insert",
                              !.todo = items, !.asked = asked])
    /\ issued' = issued + Len(items)

\* tool_cast, tool_fluid_cast: composition and evaluation come first.
Cast(c, parent) ==
    /\ At(c, "idle")
    /\ \E sigil \in Resolves[Home[c]] :
          /\ issued < MaxCasts
          /\ Begin(c, <<[id |-> issued + 1, row |-> Root(sigil)]>>, parent)
    /\ UNCHANGED <<tables, memory, sets, starts, history>>

\* tool_auto_cast: the whole chain is computed before any of it is written.
AutoCast(c) ==
    /\ At(c, "idle")
    /\ \E n \in 1 .. MaxChain, sigil \in Interpolated :
          /\ issued + n <= MaxCasts
          /\ Begin(c, [k \in 1 .. n |-> [id |-> issued + k,
                                         row |-> ChainRow(issued + 1, sigil, k)]], 0)
    /\ UNCHANGED <<tables, memory, sets, starts, history>>

\* Of n casts that were made only the last is kept.
Keep(c, label, n, row) ==
    /\ issued + n <= MaxCasts
    /\ issued' = issued + n
    /\ Become(c, [Idle EXCEPT !.pc = label,
                              !.todo = <<[id |-> issued + n, row |-> row]>>])

KeepLast(c, label) ==
    \E n \in 1 .. MaxChain, sigil \in Interpolated :
        Keep(c, label, n, ChainRow(issued + 1, sigil, n))

\* tool_predictive_cast.
Predict(c) ==
    /\ At(c, "idle")
    /\ KeepLast(c, "predict")
    /\ UNCHANGED <<tables, memory, sets, starts, history>>

\* tool_decide: engine.decide casts the aspects or the vector it was given;
\* without them it runs auto_cast, and returns the last cast of the chain.
Decide(c) ==
    /\ At(c, "idle")
    /\ \/ \E sigil \in Resolves[Home[c]] : Keep(c, "keep", 1, Root(sigil))
       \/ KeepLast(c, "keep")
    /\ UNCHANGED <<tables, memory, sets, starts, history>>

\* tool_geometric_cast: the cast of the packet's vector.
GeometricCast(c) ==
    /\ At(c, "idle")
    /\ \E sigil \in Interpolated : Keep(c, "keep", 1, Root(sigil))
    /\ UNCHANGED <<tables, memory, sets, starts, history>>

\* tool_swarm_cast: a cast without lineage, the last thing it writes.
SwarmCast(c) == Cast(c, 0)

\* Arguments that are no vector, no aspect or no intent; a cast that decide
\* is to be compared with and cannot read; a member or channel not written.
Refuse(c) ==
    /\ At(c, "idle")
    /\ Raise(c)
    /\ UNCHANGED <<tables, memory, bounds, history>>

ReadParent(c) ==
    /\ At(c, "parent")
    /\ LET p == Home[c]
           item == Now(c)
           parent == IF frame[c].asked # 0 THEN frame[c].asked ELSE item.row.parent
           row == IF frame[c].asked # 0
                  THEN Descendant(item.row, parent) ELSE item.row
       IN  IF Reads(p, parent)
           THEN Become(c, [frame[c] EXCEPT
                    !.pc = "report",
                    !.todo = <<[id |-> item.id, row |-> row]>> \o Tail(frame[c].todo),
                    !.report = Report(parent, casts[parent].sigil, row.sigil, active[p])])
           ELSE Raise(c)
    /\ UNCHANGED <<tables, memory, bounds, history>>

\* Mutant: the report stays in memory.
ReportUnwritten(i, r) == reports
ReportWritten(i, r) == [reports EXCEPT ![i] = r]
Remembered(p, i, r) == [cached EXCEPT ![p][i] = r]

WriteReport(c) ==
    /\ At(c, "report")
    /\ \/ /\ reports' = ReportWritten(Now(c).id, frame[c].report)
          /\ cached' = Remembered(Home[c], Now(c).id, frame[c].report)
          /\ Goto(c, "insert")
       \/ Broken(c) /\ UNCHANGED <<reports, cached>>
    /\ UNCHANGED <<casts, thresholds, active, running, bounds, history>>

\* cast_result_to_dict: the report in memory, else the one in the table.
Told(p, item) ==
    IF item.row.parent = 0 THEN NoReport
    ELSE IF cached[p][item.id] # NoReport THEN cached[p][item.id] ELSE reports[item.id]

\* CastRepository.write.
\* Mutant: the answer is given before the row is written.
RowUnwritten(i, row) == casts
RowWritten(i, row) == [casts EXCEPT ![i] = row]

WriteCast(c) ==
    /\ At(c, "insert")
    /\ \/ /\ casts' = RowWritten(Now(c).id, Now(c).row)
          /\ IF Len(frame[c].todo) = 1
             THEN Become(c, [Idle EXCEPT !.pc = "returned", !.todo = frame[c].todo,
                                         !.answer = Told(Home[c], Now(c))])
             ELSE Become(c, [Idle EXCEPT !.pc = "parent", !.todo = Tail(frame[c].todo)])
       \/ Broken(c) /\ UNCHANGED casts
    /\ UNCHANGED <<reports, thresholds, memory, bounds, history>>

\* A cast that descends from one that was dropped.
Detached(item) == IF item.row.parent = 0 THEN detached ELSE detached \cup {item.id}

\* No report; the answer is built by a call that lacks an argument, and raises.
WritePrediction(c) ==
    /\ At(c, "predict")
    /\ Raise(c)
    /\ \/ /\ casts' = RowWritten(Now(c).id, Now(c).row)
          /\ detached' = Detached(Now(c))
       \/ UNCHANGED <<casts, detached>>
    /\ UNCHANGED <<reports, thresholds, memory, bounds, old, inForce, contended>>

\* tool_decide and tool_geometric_cast store the cast, without a report.
WriteKept(c) ==
    /\ At(c, "keep")
    /\ \/ /\ casts' = RowWritten(Now(c).id, Now(c).row)
          /\ detached' = Detached(Now(c))
          /\ Goto(c, "kept")
       \/ Broken(c) /\ UNCHANGED <<casts, detached>>
    /\ UNCHANGED <<reports, thresholds, memory, bounds, old, inForce, contended>>

\* The policy decision, or the channel, is a write of its own.
AnswerKept(c) ==
    /\ At(c, "kept")
    /\ \/ Become(c, [Idle EXCEPT !.pc = "returned", !.todo = frame[c].todo,
                                 !.answer = Told(Home[c], Now(c))])
       \/ Broken(c)
    /\ UNCHANGED <<tables, memory, bounds, history>>

-----------------------------------------------------------------------------
(* tool_set_divergence_thresholds: the fields not given are those of the   *)
(* process, the row is written, then the memory.                           *)

Merged(payload, base) ==
    [f \in Field |-> IF f \in DOMAIN payload THEN payload[f] ELSE base[f]]

Setting(c) == At(c, "set_row") \/ At(c, "set_memory")

SetThresholds(c, payload) ==
    /\ At(c, "idle")
    /\ sets < MaxSets
    /\ sets' = sets + 1
    /\ LET wanted == Merged(payload, active[Home[c]])
       IN  IF Valid(wanted)
           THEN Become(c, [Idle EXCEPT !.pc = "set_row", !.wanted = wanted])
           ELSE Raise(c)
    /\ UNCHANGED <<tables, memory, issued, starts, history>>

WriteThresholds(c) ==
    /\ At(c, "set_row")
    /\ \/ /\ thresholds' = frame[c].wanted
          /\ inForce' = inForce \cup {frame[c].wanted}
          /\ contended' = \/ contended
                          \/ running # {Home[c]}
                          \/ \E d \in Caller \ {c} : Setting(d)
          /\ Goto(c, "set_memory")
       \/ Broken(c) /\ UNCHANGED <<thresholds, inForce, contended>>
    /\ UNCHANGED <<casts, reports, memory, bounds, old, detached>>

\* Mutant: the row is written, and the process goes on with what it had.
ActiveAsBefore(c) == active
ActiveAsWanted(c) == [active EXCEPT ![Home[c]] = frame[c].wanted]

KeepThresholds(c) ==
    /\ At(c, "set_memory")
    /\ active' = ActiveAsWanted(c)
    /\ Return(c, NoReport)
    /\ UNCHANGED <<tables, cached, running, bounds, history>>

-----------------------------------------------------------------------------
(* backfill-divergence: the pairs without a report, newest first; a pair   *)
(* that fails is passed over.                                              *)

Newest(ids) == {i \in ids : Cardinality({j \in ids : j > i}) < FillLimit}

Backfill(c) ==
    /\ At(c, "idle")
    /\ Become(c, [Idle EXCEPT !.pc = "fill", !.pairs = Newest(Missing)])
    /\ UNCHANGED <<tables, memory, bounds, history>>

\* The pair the loop has come to.
Pair(c) == CHOOSE i \in frame[c].pairs : \A j \in frame[c].pairs : j <= i

FillRead(c) ==
    /\ At(c, "fill")
    /\ frame[c].pairs # {}
    /\ LET i == Pair(c)
           parent == casts[i].parent
           p == Home[c]
       IN  IF Reads(p, i) /\ Reads(p, parent)
           THEN Become(c, [frame[c] EXCEPT !.pc = "fill_write",
                    !.report = Report(parent, casts[parent].sigil, casts[i].sigil, Effective)])
           ELSE Become(c, [frame[c] EXCEPT !.pairs = frame[c].pairs \ {i}])
    /\ UNCHANGED <<tables, memory, bounds, history>>

FillWrite(c) ==
    /\ At(c, "fill_write")
    /\ \/ /\ reports' = ReportWritten(Pair(c), frame[c].report)
          /\ cached' = Remembered(Home[c], Pair(c), frame[c].report)
       \/ UNCHANGED <<reports, cached>>
    /\ Become(c, [Idle EXCEPT !.pc = "fill", !.pairs = frame[c].pairs \ {Pair(c)}])
    /\ UNCHANGED <<casts, thresholds, active, running, bounds, history>>

FillEnds(c) ==
    /\ At(c, "fill")
    /\ frame[c].pairs = {}
    /\ Return(c, NoReport)
    /\ UNCHANGED <<tables, memory, bounds, history>>

-----------------------------------------------------------------------------
\* The parent a client names: any id it may have heard of, or none.
NewCast(c) == \E parent \in 0 .. issued : Cast(c, parent)
NewSet(c) == \E payload \in Payload : SetThresholds(c, payload)

CallStep(c) ==
    /\ Up(c)
    /\ \/ ReadParent(c) \/ WriteReport(c) \/ WriteCast(c) \/ WritePrediction(c)
       \/ WriteKept(c) \/ AnswerKept(c)
       \/ WriteThresholds(c) \/ KeepThresholds(c)
       \/ FillRead(c) \/ FillWrite(c) \/ FillEnds(c)

Over(c) == At(c, "returned") \/ At(c, "raised")

\* The answer leaves the process.
Reply(c) ==
    /\ Over(c)
    /\ Become(c, Idle)
    /\ UNCHANGED <<tables, memory, bounds, history>>
=============================================================================
