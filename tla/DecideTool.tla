----------------------------- MODULE DecideTool -----------------------------
(***************************************************************************)
(* The decide tool (mcp/tools/decisions.py) and the part of                *)
(* engine/operations/decisions.py that reads the policy model.             *)
(*                                                                         *)
(* The engine has ONE _policy_model, and a call that asks for another one  *)
(* puts it there for the time of the call: it remembers the model it       *)
(* found, replaces it, decides, and puts the remembered model back.  HTTP  *)
(* handlers run in threads of one process that share the engine, so the    *)
(* steps of two calls interleave.                                          *)
(*                                                                         *)
(* Abstracted: the resonance and the scores.  A decision is here the model *)
(* that took it and the model its row names.                               *)
(***************************************************************************)
EXTENDS Naturals, FiniteSets

CONSTANTS
    Caller,     \* threads that may call the tool
    Id,         \* cast ids the run may hand out, one per call
    Model,      \* names of the policy registry
    Base,       \* the model the engine was built with
    NoModel,    \* a call without policy_model
    Unknown     \* a name that is not in the registry, or fails to load

\* TaskService, which instantiates this module, states the assumptions.

VARIABLES
    model,      \* engine._policy_model
    casts,      \* table cast_results: the casts of decide calls
    decisions,  \* table policy_decisions
    deciding,   \* the frame of each caller's call
    mixed       \* history: a call that asks for a model overlapped another

vars == <<model, casts, decisions, deciding, mixed>>

Location == {"idle", "swap", "evaluate", "name", "restore", "writecast",
             "writedecision", "returned", "raised"}
Asked == Model \cup {NoModel, Unknown}
NoId == 0

Decision == [id : Id, asked : Model \cup {NoModel}, by : Model, named : Model,
             calm : BOOLEAN]

Frame == [at : Location, id : Id \cup {NoId}, asked : Asked,
          previous : Model, by : Model \cup {NoModel},
          named : Model \cup {NoModel}]

Idle == [at |-> "idle", id |-> NoId, asked |-> NoModel, previous |-> Base,
         by |-> NoModel, named |-> NoModel]

TypeOK ==
    /\ model \in Model
    /\ casts \subseteq Id
    /\ decisions \subseteq Decision
    /\ deciding \in [Caller -> Frame]
    /\ mixed \in BOOLEAN

Init ==
    /\ model = Base
    /\ casts = {}
    /\ decisions = {}
    /\ deciding = [c \in Caller |-> Idle]
    /\ mixed = FALSE

\* The callers between their read of the model and the finally clause.
InWindow == {c \in Caller :
               deciding[c].at \in {"swap", "evaluate", "name", "restore"}}

At(c, l) == deciding[c].at = l
Move(c, l) == deciding' = [deciding EXCEPT ![c].at = l]

-----------------------------------------------------------------------------
(* previous_model = tools._engine._policy_model                            *)
Begin(c, i, asked) ==
    /\ At(c, "idle")
    /\ deciding' = [deciding EXCEPT ![c] =
                      [Idle EXCEPT !.at = IF asked = NoModel THEN "evaluate"
                                                             ELSE "swap",
                                   !.id = i,
                                   !.asked = asked,
                                   !.previous = model]]
    /\ mixed' = (mixed \/ \E d \in InWindow :
                              {asked, deciding[d].asked} # {NoModel})
    /\ UNCHANGED <<model, casts, decisions>>

(* An unknown name raises inside the try, so the finally clause still runs. *)
\* Mutant: whatever name the caller gives is installed.
SwapUnchecked(c) ==
    /\ At(c, "swap")
    /\ model' = deciding[c].asked
    /\ Move(c, "evaluate")
    /\ UNCHANGED <<casts, decisions, mixed>>
Swap(c) ==
    /\ At(c, "swap")
    /\ IF deciding[c].asked \in Model
       THEN model' = deciding[c].asked /\ Move(c, "evaluate")
       ELSE Move(c, "restore") /\ UNCHANGED model
    /\ UNCHANGED <<casts, decisions, mixed>>

(* engine.decide: the cast, the parent's divergence and the narrative may  *)
(* raise; then the model in force takes the decision ...                   *)
Evaluate(c) ==
    /\ At(c, "evaluate")
    /\ \/ deciding' = [deciding EXCEPT ![c].by = model, ![c].at = "name"]
       \/ Move(c, "restore")
    /\ UNCHANGED <<model, casts, decisions, mixed>>

(* ... and the attribute is read again for the name in the row.            *)
\* Mutant: the name of the base model is recorded whatever decided.
BaseIsNamed(c) ==
    /\ At(c, "name")
    /\ deciding' = [deciding EXCEPT ![c].named = Base, ![c].at = "restore"]
    /\ UNCHANGED <<model, casts, decisions, mixed>>
NameModel(c) ==
    /\ At(c, "name")
    /\ deciding' = [deciding EXCEPT ![c].named = model, ![c].at = "restore"]
    /\ UNCHANGED <<model, casts, decisions, mixed>>

\* Mutant: no finally clause; a call that raises leaves its model behind.
RestoreOnSuccess(c) ==
    /\ At(c, "restore")
    /\ IF deciding[c].named # NoModel
       THEN model' = deciding[c].previous /\ Move(c, "writecast")
       ELSE Move(c, "raised") /\ UNCHANGED model
    /\ UNCHANGED <<casts, decisions, mixed>>
Restore(c) ==
    /\ At(c, "restore")
    /\ model' = deciding[c].previous
    /\ Move(c, IF deciding[c].named # NoModel THEN "writecast" ELSE "raised")
    /\ UNCHANGED <<casts, decisions, mixed>>

(* Two transactions: the cast, then the decision that refers to it.  Each  *)
(* may fail (RuntimeError from sqlite3), and a cast already written stays. *)
WriteCast(c) ==
    /\ At(c, "writecast")
    /\ \/ casts' = casts \cup {deciding[c].id} /\ Move(c, "writedecision")
       \/ Move(c, "raised") /\ UNCHANGED casts
    /\ UNCHANGED <<model, decisions, mixed>>

Row(c) == LET f == deciding[c]
          IN  [id |-> f.id, asked |-> f.asked, by |-> f.by,
               named |-> f.named, calm |-> ~mixed]

WriteDecision(c) ==
    /\ At(c, "writedecision")
    /\ \/ /\ deciding[c].id \in casts           \* the foreign key
          /\ decisions' = decisions \cup {Row(c)}
          /\ Move(c, "returned")
       \/ Move(c, "raised") /\ UNCHANGED decisions
    /\ UNCHANGED <<model, casts, mixed>>

(* The caller takes the outcome.                                           *)
Collect(c) ==
    /\ deciding[c].at \in {"returned", "raised"}
    /\ deciding' = [deciding EXCEPT ![c] = Idle]
    /\ UNCHANGED <<model, casts, decisions, mixed>>

(* A new process builds a new engine over the same tables.                 *)
Restart ==
    /\ model' = Base
    /\ deciding' = [c \in Caller |-> Idle]
    /\ mixed' = FALSE
    /\ UNCHANGED <<casts, decisions>>

Step(c) ==
    \/ Swap(c)
    \/ Evaluate(c)
    \/ NameModel(c)
    \/ Restore(c)
    \/ WriteCast(c)
    \/ WriteDecision(c)

-----------------------------------------------------------------------------
(* Properties.                                                             *)

(* While no call that asks for a model has overlapped another call, every  *)
(* stored decision was taken by the model its caller asked for (the base   *)
(* model when it asked for none) and names that model.  Overlapping calls  *)
(* may decide with each other's model and record a third.                  *)
DecidedAsAsked ==
    \A d \in decisions :
        d.calm => /\ d.by = (IF d.asked = NoModel THEN Base ELSE d.asked)
                  /\ d.named = d.by

(* ... and whenever no call is in its window the engine is back on the     *)
(* base model, also after calls that raised.  After an overlap the model   *)
(* of a finished call may stay in force until the process ends.            *)
ModelIsRestored == InWindow = {} /\ ~mixed => model = Base
=============================================================================
