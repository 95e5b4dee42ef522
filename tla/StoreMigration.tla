--------------------------- MODULE StoreMigration ---------------------------
(***************************************************************************)
(* Opening the grimoire: Grimoire.__init__ and _run_migrations of          *)
(* grimoire/store.py, by several processes (a server, CLI commands) on one *)
(* database file, with a crash at any point.                               *)
(*                                                                         *)
(* A migration script runs by executescript, statement by statement, each  *)
(* committed on its own; its version row is a commit after that.  A script *)
(* that adds a column cannot run twice.  Of a script the model keeps       *)
(* whether its first ALTER took effect (begun) and whether all of it did   *)
(* (finished).                                                             *)
(***************************************************************************)
EXTENDS Naturals

CONSTANTS
    Process,        \* processes that open the file
    LastScript,     \* number of migration scripts
    Unrepeatable    \* the scripts that add a column

Script == 1 .. LastScript

ASSUME MigrationAssumption ==
    /\ LastScript \in Nat
    /\ Unrepeatable \subseteq Script

VARIABLES
    begun,      \* scripts whose first ALTER (or CREATE) took effect
    finished,   \* scripts all of whose statements took effect
    recorded,   \* table schema_migrations
    keyless,    \* kinds of cast rows without aspect_pattern_key
    opener      \* each process: where it is in opening the file

schema == <<begun, finished, recorded, keyless>>
storeVars == <<schema, opener>>

Phase == {"down", "migrating", "script", "recording", "open", "failed"}

\* A cast over the six canonical aspects, or one with a registered aspect.
CastKind == {"canonical", "extended"}

StoreTypeOK ==
    /\ begun \subseteq Script
    /\ finished \subseteq Script
    /\ recorded \subseteq Script
    /\ keyless \subseteq CastKind
    /\ opener \in [Process -> [phase : Phase, applied : SUBSET Script]]

\* Scripts that register_aspect and aspect_pattern_key came with.
ExtensionApi == 3
PatternKey == 6

\* A file an earlier release left behind, none at all (k = 0) included.
StoreInit ==
    \E k \in 0 .. LastScript :
        /\ begun = 1 .. k
        /\ finished = 1 .. k
        /\ recorded = 1 .. k
        /\ keyless \in SUBSET {kind \in CastKind :
                          k < PatternKey /\ k >= (IF kind = "extended" THEN ExtensionApi ELSE 1)}
        /\ opener = [p \in Process |-> [phase |-> "down", applied |-> {}]]

-----------------------------------------------------------------------------
\* The first script of the list that is not in applied.
Due(p) == CHOOSE v \in Script \ opener[p].applied :
              \A w \in Script \ opener[p].applied : v <= w

Stands(p, phase) == opener[p].phase = phase
Go(p, phase) == opener' = [opener EXCEPT ![p].phase = phase]
Pending(p) == opener[p].applied # Script

\* Mutant: a script that has begun is not run again.
AppliedWhenBegun == begun
\* SELECT version FROM schema_migrations.
Applied == recorded

\* The versions are read once, before the loop.
Open(p) ==
    /\ Stands(p, "down")
    /\ opener' = [opener EXCEPT ![p] = [phase |-> "migrating", applied |-> Applied]]
    /\ UNCHANGED schema

\* Mutant: no script may run again, a plain CREATE TABLE IF NOT EXISTS neither.
RunsOnce(v) == v \notin begun
\* "duplicate column name" ends the script, and with it the start.
Runs(v) == v \in Unrepeatable => v \notin begun

BeginScript(p) ==
    /\ Stands(p, "migrating")
    /\ Pending(p)
    /\ \/ /\ Runs(Due(p))
          /\ begun' = begun \cup {Due(p)}
          /\ Go(p, "script")
       \/ /\ ~Runs(Due(p))
          /\ Go(p, "failed")
          /\ UNCHANGED begun
    /\ UNCHANGED <<finished, recorded, keyless>>

FinishScript(p) ==
    /\ Stands(p, "script")
    /\ finished' = finished \cup {Due(p)}
    /\ Go(p, "recording")
    /\ UNCHANGED <<begun, recorded, keyless>>

\* The version row: its primary key refuses a second one.
Record(p) ==
    /\ Stands(p, "recording")
    /\ \/ /\ Due(p) \notin recorded
          /\ recorded' = recorded \cup {Due(p)}
          /\ opener' = [opener EXCEPT ![p] = [phase |-> "migrating",
                                              applied |-> @.applied \cup {Due(p)}]]
       \/ /\ Due(p) \in recorded
          /\ Go(p, "failed")
          /\ UNCHANGED recorded
    /\ UNCHANGED <<begun, finished, keyless>>

\* The registry of the process holds the six canonical aspects only.
Resolves == "extended" \notin keyless

\* _backfill_cast_aspect_pattern_keys: every row, or a KeyError.
Backfill(p) ==
    /\ Stands(p, "migrating")
    /\ ~Pending(p)
    /\ \/ /\ Resolves
          /\ keyless' = {}
          /\ Go(p, "open")
       \/ /\ ~Resolves
          /\ Go(p, "failed")
          /\ UNCHANGED keyless
    /\ UNCHANGED <<begun, finished, recorded>>

\* The process is closed, or ends by the exception of its failed start.
Exit(p) ==
    /\ opener[p].phase \in {"open", "failed"}
    /\ opener' = [opener EXCEPT ![p] = [phase |-> "down", applied |-> {}]]
    /\ UNCHANGED schema

\* The process dies while it opens the file.
Crash(p) ==
    /\ opener[p].phase \in {"migrating", "script", "recording"}
    /\ opener' = [opener EXCEPT ![p] = [phase |-> "down", applied |-> {}]]
    /\ UNCHANGED schema

OpenStep(p) == Open(p) \/ BeginScript(p) \/ FinishScript(p) \/ Record(p) \/ Backfill(p)

-----------------------------------------------------------------------------
(* Properties.                                                             *)

\* p is between the first statement of a script and its version row.
InScript(p) == opener[p].phase \in {"script", "recording"}

\* Scripts cut off before their version row, that nobody is running.
Torn == {v \in begun \ recorded : \A p \in Process : InScript(p) => Due(p) # v}

(* A version is recorded only when its whole script took effect, and no    *)
(* process serves a file that misses a statement of a script or the key of *)
(* a cast: whatever was cut off, repeated, or run by another process.      *)
ServedSchemaIsWhole ==
    /\ recorded \subseteq finished
    /\ \A p \in Process : Stands(p, "open") => finished = Script /\ keyless = {}

\* Script v of the start of p has been taken, or is being taken, by another.
Contended(p) ==
    \/ Due(p) \in recorded
    \/ \E q \in Process \ {p} : InScript(q) /\ Due(q) = Due(p)

(* Opening fails for one of three reasons: an ALTER script was cut off     *)
(* before its version row, another process migrates the file at the same   *)
(* time, or an old cast names a registered aspect.                         *)
OpenFailsForAReason ==
    \A p \in Process :
        opener[p].phase \in {"migrating", "recording"} /\ Stands(p, "failed")' =>
            \/ Pending(p) /\ (Due(p) \in Torn \cap Unrepeatable \/ Contended(p))
            \/ ~Pending(p) /\ "extended" \in keyless

(* An ALTER script that was cut off stays so, and no start gets past it    *)
(* any more: the file is out of service for good.                          *)
TornIsFinal ==
    [][Torn \cap Unrepeatable # {} =>
          /\ Torn \cap Unrepeatable \subseteq Torn'
          /\ \A p \in Process : Stands(p, "open")' => Stands(p, "open")]_storeVars
=============================================================================
