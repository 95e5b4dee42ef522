----------------------------- MODULE SigilTable -----------------------------
(***************************************************************************)
(* Registered sigils: the composition table in the memory of each process, *)
(* the table registered_sigils, the register_sigil tool and the load at a  *)
(* start (mcp/tools/registry.py, engine/composition.py, bootstrap.py).     *)
(*                                                                         *)
(* A pattern is a set of aspects; some have a canonical sigil from the     *)
(* data files.  A sigil row is keyed by its name, the composition table by *)
(* the pattern.                                                            *)
(***************************************************************************)
EXTENDS AspectRegistry

CONSTANTS
    Pattern,        \* sets of aspects a sigil may have
    Canonical,      \* those with a sigil from the data files
    Needs,          \* the registered aspects of each pattern
    SigilName,
    NoSigil, DataFile

ASSUME SigilAssumption ==
    /\ Canonical \subseteq Pattern
    /\ Needs \in [Pattern -> SUBSET Name]
    /\ {NoSigil, DataFile} \cap SigilName = {}
    /\ NoSigil # DataFile

VARIABLES
    sigils,         \* memory of each process: CompositionEngine._table
    sigilRows,      \* table registered_sigils, oldest first
    writing,        \* the row each register_sigil call still has to write
    contested       \* history: a pattern got a second sigil, or a name a second pattern

sigilVars == <<sigils, sigilRows, writing, contested>>

SigilRow == [name : SigilName, pattern : Pattern, override : BOOLEAN]
NoRow == [name |-> NoSigil]

\* An entry of the composition table: stated when it carries the
\* contradiction severity the caller gave; the default is used otherwise.
Entry(name, stated) == [name |-> name, stated |-> stated]
DataTable == [x \in Pattern |-> Entry(IF x \in Canonical THEN DataFile ELSE NoSigil, FALSE)]

SigilInit ==
    /\ sigils = [p \in Process |-> DataTable]
    /\ sigilRows = << >>
    /\ writing = [c \in Caller |-> NoRow]
    /\ contested = FALSE

-----------------------------------------------------------------------------
\* register_sigil_entry: a taken pattern needs allow_override.
Admits(table, row) == table[row.pattern].name # NoSigil => row.override

\* registry.resolve of every aspect.
Resolvable(row, names) == Needs[row.pattern] \subseteq names

Stored == ToSet(sigilRows) \cup {writing[c] : c \in {d \in Caller : At(d, "sigil")}}

\* Memory first; the entry leaves contradiction_severity out.
PutSigil(c, row, serving) ==
    /\ At(c, "idle")
    /\ Resolvable(row, named[Here(c)])
    /\ Admits(sigils[Here(c)], row)
    /\ Count
    /\ sigils' = [sigils EXCEPT ![Here(c)][row.pattern] = Entry(row.name, FALSE)]
    /\ writing' = [writing EXCEPT ![c] = row]
    /\ frame' = [frame EXCEPT ![c] = [Idle EXCEPT !.pc = "sigil", !.verb = "sigil"]]
    /\ contested' = (contested \/ \E r \in Stored : r.name = row.name \/ r.pattern = row.pattern)
    /\ strain' = strain \cup (IF serving \ {Here(c)} # {} THEN {"foreign"} ELSE {})
    /\ UNCHANGED <<memory, aspectTables, sigilRows>>

\* Mutant: is_override is not written.
WithoutOverride(c) == [writing[c] EXCEPT !.override = FALSE]
NewRow(c) == writing[c]

\* The rows that stay: the name is the primary key.
OtherRows(name) ==
    LET at == {i \in DOMAIN sigilRows : sigilRows[i].name = name}
    IN  IF at = {} THEN sigilRows ELSE RemoveAt(sigilRows, Max(at))

\* INSERT OR REPLACE: the row moves to the end; or the write fails.
WriteSigil(c) ==
    /\ At(c, "sigil")
    /\ \/ /\ sigilRows' = Append(OtherRows(writing[c].name), NewRow(c))
          /\ UNCHANGED strain
       \/ /\ strain' = strain \cup {"failed"}
          /\ UNCHANGED sigilRows
    /\ writing' = [writing EXCEPT ![c] = NoRow]
    /\ Return(c)
    /\ UNCHANGED <<memory, aspectTables, calls, sigils, contested>>

-----------------------------------------------------------------------------
(* The sigil part of build_tools: ORDER BY registered_at DESC.             *)

LoadOrder == Reverse(sigilRows)

\* The composition table after the first i rows of the load: of the rows
\* with one pattern the last stays.
Loaded(i) ==
    [x \in Pattern |->
        LET at == {j \in 1 .. i : LoadOrder[j].pattern = x}
        IN  IF at = {} THEN DataTable[x] ELSE Entry(LoadOrder[Max(at)].name, TRUE)]

\* An unknown aspect or a taken pattern ends the start.
Loads(names) ==
    \A i \in DOMAIN LoadOrder :
        /\ Resolvable(LoadOrder[i], names)
        /\ Admits(Loaded(i - 1), LoadOrder[i])

SigilStep(c, serving) ==
    \/ \E row \in SigilRow : PutSigil(c, row, serving)
    \/ WriteSigil(c)
=============================================================================
