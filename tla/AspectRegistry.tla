--------------------------- MODULE AspectRegistry ---------------------------
(***************************************************************************)
(* The registered aspects: the registry in the memory of each process      *)
(* (schema/_legacy.py, registry.py), the tables registered_aspects and     *)
(* basis_versions, the register_aspect tool, the load at a start           *)
(* (bootstrap.py) and the reference vectors the embedding backend caches   *)
(* by basis version (engine/projection_backends.py).                       *)
(*                                                                         *)
(* An aspect is its name.  The six canonical aspects come first in every   *)
(* order and are left out, so an ordinal here is 1 for the seventh one.    *)
(* A call belongs to one process; processes share the database file only.  *)
(***************************************************************************)
EXTENDS StoreMigration, Integers, FiniteSets, SequencesExt

CONSTANTS
    Caller,         \* threads of those processes
    Home,           \* the process of each thread: a server, a CLI command
    Name,           \* names of registered aspects
    NoName,
    MaxCalls,       \* bound on the calls made
    MaxEmbeds       \* bound on the rebuilds of reference vectors

ASSUME RegistryAssumption ==
    /\ Home \in [Caller -> Process]
    /\ NoName \notin Name
    /\ {MaxCalls, MaxEmbeds} \subseteq Nat

VARIABLES
    order,          \* memory of each process: _REGISTERED_ASPECTS
    basis,          \* memory of each process: _BASIS_VERSION
    named,          \* memory of each process: registered names in _by_name
    reference,      \* memory of each process: the cached reference vectors
    aspectRows,     \* table registered_aspects
    latest,         \* largest version in table basis_versions
    frame,          \* the call each thread makes
    calls,          \* numbers of calls made, and of rebuilds
    strain,         \* history: what has gone wrong with a registration
    raced           \* history: processes two of whose rebuilds overlapped

memory == <<order, basis, named, reference, raced>>
aspectTables == <<aspectRows, latest>>
registryVars == <<memory, aspectTables, frame, calls, strain>>

Pc == {"idle", "propose", "check", "register", "append", "bump", "index", "number", "read",
       "insert", "publish", "decide", "embed", "stamp", "sigil"}
Idle == [pc |-> "idle", verb |-> "none", name |-> NoName, ordinal |-> 0, version |-> 0,
         known |-> {}]
Trouble == {"failed", "overlapped", "foreign"}
NoVersion == -1     \* _cached_basis_version is None
NoReference == [basis |-> NoVersion, names |-> {}]

\* Script that basis_versions came with; it inserts version 0.
BasisVersions == 13

\* The file may hold an aspect an earlier release registered, with or
\* without a basis version of its own.
RegistryInit ==
    /\ order = [p \in Process |-> << >>]
    /\ basis = [p \in Process |-> 0]
    /\ named = [p \in Process |-> {}]
    /\ raced = {}
    /\ reference = [p \in Process |-> NoReference]
    /\ aspectRows \in {{}} \cup (IF ExtensionApi \in recorded
                                THEN {{[name |-> n, ordinal |-> 1]} : n \in Name} ELSE {})
    /\ "extended" \in keyless => aspectRows # {}
    /\ latest \in {0} \cup (IF BasisVersions \in recorded THEN {Cardinality(aspectRows)} ELSE {})
    /\ frame = [c \in Caller |-> Idle]
    /\ calls = [made |-> 0, rebuilds |-> 0]
    /\ strain = {}

-----------------------------------------------------------------------------
(* A start and an end of a process.                                        *)

\* What ORDER BY ordinal may return: rows with one ordinal in any order.
Listings ==
    {s \in SetToSeqs(aspectRows) :
        \A i, j \in DOMAIN s : i < j => s[i].ordinal <= s[j].ordinal}

\* The registry part of build_tools: every row, then the latest version.
LoadAspects(p) ==
    /\ \E s \in Listings : order' = [order EXCEPT ![p] = [i \in DOMAIN s |-> s[i].name]]
    /\ named' = [named EXCEPT ![p] = {row.name : row \in aspectRows}]
    /\ basis' = [basis EXCEPT ![p] = latest]

\* In the memory of its process, and without its row.
Unwritten(c) == frame[c].pc \in {"bump", "index", "number", "read", "insert"}
Registering(c) == Unwritten(c) \/ frame[c].pc \in {"append", "publish"}
Embedding(c) == frame[c].pc \in {"embed", "stamp"}

\* The memory of a process goes, and with it the calls it was serving.
Forget(p) ==
    /\ order' = [order EXCEPT ![p] = << >>]
    /\ basis' = [basis EXCEPT ![p] = 0]
    /\ named' = [named EXCEPT ![p] = {}]
    /\ raced' = raced \ {p}
    /\ reference' = [reference EXCEPT ![p] = NoReference]
    /\ frame' = [c \in Caller |-> IF Home[c] = p THEN Idle ELSE frame[c]]
    /\ strain' = strain \cup
           (IF \E c \in Caller : Home[c] = p /\ Unwritten(c) THEN {"failed"} ELSE {})

-----------------------------------------------------------------------------
(* tool_register_aspect; accept_emergent_aspect runs the same steps.       *)

At(c, pc) == frame[c].pc = pc
Goto(c, pc) == frame' = [frame EXCEPT ![c].pc = pc]
Return(c) == frame' = [frame EXCEPT ![c] = Idle]
Here(c) == Home[c]

\* A call begins: the bound on calls is the model's.
Count == calls.made < MaxCalls /\ calls' = [calls EXCEPT !.made = @ + 1]

BeginRegister(c, n) ==
    /\ At(c, "idle")
    /\ Count
    /\ frame' = [frame EXCEPT ![c] = [Idle EXCEPT !.pc = "register", !.verb = "register",
                                                   !.name = n]]
    /\ UNCHANGED <<memory, aspectTables, strain>>

Known(p) == ToSet(order[p])

\* Trouble a registration by c meets: another call is at it, or the table
\* holds what this process has not loaded, or another process serves.
Meets(c, serving) ==
    (IF \E d \in Caller \ {c} : Registering(d) THEN {"overlapped"} ELSE {}) \cup
    (IF serving \ {Here(c)} # {} THEN {"foreign"} ELSE {})

(* AspectRegistry.register: four statements, and nothing is locked.        *)

\* schema.register_aspect looks the name up; it raises when it is there.
Register(c, serving) ==
    /\ At(c, "register")
    /\ \/ /\ frame[c].name \in Known(Here(c))
          /\ Return(c)
          /\ UNCHANGED strain
       \/ /\ frame[c].name \notin Known(Here(c))
          /\ strain' = strain \cup Meets(c, serving)
          /\ Goto(c, "append")
    /\ UNCHANGED <<memory, aspectTables, calls>>

\* From here every projection has one more dimension.
AppendAspect(c) ==
    /\ At(c, "append")
    /\ order' = [order EXCEPT ![Here(c)] = Append(@, frame[c].name)]
    /\ Goto(c, "bump")
    /\ UNCHANGED <<basis, named, reference, raced, aspectTables, calls, strain>>

BumpVersion(c) ==
    /\ At(c, "bump")
    /\ basis' = [basis EXCEPT ![Here(c)] = @ + 1]
    /\ Goto(c, "index")
    /\ UNCHANGED <<order, named, reference, raced, aspectTables, calls, strain>>

IndexAspect(c) ==
    /\ At(c, "index")
    /\ named' = [named EXCEPT ![Here(c)] = @ \cup {frame[c].name}]
    /\ Goto(c, "number")
    /\ UNCHANGED <<order, basis, reference, raced, aspectTables, calls, strain>>

\* ordinal = registry.dimensionality - 1.
Number(c) ==
    /\ At(c, "number")
    /\ frame' = [frame EXCEPT ![c] = [@ EXCEPT !.pc = "read", !.ordinal = Len(order[Here(c)])]]
    /\ UNCHANGED <<memory, aspectTables, calls, strain>>

ReadVersion(c) ==
    /\ At(c, "read")
    /\ frame' = [frame EXCEPT ![c] = [@ EXCEPT !.pc = "insert", !.version = latest + 1]]
    /\ UNCHANGED <<memory, aspectTables, calls, strain>>

HasRow(n) == \E row \in aspectRows : row.name = n
Larger(a, b) == IF a < b THEN b ELSE a

\* Mutant: the ordinal is the one of the last row.
CountedRow(c) == [name |-> frame[c].name, ordinal |-> Cardinality(aspectRows)]
Row(c) == [name |-> frame[c].name, ordinal |-> frame[c].ordinal]

\* Both rows, one commit; the name is the primary key.  When the write
\* fails the call raises, and memory keeps the aspect.
InsertAspect(c) ==
    /\ At(c, "insert")
    /\ \/ /\ ~HasRow(frame[c].name)
          /\ aspectRows' = aspectRows \cup {Row(c)}
          /\ latest' = Larger(latest, frame[c].version)
          /\ Goto(c, "publish")
          /\ UNCHANGED strain
       \/ /\ Return(c)
          /\ strain' = strain \cup {"failed"}
          /\ UNCHANGED aspectTables
    /\ UNCHANGED <<memory, calls>>

\* The tool returns; an accept goes on to write its decision.
Publish(c) ==
    /\ At(c, "publish")
    /\ basis' = [basis EXCEPT ![Here(c)] = frame[c].version]
    /\ IF frame[c].verb = "accept" THEN Goto(c, "decide") ELSE Return(c)
    /\ UNCHANGED <<order, named, reference, raced, aspectTables, calls, strain>>

-----------------------------------------------------------------------------
(* EmbeddingBackend._ensure_reference_vectors, before every projection.    *)

Fresh(p) == reference[p].basis = basis[p] /\ reference[p].names # {}

\* A projection that finds the cache stale rebuilds it, alone or not.
BeginEmbed(c) ==
    /\ At(c, "idle")
    /\ calls.rebuilds < MaxEmbeds
    /\ calls' = [calls EXCEPT !.rebuilds = @ + 1]
    /\ ~Fresh(Here(c))
    /\ frame' = [frame EXCEPT ![c] = [Idle EXCEPT !.pc = "embed", !.version = basis[Here(c)]]]
    /\ raced' = raced \cup {Home[d] : d \in {e \in Caller : Home[e] = Here(c) /\ Embedding(e)}}
    /\ UNCHANGED <<order, basis, named, reference, aspectTables, strain>>

\* full_order, after the version; NoName stands for the canonical texts.
ReadTexts(c) ==
    /\ At(c, "embed")
    /\ frame[c].known = {}
    /\ frame' = [frame EXCEPT ![c].known = Known(Here(c)) \cup {NoName}]
    /\ UNCHANGED <<memory, aspectTables, calls, strain>>

\* Two assignments: the vectors, then the version they are for.
StoreVectors(c) ==
    /\ At(c, "embed")
    /\ frame[c].known # {}
    /\ reference' = [reference EXCEPT ![Here(c)].names = frame[c].known]
    /\ Goto(c, "stamp")
    /\ UNCHANGED <<order, basis, named, raced, aspectTables, calls, strain>>

\* Mutant: the cache is stamped with the version there is by now.
StampedLate(c) == basis[Here(c)]
Stamped(c) == frame[c].version

StampVectors(c) ==
    /\ At(c, "stamp")
    /\ reference' = [reference EXCEPT ![Here(c)].basis = Stamped(c)]
    /\ Return(c)
    /\ UNCHANGED <<order, basis, named, raced, aspectTables, calls, strain>>

RegistryStep(c, serving) ==
    \/ \E n \in Name : BeginRegister(c, n)
    \/ Register(c, serving) \/ AppendAspect(c) \/ BumpVersion(c) \/ IndexAspect(c)
    \/ Number(c) \/ ReadVersion(c) \/ InsertAspect(c) \/ Publish(c)
    \/ BeginEmbed(c) \/ ReadTexts(c) \/ StoreVectors(c) \/ StampVectors(c)
=============================================================================
