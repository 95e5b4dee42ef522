------------------------ MODULE VermythProcessProofs ------------------------
(***************************************************************************)
(* Theorems about VermythProcess, for every number of processes, threads,  *)
(* migration scripts, aspects, sigils and calls.                           *)
(*                                                                         *)
(* The file: a script number gets into schema_migrations only behind the   *)
(* whole script, and a process serves only when it has seen every number.  *)
(* What it serves then leaves the schema alone.                            *)
(*                                                                         *)
(* The proposals: an accept decides only when its aspect is in the memory  *)
(* of its process.  Whatever is in the memory of some process, by its      *)
(* order or by its index, is Backed: it has a row, or the call that put it *)
(* there is still to write one, or that write failed.  Being Backed is for *)
(* good, so a decision written late, or the copy of a decision that a      *)
(* slower review writes back, is as good as an early one.                  *)
(*                                                                         *)
(* The basis: the version a process has, and the one every call of it has  *)
(* read, is dated by the aspects it knew then, so vectors stamped with a   *)
(* version cover the aspects of that version, once it has followed them.   *)
(* A rebuild that is alone puts vectors under an older stamp than theirs,  *)
(* which no projection takes for the version of now.                       *)
(*                                                                         *)
(* The positions: the rows are numbered without a gap, so a start can list *)
(* them in one order only, the one the processes already have.             *)
(***************************************************************************)
EXTENDS VermythProcess, FiniteSetTheorems, SequenceTheorems, WellFoundedInduction,
        TLAPS

-----------------------------------------------------------------------------
(* Numbers.                                                                *)

(* A set of numbers that is not empty has a least one: the next script of  *)
(* a migration, the first place that is free.                              *)
LEMMA LeastNumber ==
    ASSUME NEW T \in SUBSET Nat, T # {}
    PROVE  \E x \in T : \A y \in T : x <= y
<1> DEFINE R == OpToRel(<, Nat)
<1>1. IsWellFoundedOn(R, Nat)
    BY NatLessThanWellFounded
<1>2. PICK x \in T : \A y \in T : ~ (<<y, x>> \in R)
    <2> HIDE DEF R
    <2> QED BY <1>1, WFMin
<1>3. \A y \in T : ~ (y < x)
    BY <1>2 DEF OpToRel
<1> QED BY <1>3

-----------------------------------------------------------------------------
(* The schema.                                                             *)

\* What a process knows of the scripts while it opens the file.
OpenerInv(p) ==
    /\ opener[p].applied \subseteq recorded
    /\ InScript(p) => Pending(p)
    /\ Stands(p, "recording") => Due(p) \in finished
    /\ Stands(p, "open") => finished = Script /\ keyless = {}

SchemaInv ==
    /\ StoreTypeOK
    /\ recorded \subseteq finished
    /\ \A p \in Process : OpenerInv(p)

(* The script that is due is one of the list, and not applied.             *)
LEMMA DueIsPending ==
    ASSUME StoreTypeOK, NEW p \in Process, Pending(p)
    PROVE  Due(p) \in Script \ opener[p].applied
<1>1. opener[p].applied \subseteq Script
    BY DEF StoreTypeOK
<1>2. Script \ opener[p].applied # {}
    BY <1>1 DEF Pending
<1>n. Script \ opener[p].applied \in SUBSET Nat
    BY MigrationAssumption DEF Script
<1>3. \E v \in Script \ opener[p].applied : \A w \in Script \ opener[p].applied : v <= w
    BY <1>2, <1>n, LeastNumber
<1> QED BY <1>3 DEF Due

(* A file of an earlier release, or none.                                  *)
LEMMA InitSchemaInv == ASSUME StoreInit PROVE SchemaInv
<1>1. PICK k \in 0 .. LastScript :
        /\ begun = 1 .. k /\ finished = 1 .. k /\ recorded = 1 .. k
        /\ keyless \subseteq CastKind
        /\ opener = [p \in Process |-> [phase |-> "down", applied |-> {}]]
    BY DEF StoreInit
<1>2. 1 .. k \subseteq Script
    BY <1>1, MigrationAssumption DEF Script
<1>3. StoreTypeOK
    BY <1>1, <1>2 DEF StoreTypeOK, Phase
<1>4. \A p \in Process : opener[p].phase = "down" /\ opener[p].applied = {}
    BY <1>1
<1>5. \A p \in Process : OpenerInv(p)
    BY <1>4 DEF OpenerInv, InScript, Stands
<1> QED BY <1>1, <1>3, <1>5 DEF SchemaInv

\* A step of p changes the record of p only.
Moved(p, phase, applied) ==
    /\ opener' \in [Process -> [phase : Phase, applied : SUBSET Script]]
    /\ opener'[p].phase = phase
    /\ opener'[p].applied = applied
    /\ \A q \in Process \ {p} : opener'[q] = opener[q]

(* Most steps change the phase and leave what is applied.                  *)
LEMMA GoMoves ==
    ASSUME StoreTypeOK, NEW p \in Process, NEW phase \in Phase, Go(p, phase)
    PROVE  Moved(p, phase, opener[p].applied)
<1>1. opener' = [opener EXCEPT ![p] = [opener[p] EXCEPT !.phase = phase]]
    BY DEF Go
<1>2. [opener[p] EXCEPT !.phase = phase] = [phase |-> phase, applied |-> opener[p].applied]
    BY DEF StoreTypeOK
<1> QED BY <1>1, <1>2 DEF Moved, StoreTypeOK

(* What a step must keep: the file only gains scripts and loses no key it  *)
(* has, the types stay, and p knows what it may know where it is now.      *)
LEMMA MovedInv ==
    ASSUME SchemaInv, NEW p \in Process, NEW phase, NEW applied, Moved(p, phase, applied),
           begun' \subseteq Script, finished' \subseteq Script,
           finished \subseteq finished', recorded \subseteq recorded',
           recorded' \subseteq finished', keyless' \subseteq keyless,
           applied \subseteq recorded',
           phase \in {"script", "recording"} => applied # Script,
           phase = "recording" => applied = opener[p].applied /\ Due(p) \in finished',
           phase = "open" => finished' = Script /\ keyless' = {}
    PROVE  SchemaInv'
<1>1. StoreTypeOK'
    BY DEF SchemaInv, StoreTypeOK, Moved
<1>2. OpenerInv(p)'
    <2>1. phase = "recording" => Due(p)' \in finished'
        BY DEF Moved, Due
    <2> QED BY <2>1 DEF OpenerInv, Moved, InScript, Stands, Pending
<1>3. ASSUME NEW q \in Process \ {p} PROVE OpenerInv(q)'
    <2>1. OpenerInv(q) /\ opener'[q] = opener[q]
        BY DEF SchemaInv, Moved
    <2>2. finished \subseteq Script
        BY DEF SchemaInv, StoreTypeOK
    <2> QED BY <2>1, <2>2 DEF OpenerInv, InScript, Stands, Pending, Due
<1> QED BY <1>1, <1>2, <1>3 DEF SchemaInv

(* One step of opening the file, a crash or an end.                        *)
LEMMA OpenStepInv ==
    ASSUME SchemaInv, NEW p \in Process, OpenStep(p)
    PROVE  SchemaInv'
<1>t. /\ StoreTypeOK /\ OpenerInv(p) /\ recorded \subseteq finished
      /\ begun \subseteq Script /\ finished \subseteq Script
    BY DEF SchemaInv, StoreTypeOK
<1>p. {"migrating", "script", "recording", "open", "failed"} \subseteq Phase
    BY DEF Phase
<1>1. CASE Open(p)
    <2>1. Moved(p, "migrating", recorded)
        BY <1>1, <1>t, <1>p DEF Open, Applied, Moved, StoreTypeOK
    <2> QED BY <1>1, <1>t, <2>1, MovedInv DEF Open, schema
<1>2. CASE BeginScript(p)
    <2>d. Due(p) \in Script /\ opener[p].applied # Script
        BY <1>2, <1>t, DueIsPending DEF BeginScript, Pending
    <2>1. CASE Go(p, "script") /\ begun' = begun \cup {Due(p)}
        <3>1. Moved(p, "script", opener[p].applied)
            BY <2>1, <1>t, <1>p, GoMoves
        <3> QED BY <1>2, <1>t, <2>1, <2>d, <3>1, MovedInv DEF BeginScript, OpenerInv
    <2>2. CASE Go(p, "failed") /\ UNCHANGED begun
        <3>1. Moved(p, "failed", opener[p].applied)
            BY <2>2, <1>t, <1>p, GoMoves
        <3> QED BY <1>2, <1>t, <2>2, <3>1, MovedInv DEF BeginScript, OpenerInv
    <2> QED BY <1>2, <2>1, <2>2 DEF BeginScript
<1>3. CASE FinishScript(p)
    <2>d. opener[p].applied # Script /\ Due(p) \in Script
        BY <1>3, <1>t, DueIsPending DEF FinishScript, Pending, OpenerInv, InScript, Stands
    <2>1. Moved(p, "recording", opener[p].applied)
        BY <1>3, <1>t, <1>p, GoMoves DEF FinishScript
    <2> QED BY <1>3, <1>t, <2>d, <2>1, MovedInv DEF FinishScript, OpenerInv
<1>4. CASE Record(p)
    <2>d. Due(p) \in finished
        BY <1>4, <1>t DEF Record, OpenerInv
    <2>1. CASE /\ recorded' = recorded \cup {Due(p)}
               /\ opener' = [opener EXCEPT ![p] = [phase |-> "migrating",
                                                   applied |-> @.applied \cup {Due(p)}]]
        <3>1. Moved(p, "migrating", opener[p].applied \cup {Due(p)})
            BY <2>1, <1>t, <1>p, <2>d DEF Moved, StoreTypeOK
        <3> QED BY <1>4, <1>t, <2>1, <2>d, <3>1, MovedInv DEF Record, OpenerInv
    <2>2. CASE Go(p, "failed") /\ UNCHANGED recorded
        <3>1. Moved(p, "failed", opener[p].applied)
            BY <2>2, <1>t, <1>p, GoMoves
        <3> QED BY <1>4, <1>t, <2>2, <3>1, MovedInv DEF Record, OpenerInv
    <2> QED BY <1>4, <2>1, <2>2 DEF Record
<1>5. CASE Backfill(p)
    <2>1. CASE Go(p, "open") /\ keyless' = {}
        <3>1. Moved(p, "open", opener[p].applied)
            BY <2>1, <1>t, <1>p, GoMoves
        <3>2. finished = Script
            BY <1>5, <1>t DEF Backfill, Pending, OpenerInv
        <3> QED BY <1>5, <1>t, <2>1, <3>1, <3>2, MovedInv DEF Backfill, OpenerInv
    <2>2. CASE Go(p, "failed") /\ UNCHANGED keyless
        <3>1. Moved(p, "failed", opener[p].applied)
            BY <2>2, <1>t, <1>p, GoMoves
        <3> QED BY <1>5, <1>t, <2>2, <3>1, MovedInv DEF Backfill, OpenerInv
    <2> QED BY <1>5, <2>1, <2>2 DEF Backfill
<1> QED BY <1>1, <1>2, <1>3, <1>4, <1>5 DEF OpenStep

(* The process is gone.                                                    *)
LEMMA DownInv ==
    ASSUME SchemaInv, NEW p \in Process, Exit(p) \/ Crash(p)
    PROVE  SchemaInv'
<1>1. Moved(p, "down", {})
    BY DEF SchemaInv, StoreTypeOK, Exit, Crash, Moved, Phase
<1>2. /\ begun \subseteq Script /\ finished \subseteq Script
      /\ recorded \subseteq finished
    BY DEF SchemaInv, StoreTypeOK
<1> QED BY <1>1, <1>2, MovedInv DEF Exit, Crash, schema

(* A boot that fails leaves the file as it is.                             *)
LEMMA BootFailsInv ==
    ASSUME SchemaInv, NEW p \in Process, Go(p, "failed"), UNCHANGED schema
    PROVE  SchemaInv'
<1>1. Moved(p, "failed", opener[p].applied)
    BY GoMoves DEF SchemaInv, Phase
<1>2. /\ begun \subseteq Script /\ finished \subseteq Script
      /\ recorded \subseteq finished /\ opener[p].applied \subseteq recorded
    BY DEF SchemaInv, StoreTypeOK, OpenerInv
<1> QED BY <1>1, <1>2, MovedInv DEF schema

LEMMA NextSchemaInv ==
    ASSUME SchemaInv, [Next]_vars
    PROVE  SchemaInv'
<1>1. CASE UNCHANGED storeVars
    BY <1>1 DEF SchemaInv, StoreTypeOK, OpenerInv, InScript, Stands, Pending, Due,
                storeVars, schema
<1>2. ASSUME NEW p \in Process, Migrate(p) PROVE SchemaInv'
    BY <1>2, OpenStepInv, DownInv DEF Migrate
<1>3. ASSUME NEW p \in Process, Boot(p) PROVE SchemaInv'
    BY <1>3, <1>1, BootFailsInv DEF Boot, storeVars
<1>4. ASSUME NEW p \in Process, End(p) PROVE SchemaInv'
    BY <1>4, DownInv DEF End
<1>5. ASSUME NEW c \in Caller, Serve(c) PROVE SchemaInv'
    BY <1>5, <1>1 DEF Serve
<1>6. CASE UNCHANGED vars
    BY <1>6, <1>1 DEF vars, storeVars
<1> QED BY <1>2, <1>3, <1>4, <1>5, <1>6 DEF Next

(* ServedSchemaIsWhole for every number of processes and scripts: no crash *)
(* between a script and its version row, and no second process, makes      *)
(* Grimoire._run_migrations serve a file with a statement missing.         *)
THEOREM ServedSchema == Spec => []ServedSchemaIsWhole
<1>1. Init => SchemaInv
    BY InitSchemaInv DEF Init
<1>2. SchemaInv /\ [Next]_vars => SchemaInv'
    BY NextSchemaInv
<1>3. SchemaInv => ServedSchemaIsWhole
    BY DEF SchemaInv, OpenerInv, ServedSchemaIsWhole
<1> QED BY <1>1, <1>2, <1>3, PTL DEF Spec

(* TornIsFinal for every number of processes and scripts: an upgrade that  *)
(* died inside an ALTER script, behind which _run_migrations wrote no      *)
(* version row, leaves a file that no later start can open.                *)
THEOREM TornForGood == Spec => TornIsFinal
<1>1. Init => SchemaInv
    BY InitSchemaInv DEF Init
<1>2. SchemaInv /\ [Next]_vars => SchemaInv'
    BY NextSchemaInv
<1> DEFINE Kept == Torn \cap Unrepeatable # {} =>
                      /\ Torn \cap Unrepeatable \subseteq Torn'
                      /\ \A p \in Process : Stands(p, "open")' => Stands(p, "open")
<1>3. ASSUME SchemaInv, [Next]_vars PROVE Kept \/ UNCHANGED storeVars
    <2>t. /\ StoreTypeOK /\ \A p \in Process : OpenerInv(p)
        BY <1>3 DEF SchemaInv
    <2>1. ASSUME NEW p \in Process, NEW phase, NEW applied, Moved(p, phase, applied),
                 begun \subseteq begun', NEW v \in Torn \cap Unrepeatable, v \notin recorded',
                 phase \in {"script", "recording"} =>
                     applied = opener[p].applied /\ (InScript(p) \/ Due(p) # v)
          PROVE  v \in Torn'
        <3>1. v \in begun' \ recorded' /\ \A q \in Process : InScript(q) => Due(q) # v
            BY <2>1 DEF Torn
        <3>2. ASSUME NEW q \in Process, InScript(q)' PROVE Due(q)' # v
            <4>1. CASE q = p
                <5>1. phase \in {"script", "recording"}
                    BY <2>1, <3>2, <4>1 DEF InScript, Moved
                <5>2. Due(q)' = Due(q)
                    BY <2>1, <4>1, <5>1 DEF Moved, Due
                <5> QED BY <2>1, <3>1, <4>1, <5>1, <5>2
            <4>2. CASE q # p
                <5>1. opener'[q] = opener[q]
                    BY <2>1, <4>2 DEF Moved
                <5>2. Due(q)' = Due(q) /\ InScript(q)
                    BY <3>2, <5>1 DEF Due, InScript
                <5> QED BY <3>1, <5>2
            <4> QED BY <4>1, <4>2
        <3> QED BY <3>1, <3>2 DEF Torn
    <2>2. ASSUME NEW p \in Process, NEW phase, NEW applied, Moved(p, phase, applied),
                 phase # "open"
          PROVE  \A q \in Process : Stands(q, "open")' => Stands(q, "open")
        BY <2>2 DEF Moved, Stands
    <2>p. {"down", "migrating", "script", "recording", "open", "failed"} \subseteq Phase
        BY DEF Phase
    <2>3. ASSUME NEW p \in Process, Open(p) PROVE Kept
        <3>1. Moved(p, "migrating", recorded)
            BY <2>3, <2>t, <2>p DEF Open, Applied, Moved, StoreTypeOK
        <3> QED BY <2>3, <3>1, <2>1, <2>2 DEF Open, schema, Torn
    <2>4. ASSUME NEW p \in Process, BeginScript(p) PROVE Kept
        <3>1. CASE Go(p, "script") /\ Runs(Due(p)) /\ begun' = begun \cup {Due(p)}
            <4>1. Moved(p, "script", opener[p].applied)
                BY <3>1, <2>t, <2>p, GoMoves
            <4>2. \A v \in Torn \cap Unrepeatable : Due(p) # v
                BY <3>1 DEF Torn, Runs
            <4> QED BY <2>4, <3>1, <4>1, <4>2, <2>1, <2>2 DEF BeginScript, Torn
        <3>2. CASE Go(p, "failed") /\ UNCHANGED begun
            <4>1. Moved(p, "failed", opener[p].applied)
                BY <3>2, <2>t, <2>p, GoMoves
            <4> QED BY <2>4, <3>2, <4>1, <2>1, <2>2 DEF BeginScript, Torn
        <3> QED BY <2>4, <3>1, <3>2 DEF BeginScript
    <2>5. ASSUME NEW p \in Process, FinishScript(p) PROVE Kept
        <3>1. Moved(p, "recording", opener[p].applied)
            BY <2>5, <2>t, <2>p, GoMoves DEF FinishScript
        <3>2. InScript(p)
            BY <2>5 DEF FinishScript, InScript, Stands
        <3> QED BY <2>5, <3>1, <3>2, <2>1, <2>2 DEF FinishScript, Torn
    <2>6. ASSUME NEW p \in Process, Record(p) PROVE Kept
        <3>d. \A v \in Torn : Due(p) # v
            BY <2>6 DEF Record, Torn, InScript, Stands
        <3>1. CASE /\ recorded' = recorded \cup {Due(p)}
                   /\ opener' = [opener EXCEPT ![p] = [phase |-> "migrating",
                                                       applied |-> @.applied \cup {Due(p)}]]
            <4>1. Due(p) \in Script
                BY <2>6, <2>t, DueIsPending DEF Record, OpenerInv, InScript, Stands
            <4>2. Moved(p, "migrating", opener[p].applied \cup {Due(p)})
                BY <3>1, <2>t, <2>p, <4>1 DEF Moved, StoreTypeOK
            <4> QED BY <2>6, <3>1, <3>d, <4>2, <2>1, <2>2 DEF Record, Torn
        <3>2. CASE Go(p, "failed") /\ UNCHANGED recorded
            <4>1. Moved(p, "failed", opener[p].applied)
                BY <3>2, <2>t, <2>p, GoMoves
            <4> QED BY <2>6, <3>2, <4>1, <2>1, <2>2 DEF Record, Torn
        <3> QED BY <2>6, <3>1, <3>2 DEF Record
    <2>7. ASSUME NEW p \in Process, Backfill(p) PROVE Kept
        \* All scripts are recorded: nothing is torn.
        <3>1. recorded = Script
            BY <2>7, <2>t DEF Backfill, Pending, OpenerInv, StoreTypeOK
        <3>2. Torn = {}
            BY <3>1, <2>t DEF Torn, StoreTypeOK
        <3> QED BY <3>2
    <2>8. ASSUME NEW p \in Process, Exit(p) \/ Crash(p) PROVE Kept
        <3>1. Moved(p, "down", {})
            BY <2>8, <2>t, <2>p DEF Exit, Crash, Moved, StoreTypeOK
        <3> QED BY <2>8, <3>1, <2>1, <2>2 DEF Exit, Crash, schema, Torn
    <2>9. ASSUME NEW p \in Process, Go(p, "failed"), UNCHANGED schema PROVE Kept
        <3>1. Moved(p, "failed", opener[p].applied)
            BY <2>9, <2>t, <2>p, GoMoves
        <3> QED BY <2>9, <3>1, <2>1, <2>2 DEF schema, Torn
    <2>10. ASSUME NEW p \in Process, Migrate(p) PROVE Kept
        BY <2>10, <2>3, <2>4, <2>5, <2>6, <2>7, <2>8 DEF Migrate, OpenStep
    <2>11. ASSUME NEW p \in Process, Boot(p) PROVE Kept \/ UNCHANGED storeVars
        BY <2>11, <2>9 DEF Boot, storeVars
    <2>12. ASSUME NEW p \in Process, End(p) PROVE Kept
        BY <2>12, <2>8 DEF End
    <2>13. ASSUME NEW c \in Caller, Serve(c) PROVE UNCHANGED storeVars
        BY <2>13 DEF Serve
    <2>14. CASE UNCHANGED vars
        BY <2>14 DEF vars
    <2> QED BY <1>3, <2>10, <2>11, <2>12, <2>13, <2>14 DEF Next
<1>4. SchemaInv /\ [Next]_vars => [Kept]_storeVars
    BY <1>3
<1> QED BY <1>1, <1>2, <1>4, PTL DEF Spec, TornIsFinal

-----------------------------------------------------------------------------


Word == Verb \cup {"none", "register", "propose", "sigil"}

FrameType == [pc : Pc, verb : Word, name : Name \cup {NoName}, ordinal : Nat,
              version : Nat, known : SUBSET (Name \cup {NoName})]

Typed ==
    /\ order \in [Process -> Seq(Name)]
    /\ basis \in [Process -> Nat]
    /\ named \in [Process -> SUBSET Name]
    /\ latest \in Nat
    /\ aspectRows \subseteq [name : Name, ordinal : Nat]
    /\ IsFiniteSet(aspectRows)
    /\ frame \in [Caller -> FrameType]
    /\ proposals \in [Name -> Proposal]
    /\ held \in [Caller -> Proposal]

\* The aspect has a row, or gets one, or its write is on record as failed.
Backed(n) ==
    \/ HasRow(n)
    \/ "failed" \in strain
    \/ \E c \in Caller : frame[c].name = n /\ Unwritten(c)

\* Places of a call that works on the aspect its frame names.
OnName == {"check", "register", "append", "bump", "index", "number", "read", "insert", "publish", "decide"}

CallInv(c) ==
    /\ frame[c].pc \in OnName => frame[c].name \in Name
    /\ frame[c].pc \in {"check", "decide"} => frame[c].verb \in Verb
    /\ At(c, "publish") => HasRow(frame[c].name)
    /\ At(c, "decide") /\ frame[c].verb = "accept" => Backed(frame[c].name)
    /\ frame[c].pc \in OnName /\ frame[c].verb = "accept" => held[c].reviewed
    /\ (/\ frame[c].pc \in OnName /\ frame[c].verb \in Verb
        /\ held[c].status = "ACCEPTED" /\ frame[c].name \notin gossiped)
       => held[c].reviewed /\ Backed(frame[c].name)

\* What a process knows by the order of its aspects or by their index.
InMemory(p) == Known(p) \cup named[p]

MemoryIsBacked == \A p \in Process : \A n \in InMemory(p) : Backed(n)

AcceptedIsBacked ==
    \A n \in Name \ gossiped :
        proposals[n].status = "ACCEPTED" => proposals[n].reviewed /\ Backed(n)

IInv ==
    /\ Typed
    /\ MemoryIsBacked
    /\ \A c \in Caller : CallInv(c)
    /\ AcceptedIsBacked

-----------------------------------------------------------------------------
(* What a step has to keep.                                                *)

\* Rows and troubles stay, and a call leaves the way to its row only by
\* writing it or by failing.
Lasting ==
    /\ aspectRows \subseteq aspectRows'
    /\ strain \subseteq strain'
    /\ \A c \in Caller : Unwritten(c) =>
          \/ frame'[c].pc \in {"bump", "index", "number", "read", "insert"} /\ frame'[c].name = frame[c].name
          \/ \E row \in aspectRows' : row.name = frame[c].name
          \/ "failed" \in strain'

(* Being backed is for good.                                               *)
LEMMA BackedStays ==
    ASSUME Lasting, NEW n, Backed(n)
    PROVE  Backed(n)'
<1>1. HasRow(n) => HasRow(n)'
    BY DEF Lasting, HasRow
<1>2. ASSUME NEW c \in Caller, frame[c].name = n, Unwritten(c)
      PROVE  Backed(n)'
    <2>1. CASE frame'[c].pc \in {"bump", "index", "number", "read", "insert"} /\ frame'[c].name = frame[c].name
        BY <1>2, <2>1 DEF Backed, Unwritten
    <2>2. CASE \E row \in aspectRows' : row.name = frame[c].name
        BY <1>2, <2>2 DEF Backed, HasRow
    <2>3. CASE "failed" \in strain'
        BY <2>3 DEF Backed
    <2> QED BY <1>2, <2>1, <2>2, <2>3 DEF Lasting
<1> QED BY <1>1, <1>2 DEF Backed, Lasting

(* What a call knows stays true while others move.                         *)
LEMMA CallInvStays ==
    ASSUME Lasting, gossiped \subseteq gossiped', NEW c \in Caller, CallInv(c),
           frame'[c] = frame[c], held'[c] = held[c]
    PROVE  CallInv(c)'
<1> PICK n : n = frame[c].name
    OBVIOUS
<1>1. Backed(n) => Backed(n)'
    BY BackedStays
<1>2. HasRow(n) => HasRow(n)'
    BY DEF Lasting, HasRow
<1>3. frame'[c].name = n
    OBVIOUS
<1> QED BY <1>1, <1>2, <1>3 DEF CallInv, At, Backed, HasRow, Unwritten

\* Nobody but c makes a move.
OnlyCall(c) ==
    \A d \in Caller \ {c} : frame'[d] = frame[d] /\ held'[d] = held[d]

(* The step of one call, from what it does to its own frame and to the     *)
(* tables.                                                                 *)
LEMMA CallKeeps ==
    ASSUME IInv, Typed', NEW c \in Caller, OnlyCall(c), Lasting, gossiped \subseteq gossiped',
           CallInv(c)',
           \A p \in Process : \A n \in InMemory(p)' : n \in InMemory(p) \/ Backed(n)',
           \A n \in Name : \/ proposals'[n] = proposals[n]
                           \/ n \in gossiped'
                           \/ proposals'[n].status # "ACCEPTED"
                           \/ proposals'[n].reviewed /\ Backed(n)'
    PROVE  IInv'
<1>1. MemoryIsBacked'
    BY BackedStays DEF IInv, MemoryIsBacked
<1>2. ASSUME NEW d \in Caller PROVE CallInv(d)'
    BY CallInvStays DEF IInv, OnlyCall
<1>3. AcceptedIsBacked'
    BY BackedStays DEF IInv, AcceptedIsBacked
<1> QED BY <1>1, <1>2, <1>3 DEF IInv

\* A step that leaves the tables to which calls refer alone.
Tables == <<order, named, aspectRows, proposals, gossiped>>

LEMMA QuietCall ==
    ASSUME IInv, NEW c \in Caller, OnlyCall(c), UNCHANGED Tables, basis' \in [Process -> Nat],
           latest' \in Nat, frame' \in [Caller -> FrameType], held' \in [Caller -> Proposal],
           strain \subseteq strain',
           Unwritten(c) => \/ frame'[c].pc \in {"bump", "index", "number", "read", "insert"}
                                /\ frame'[c].name = frame[c].name
                           \/ "failed" \in strain',
           CallInv(c)'
    PROVE  IInv'
<1>1. Typed'
    BY DEF IInv, Typed, Tables
<1>2. Lasting
    BY DEF Lasting, OnlyCall, Tables, Unwritten
<1>3. \A p \in Process : InMemory(p)' = InMemory(p)
    BY DEF InMemory, Known, Tables
<1> QED BY <1>1, <1>2, <1>3, CallKeeps DEF Tables

\* The frame and the copy a call has after its step.
Becomes(c, f) == frame' = [frame EXCEPT ![c] = f]

LEMMA BecomesType ==
    ASSUME Typed, NEW c \in Caller, NEW f \in FrameType, Becomes(c, f)
    PROVE  /\ frame' \in [Caller -> FrameType]
           /\ frame'[c] = f
           /\ \A d \in Caller \ {c} : frame'[d] = frame[d]
BY DEF Typed, Becomes

LEMMA GotoBecomes ==
    ASSUME Typed, NEW c \in Caller, NEW pc \in Pc, Goto(c, pc)
    PROVE  /\ frame' \in [Caller -> FrameType]
           /\ frame'[c].pc = pc /\ frame'[c].name = frame[c].name
           /\ frame'[c].verb = frame[c].verb
           /\ \A d \in Caller \ {c} : frame'[d] = frame[d]
<1>1. frame' = [frame EXCEPT ![c] = [frame[c] EXCEPT !.pc = pc]]
    BY DEF Goto
<1>2. frame[c] \in FrameType
    BY DEF Typed
<1> DEFINE f == [frame[c] EXCEPT !.pc = pc]
<1>3. f \in FrameType /\ f.pc = pc /\ f.name = frame[c].name /\ f.verb = frame[c].verb
    BY <1>2 DEF FrameType
<1> HIDE DEF f
<1> QED BY <1>1, <1>3 DEF Typed, f

(* A call that is over, or has no aspect in its frame, has nothing to keep. *)
LEMMA NothingToKeep ==
    ASSUME NEW c \in Caller, frame'[c].pc \notin OnName
    PROVE  CallInv(c)'
BY DEF CallInv, OnName, At

LEMMA IdleType == Idle \in FrameType
BY DEF Idle, FrameType, Pc, Word, Verb

LEMMA ReturnBecomes ==
    ASSUME Typed, NEW c \in Caller, Return(c)
    PROVE  /\ frame' \in [Caller -> FrameType] /\ frame'[c].pc = "idle"
           /\ \A d \in Caller \ {c} : frame'[d] = frame[d]
           /\ CallInv(c)'
<1>1. /\ frame' \in [Caller -> FrameType] /\ frame'[c] = Idle
      /\ \A d \in Caller \ {c} : frame'[d] = frame[d]
    BY IdleType, BecomesType DEF Return, Becomes
<1>2. frame'[c].pc = "idle"
    BY <1>1 DEF Idle
<1> QED BY <1>1, <1>2, NothingToKeep DEF OnName

-----------------------------------------------------------------------------
(* One step of one call.                                                   *)

LEMMA LastingCall ==
    ASSUME NEW c \in Caller, OnlyCall(c), aspectRows \subseteq aspectRows',
           strain \subseteq strain',
           Unwritten(c) => \/ frame'[c].pc \in {"bump", "index", "number", "read", "insert"}
                                /\ frame'[c].name = frame[c].name
                           \/ \E row \in aspectRows' : row.name = frame[c].name
                           \/ "failed" \in strain'
    PROVE  Lasting
BY DEF Lasting, OnlyCall, Unwritten

(* A call that goes on with the same aspect, past "check".                 *)
LEMMA GoesOn ==
    ASSUME Lasting, gossiped' = gossiped, NEW c \in Caller, CallInv(c),
           frame[c].pc \in OnName, frame'[c].pc \in OnName \ {"check"},
           frame'[c].name = frame[c].name, frame'[c].verb = frame[c].verb, held' = held,
           frame'[c].pc = "publish" => \E row \in aspectRows' : row.name = frame[c].name,
           frame'[c].pc = "decide" =>
               /\ frame[c].verb \in Verb
               /\ \A n : n = frame[c].name => Backed(n)'
    PROVE  CallInv(c)'
<1> PICK n : n = frame[c].name
    OBVIOUS
<1>1. Backed(n) => Backed(n)'
    BY BackedStays
<1>2. frame'[c].name = n
    OBVIOUS
<1> QED BY <1>1, <1>2 DEF CallInv, At, Backed, HasRow, Unwritten

LEMMA BeginRegisterKeeps ==
    ASSUME IInv, NEW c \in Caller, NEW n \in Name, BeginRegister(c, n), UNCHANGED genesisVars
    PROVE  IInv'
<1> PICK f : f = [Idle EXCEPT !.pc = "register", !.verb = "register", !.name = n]
    OBVIOUS
<1>0. "register" \in Pc /\ "register" \in Word
    BY DEF Pc, Word
<1>1. f \in FrameType /\ f.pc = "register" /\ f.verb = "register" /\ f.name = n
    BY <1>0, IdleType DEF FrameType, Idle
<1>2. frame' \in [Caller -> FrameType] /\ frame'[c] = f /\ OnlyCall(c)
    BY <1>1, BecomesType DEF IInv, BeginRegister, Becomes, OnlyCall, genesisVars
<1>3. CallInv(c)'
    BY <1>1, <1>2 DEF CallInv, At, OnName, Verb
<1>4. ~Unwritten(c)
    BY DEF BeginRegister, At, Unwritten
<1> QED BY <1>2, <1>3, <1>4, QuietCall
        DEF IInv, Typed, BeginRegister, memory, aspectTables, genesisVars, Tables

\* A call whose frame alone changes, within the aspect it works on.
LEMMA NumberKeeps ==
    ASSUME IInv, NEW c \in Caller, Number(c) \/ ReadVersion(c), UNCHANGED genesisVars
    PROVE  IInv'
<1> DEFINE f == IF At(c, "number")
                THEN [frame[c] EXCEPT !.pc = "read", !.ordinal = Len(order[Home[c]])]
                ELSE [frame[c] EXCEPT !.pc = "insert", !.version = latest + 1]
<1>1. frame[c] \in FrameType /\ Home[c] \in Process /\ latest + 1 \in Nat
    BY RegistryAssumption DEF IInv, Typed
<1>2. Len(order[Home[c]]) \in Nat
    BY <1>1, LenProperties DEF IInv, Typed
<1>3. /\ f \in FrameType /\ f.pc \in {"read", "insert"}
      /\ f.name = frame[c].name /\ f.verb = frame[c].verb
    BY <1>1, <1>2 DEF FrameType, Pc
<1>4. Becomes(c, f)
    BY DEF Number, ReadVersion, At, Becomes, Here
<1> HIDE DEF f
<1>5. frame' \in [Caller -> FrameType] /\ frame'[c] = f /\ OnlyCall(c)
    BY <1>3, <1>4, BecomesType DEF IInv, OnlyCall, genesisVars
<1>6. Lasting
    BY <1>3, <1>5, LastingCall DEF Number, ReadVersion, aspectTables
<1>7. CallInv(c)'
    BY <1>3, <1>5, <1>6, GoesOn DEF IInv, Number, ReadVersion, At, OnName, genesisVars
<1> QED BY <1>3, <1>5, <1>7, QuietCall
        DEF IInv, Typed, Number, ReadVersion, memory, aspectTables, genesisVars, Tables

(* Appending a name adds it to the known ones.                             *)
LEMMA KnownAppend ==
    ASSUME NEW s \in Seq(Name), NEW n \in Name
    PROVE  Append(s, n) \in Seq(Name) /\ ToSet(Append(s, n)) = ToSet(s) \cup {n}
<1>1. /\ Append(s, n) \in Seq(Name)
      /\ Len(Append(s, n)) = Len(s) + 1
      /\ \A i \in 1 .. Len(s) : Append(s, n)[i] = s[i]
      /\ Append(s, n)[Len(s) + 1] = n
    BY AppendProperties
<1>2. Len(s) \in Nat /\ DOMAIN s = 1 .. Len(s)
    BY LenProperties
<1>3. DOMAIN Append(s, n) = 1 .. Len(s) + 1
    BY <1>1, LenProperties
<1>4. 1 .. Len(s) + 1 = 1 .. Len(s) \cup {Len(s) + 1}
    BY <1>2
<1>5. ToSet(Append(s, n)) = {Append(s, n)[i] : i \in 1 .. Len(s) \cup {Len(s) + 1}}
    BY <1>3, <1>4 DEF ToSet
<1>6. ToSet(s) = {s[i] : i \in 1 .. Len(s)}
    BY <1>2 DEF ToSet
<1>7. ASSUME NEW x PROVE x \in ToSet(Append(s, n)) <=> x \in ToSet(s) \cup {n}
    BY <1>1, <1>5, <1>6
<1> QED BY <1>1, <1>7

LEMMA RegisterKeeps ==
    ASSUME IInv, NEW c \in Caller, NEW serving, Register(c, serving), UNCHANGED genesisVars
    PROVE  IInv'
<1>1. /\ frame[c].pc = "register" /\ CallInv(c) /\ strain \subseteq strain'
      /\ UNCHANGED <<order, basis, named, aspectTables>>
    BY DEF IInv, Register, At, memory
<1>2. ~Unwritten(c)
    BY <1>1 DEF Unwritten
<1>3. CASE Return(c)
    <2>1. frame' \in [Caller -> FrameType] /\ OnlyCall(c) /\ CallInv(c)'
        BY <1>3, ReturnBecomes DEF IInv, OnlyCall, genesisVars
    <2> QED BY <1>1, <1>2, <2>1, QuietCall DEF IInv, Typed, aspectTables, genesisVars, Tables
<1>4. CASE Goto(c, "append")
    <2>1. /\ frame' \in [Caller -> FrameType] /\ OnlyCall(c) /\ frame'[c].pc = "append"
          /\ frame'[c].name = frame[c].name /\ frame'[c].verb = frame[c].verb
        BY <1>4, GotoBecomes DEF IInv, OnlyCall, genesisVars, Pc
    <2>2. Lasting
        BY <1>1, <1>2, <2>1, LastingCall DEF aspectTables
    <2>3. CallInv(c)'
        BY <1>1, <2>1, <2>2, GoesOn DEF OnName, genesisVars
    <2> QED BY <1>1, <1>2, <2>1, <2>3, QuietCall
            DEF IInv, Typed, aspectTables, genesisVars, Tables
<1> QED BY <1>3, <1>4 DEF Register

(* The call that appends an aspect is the one that is to write its row.    *)
LEMMA AppendAspectKeeps ==
    ASSUME IInv, NEW c \in Caller, AppendAspect(c), UNCHANGED genesisVars
    PROVE  IInv'
<1> DEFINE p == Home[c]  n == frame[c].name
<1>1. /\ p \in Process /\ order[p] \in Seq(Name) /\ frame[c].pc = "append" /\ CallInv(c)
      /\ order' = [order EXCEPT ![p] = Append(order[p], n)] /\ Goto(c, "bump")
      /\ UNCHANGED <<basis, named, aspectTables, strain>>
    BY RegistryAssumption DEF IInv, Typed, AppendAspect, At, Here
<1>2. n \in Name
    BY <1>1 DEF CallInv, OnName
<1>3. /\ frame' \in [Caller -> FrameType] /\ OnlyCall(c)
      /\ frame'[c].pc = "bump" /\ frame'[c].name = n /\ frame'[c].verb = frame[c].verb
    BY <1>1, GotoBecomes DEF IInv, OnlyCall, genesisVars, Pc
<1>4. order' \in [Process -> Seq(Name)]
    BY <1>1, <1>2, KnownAppend DEF IInv, Typed
<1>5. Typed'
    BY <1>1, <1>3, <1>4 DEF IInv, Typed, aspectTables, genesisVars
<1>6. Lasting
    BY <1>1, <1>3, LastingCall DEF aspectTables, Unwritten
<1>7. CallInv(c)'
    BY <1>1, <1>3, <1>6, GoesOn DEF OnName, genesisVars
<1>8. ASSUME NEW q \in Process, NEW m \in InMemory(q)' PROVE m \in InMemory(q) \/ Backed(m)'
    <2>1. CASE q = p
        <3>1. Known(q)' = Known(q) \cup {n}
            BY <1>1, <1>2, <2>1, KnownAppend DEF Known, IInv, Typed
        <3>2. m = n => Backed(m)'
            BY <1>3 DEF Backed, Unwritten
        <3> QED BY <1>1, <1>8, <3>1, <3>2 DEF InMemory
    <2>2. CASE q # p
        BY <1>1, <1>8, <2>2 DEF InMemory, Known, IInv, Typed
    <2> QED BY <2>1, <2>2
<1> QED BY <1>3, <1>5, <1>6, <1>7, <1>8, CallKeeps DEF genesisVars

LEMMA BumpVersionKeeps ==
    ASSUME IInv, NEW c \in Caller, BumpVersion(c), UNCHANGED genesisVars
    PROVE  IInv'
<1>1. /\ Home[c] \in Process /\ frame[c].pc = "bump" /\ CallInv(c)
      /\ basis' = [basis EXCEPT ![Home[c]] = basis[Home[c]] + 1] /\ Goto(c, "index")
      /\ UNCHANGED <<order, named, aspectTables, strain>>
    BY RegistryAssumption DEF IInv, BumpVersion, At, Here
<1>2. /\ frame' \in [Caller -> FrameType] /\ OnlyCall(c) /\ frame'[c].pc = "index"
      /\ frame'[c].name = frame[c].name /\ frame'[c].verb = frame[c].verb
    BY <1>1, GotoBecomes DEF IInv, OnlyCall, genesisVars, Pc
<1>3. basis' \in [Process -> Nat]
    BY <1>1 DEF IInv, Typed
<1>4. Lasting
    BY <1>1, <1>2, LastingCall DEF aspectTables
<1>5. CallInv(c)'
    BY <1>1, <1>2, <1>4, GoesOn DEF OnName, genesisVars
<1> QED BY <1>1, <1>2, <1>3, <1>5, QuietCall DEF IInv, Typed, aspectTables, genesisVars, Tables

LEMMA IndexAspectKeeps ==
    ASSUME IInv, NEW c \in Caller, IndexAspect(c), UNCHANGED genesisVars
    PROVE  IInv'
<1> DEFINE p == Home[c]  n == frame[c].name
<1>1. /\ p \in Process /\ frame[c].pc = "index" /\ CallInv(c)
      /\ named' = [named EXCEPT ![p] = named[p] \cup {n}] /\ Goto(c, "number")
      /\ UNCHANGED <<order, basis, aspectTables, strain>>
    BY RegistryAssumption DEF IInv, IndexAspect, At, Here
<1>2. n \in Name
    BY <1>1 DEF CallInv, OnName
<1>3. /\ frame' \in [Caller -> FrameType] /\ OnlyCall(c)
      /\ frame'[c].pc = "number" /\ frame'[c].name = n /\ frame'[c].verb = frame[c].verb
    BY <1>1, GotoBecomes DEF IInv, OnlyCall, genesisVars, Pc
<1>4. Typed'
    BY <1>1, <1>2, <1>3 DEF IInv, Typed, aspectTables, genesisVars
<1>5. Lasting
    BY <1>1, <1>3, LastingCall DEF aspectTables
<1>6. CallInv(c)'
    BY <1>1, <1>3, <1>5, GoesOn DEF OnName, genesisVars
<1>7. ASSUME NEW q \in Process, NEW m \in InMemory(q)' PROVE m \in InMemory(q) \/ Backed(m)'
    <2>1. m = n => Backed(m)'
        BY <1>3 DEF Backed, Unwritten
    <2> QED BY <1>1, <1>7, <2>1 DEF InMemory, Known, IInv, Typed
<1> QED BY <1>3, <1>4, <1>5, <1>6, <1>7, CallKeeps DEF genesisVars

LEMMA InsertAspectKeeps ==
    ASSUME IInv, NEW c \in Caller, InsertAspect(c), UNCHANGED genesisVars
    PROVE  IInv'
<1> DEFINE n == frame[c].name
<1>1. /\ frame[c].pc = "insert" /\ CallInv(c) /\ frame[c] \in FrameType
      /\ n \in Name /\ UNCHANGED <<order, named, basis>>
    BY DEF IInv, Typed, InsertAspect, At, CallInv, OnName, memory
<1>2. CASE ~HasRow(n) /\ aspectRows' = aspectRows \cup {Row(c)}
           /\ latest' = Larger(latest, frame[c].version) /\ Goto(c, "publish") /\ strain' = strain
    <2>1. /\ frame' \in [Caller -> FrameType] /\ OnlyCall(c)
          /\ frame'[c].pc = "publish" /\ frame'[c].name = n /\ frame'[c].verb = frame[c].verb
        BY <1>2, GotoBecomes DEF IInv, OnlyCall, genesisVars, Pc
    <2>2. Row(c) \in [name : Name, ordinal : Nat] /\ Row(c).name = n
        BY <1>1 DEF Row, FrameType
    <2>3. IsFiniteSet(aspectRows')
        BY <1>2, FS_AddElement DEF IInv, Typed
    <2>4. latest' \in Nat
        BY <1>1, <1>2 DEF IInv, Typed, Larger, FrameType
    <2>5. Typed'
        BY <1>1, <1>2, <2>1, <2>2, <2>3, <2>4 DEF IInv, Typed, genesisVars
    <2>6. \E row \in aspectRows' : row.name = n
        BY <1>2, <2>2
    <2>7. Lasting
        BY <1>2, <2>1, <2>6, LastingCall
    <2>8. CallInv(c)'
        BY <1>1, <2>1, <2>6, <2>7, GoesOn DEF OnName, genesisVars
    <2>9. \A q \in Process : InMemory(q)' = InMemory(q)
        BY <1>1 DEF InMemory, Known
    <2> QED BY <2>1, <2>5, <2>7, <2>8, <2>9, CallKeeps DEF genesisVars
<1>3. CASE Return(c) /\ strain' = strain \cup {"failed"} /\ UNCHANGED aspectTables
    <2>1. frame' \in [Caller -> FrameType] /\ OnlyCall(c) /\ CallInv(c)'
        BY <1>3, ReturnBecomes DEF IInv, OnlyCall, genesisVars
    <2> QED BY <1>1, <1>3, <2>1, QuietCall DEF IInv, Typed, aspectTables, genesisVars, Tables
<1> QED BY <1>2, <1>3 DEF InsertAspect

LEMMA PublishKeeps ==
    ASSUME IInv, NEW c \in Caller, Publish(c), UNCHANGED genesisVars
    PROVE  IInv'
<1> PICK n : n = frame[c].name
    OBVIOUS
<1>1. /\ frame[c].pc = "publish" /\ CallInv(c) /\ frame[c] \in FrameType
      /\ HasRow(n) /\ UNCHANGED <<order, named, aspectTables, strain>>
    BY DEF IInv, Typed, Publish, At, CallInv, OnName
<1>2. basis' \in [Process -> Nat] /\ latest' \in Nat
    BY <1>1 DEF IInv, Typed, Publish, FrameType, aspectTables, Here
<1>3. ~Unwritten(c)
    BY <1>1 DEF Unwritten
<1>4. CASE frame[c].verb = "accept" /\ Goto(c, "decide")
    <2>1. /\ frame' \in [Caller -> FrameType] /\ OnlyCall(c)
          /\ frame'[c].pc = "decide" /\ frame'[c].name = n /\ frame'[c].verb = frame[c].verb
        BY <1>4, GotoBecomes DEF IInv, OnlyCall, genesisVars, Pc
    <2>2. Lasting
        BY <1>1, <1>3, <2>1, LastingCall DEF aspectTables
    <2>3. Backed(n)'
        BY <1>1, <2>2, BackedStays DEF Backed
    <2>4. CallInv(c)'
        BY <1>1, <1>4, <2>1, <2>2, <2>3, GoesOn DEF OnName, genesisVars, Verb
    <2> QED BY <1>1, <1>2, <1>3, <2>1, <2>4, QuietCall
            DEF IInv, Typed, aspectTables, genesisVars, Tables
<1>5. CASE Return(c)
    <2>1. frame' \in [Caller -> FrameType] /\ OnlyCall(c) /\ CallInv(c)'
        BY <1>5, ReturnBecomes DEF IInv, OnlyCall, genesisVars
    <2> QED BY <1>1, <1>2, <1>3, <2>1, QuietCall
            DEF IInv, Typed, aspectTables, genesisVars, Tables
<1> QED BY <1>4, <1>5 DEF Publish

(* The known names of a process are names.                                 *)
LEMMA KnownNames ==
    ASSUME Typed, NEW p \in Process
    PROVE  Known(p) \subseteq Name
<1>1. order[p] \in Seq(Name)
    BY DEF Typed
<1>2. \A i \in 1 .. Len(order[p]) : order[p][i] \in Name
    BY <1>1, ElementOfSeq
<1>3. DOMAIN order[p] = 1 .. Len(order[p])
    BY <1>1, LenProperties
<1> QED BY <1>2, <1>3 DEF Known, ToSet

LEMMA EmbedKeeps ==
    ASSUME IInv, NEW c \in Caller,
           BeginEmbed(c) \/ ReadTexts(c) \/ StoreVectors(c) \/ StampVectors(c),
           UNCHANGED genesisVars
    PROVE  IInv'
<1>1. /\ frame[c].pc \in {"idle", "embed", "stamp"} /\ frame[c] \in FrameType
      /\ UNCHANGED <<order, basis, named, aspectTables, strain>> /\ Home[c] \in Process
    BY RegistryAssumption
       DEF IInv, Typed, BeginEmbed, ReadTexts, StoreVectors, StampVectors, At, memory
<1>2. ~Unwritten(c)
    BY <1>1 DEF Unwritten
<1>3. /\ frame' \in [Caller -> FrameType] /\ OnlyCall(c)
      /\ CallInv(c)'
    <2>1. CASE BeginEmbed(c)
        <3> DEFINE f == [Idle EXCEPT !.pc = "embed", !.version = basis[Here(c)]]
        <3>1. Becomes(c, f)
            BY <2>1 DEF BeginEmbed, Becomes
        <3>2. f \in FrameType /\ f.pc = "embed"
            BY <1>1, IdleType DEF FrameType, Pc, Idle, IInv, Typed, Here
        <3> HIDE DEF f
        <3>3. frame'[c].pc = "embed" /\ frame' \in [Caller -> FrameType] /\ OnlyCall(c)
            BY <3>1, <3>2, BecomesType DEF IInv, OnlyCall, genesisVars
        <3> QED BY <3>3, NothingToKeep DEF OnName
    <2>2. CASE ReadTexts(c)
        <3> DEFINE f == [frame[c] EXCEPT !.known = Known(Home[c]) \cup {NoName}]
        <3>1. Becomes(c, f)
            BY <2>2 DEF ReadTexts, Becomes, Here
        <3>2. f \in FrameType /\ f.pc = "embed"
            BY <1>1, <2>2, KnownNames DEF FrameType, IInv, ReadTexts, At
        <3> HIDE DEF f
        <3>3. frame'[c].pc = "embed" /\ frame' \in [Caller -> FrameType] /\ OnlyCall(c)
            BY <3>1, <3>2, BecomesType DEF IInv, OnlyCall, genesisVars
        <3> QED BY <3>3, NothingToKeep DEF OnName
    <2>3. CASE StoreVectors(c)
        <3>1. frame'[c].pc = "stamp" /\ frame' \in [Caller -> FrameType] /\ OnlyCall(c)
            BY <2>3, GotoBecomes DEF StoreVectors, IInv, OnlyCall, Pc, genesisVars
        <3> QED BY <3>1, NothingToKeep DEF OnName
    <2>4. CASE StampVectors(c)
        BY <2>4, ReturnBecomes DEF StampVectors, IInv, OnlyCall, genesisVars
    <2> QED BY <2>1, <2>2, <2>3, <2>4
<1> QED BY <1>1, <1>2, <1>3, QuietCall DEF IInv, Typed, aspectTables, genesisVars, Tables

(* Every step of a registration or of the embedding backend.               *)
LEMMA RegistryKeeps ==
    ASSUME IInv, NEW c \in Caller, RegistryStep(c, booted), UNCHANGED genesisVars
    PROVE  IInv'
BY BeginRegisterKeeps, RegisterKeeps, AppendAspectKeeps, BumpVersionKeeps, IndexAspectKeeps,
   NumberKeeps, InsertAspectKeeps, PublishKeeps, EmbedKeeps
   DEF RegistryStep

-----------------------------------------------------------------------------
(* The operations on proposals.                                            *)

LEMMA BeginProposeKeeps ==
    ASSUME IInv, NEW c \in Caller, NEW found \in SUBSET Name, BeginPropose(c, found)
    PROVE  IInv'
<1> PICK f : f = [Idle EXCEPT !.pc = "propose", !.verb = "propose", !.known = found]
    OBVIOUS
<1>1. "propose" \in Pc /\ "propose" \in Word /\ found \in SUBSET (Name \cup {NoName})
    BY DEF Pc, Word
<1>2. f \in FrameType /\ f.pc = "propose"
    BY <1>1, IdleType DEF FrameType, Idle
<1>3. frame' \in [Caller -> FrameType] /\ frame'[c] = f /\ OnlyCall(c)
    BY <1>2, BecomesType DEF IInv, BeginPropose, Becomes, OnlyCall, genesisVars
<1>4. CallInv(c)'
    BY <1>2, <1>3, NothingToKeep DEF OnName
<1>5. ~Unwritten(c)
    BY DEF BeginPropose, At, Unwritten
<1> QED BY <1>3, <1>4, <1>5, QuietCall
        DEF IInv, Typed, BeginPropose, memory, aspectTables, genesisVars, Tables

LEMMA WriteProposalKeeps ==
    ASSUME IInv, NEW c \in Caller, WriteProposal(c)
    PROVE  IInv'
<1>1. /\ frame[c].pc = "propose" /\ frame[c] \in FrameType
      /\ UNCHANGED <<order, basis, named, aspectTables, strain, held, gossiped>>
    BY DEF IInv, Typed, WriteProposal, At, memory
<1>2. ~Unwritten(c)
    BY <1>1 DEF Unwritten
<1>3. PICK n :
          \/ Return(c) /\ UNCHANGED proposals
          \/ /\ proposals' = [proposals EXCEPT ![n] = Proposed]
             /\ \/ Return(c)
                \/ frame' = [frame EXCEPT ![c].known = frame[c].known \ {n}]
    BY DEF WriteProposal
<1>4. proposals' \in [Name -> Proposal]
    <2>1. Proposed \in Proposal
        BY DEF Proposal, Proposed, Status
    <2> QED BY <1>3, <2>1 DEF IInv, Typed
<1>5. frame' \in [Caller -> FrameType] /\ OnlyCall(c) /\ CallInv(c)'
    <2>1. CASE Return(c)
        BY <1>1, <2>1, ReturnBecomes DEF IInv, OnlyCall
    <2>2. CASE frame' = [frame EXCEPT ![c].known = frame[c].known \ {n}]
        <3> DEFINE f == [frame[c] EXCEPT !.known = frame[c].known \ {n}]
        <3>1. Becomes(c, f)
            BY <2>2 DEF Becomes
        <3>2. f \in FrameType /\ f.pc = "propose"
            BY <1>1 DEF FrameType
        <3> HIDE DEF f
        <3>3. frame'[c].pc = "propose" /\ frame' \in [Caller -> FrameType] /\ OnlyCall(c)
            BY <1>1, <3>1, <3>2, BecomesType DEF IInv, OnlyCall
        <3> QED BY <3>3, NothingToKeep DEF OnName
    <2> QED BY <1>3, <2>1, <2>2
<1>6. Typed'
    BY <1>1, <1>4, <1>5 DEF IInv, Typed, aspectTables
<1>7. Lasting
    BY <1>1, <1>2, <1>5, LastingCall DEF aspectTables
<1>8. \A m \in Name : proposals'[m] = proposals[m] \/ proposals'[m].status # "ACCEPTED"
    BY <1>3 DEF IInv, Typed, Proposed
<1>9. \A q \in Process : InMemory(q)' = InMemory(q)
    BY <1>1 DEF InMemory, Known
<1> QED BY <1>1, <1>5, <1>6, <1>7, <1>8, <1>9, CallKeeps

LEMMA BeginVerbKeeps ==
    ASSUME IInv, NEW c \in Caller, NEW verb \in Verb, NEW n \in Name, BeginVerb(c, verb, n)
    PROVE  IInv'
<1> PICK pc : pc = IF verb = "accept" THEN "check" ELSE "decide"
    OBVIOUS
<1> PICK f : f = [Idle EXCEPT !.pc = pc, !.verb = verb, !.name = n]
    OBVIOUS
<1>1. pc \in Pc /\ verb \in Word /\ pc \in {"check", "decide"}
    BY DEF Pc, Word
<1>2. f \in FrameType /\ f.pc = pc /\ f.verb = verb /\ f.name = n
    BY <1>1, IdleType DEF FrameType, Idle
<1>3. Becomes(c, f)
    BY DEF BeginVerb, Becomes
<1>4. held' = [held EXCEPT ![c] = proposals[n]] /\ UNCHANGED <<memory, aspectTables, strain>>
      /\ UNCHANGED <<proposals, gossiped>>
    BY DEF BeginVerb
<1>5. frame' \in [Caller -> FrameType] /\ frame'[c] = f /\ held'[c] = proposals[n]
      /\ held' \in [Caller -> Proposal] /\ OnlyCall(c)
    BY <1>2, <1>3, <1>4, BecomesType DEF IInv, OnlyCall, Typed
<1>6. ~Unwritten(c)
    BY DEF BeginVerb, At, Unwritten
<1>7. Lasting
    BY <1>4, <1>5, <1>6, LastingCall DEF aspectTables
<1>8. Backed(n) => Backed(n)'
    BY <1>7, BackedStays
<1>9. proposals[n].status = "ACCEPTED" /\ n \notin gossiped' => proposals[n].reviewed /\ Backed(n)'
    BY <1>4, <1>8 DEF IInv, AcceptedIsBacked
<1>10. verb = "accept" => proposals[n].reviewed /\ pc = "check"
    BY DEF BeginVerb, MayGoOn
<1>11. CallInv(c)'
    BY <1>1, <1>2, <1>5, <1>9, <1>10 DEF CallInv, At
<1> QED BY <1>4, <1>5, <1>6, <1>11, QuietCall
        DEF IInv, Typed, memory, aspectTables, Tables

LEMMA CheckRegisteredKeeps ==
    ASSUME IInv, NEW c \in Caller, CheckRegistered(c)
    PROVE  IInv'
<1> PICK n : n = frame[c].name
    OBVIOUS
<1> PICK pc : pc = IF n \in named[Home[c]] THEN "decide" ELSE "register"
    OBVIOUS
<1>1. /\ frame[c].pc = "check" /\ CallInv(c) /\ Goto(c, pc) /\ Home[c] \in Process
      /\ frame[c].verb \in Verb
      /\ UNCHANGED <<order, basis, named, aspectTables, strain, proposals, held, gossiped>>
    BY RegistryAssumption
       DEF IInv, Typed, CheckRegistered, At, CallInv, Here, memory, genesisVars
<1>2. /\ frame' \in [Caller -> FrameType] /\ OnlyCall(c)
      /\ frame'[c].pc = pc /\ frame'[c].name = n /\ frame'[c].verb = frame[c].verb
    BY <1>1, GotoBecomes DEF IInv, OnlyCall, Pc
<1>3. ~Unwritten(c)
    BY <1>1 DEF Unwritten
<1>4. Lasting
    BY <1>1, <1>2, <1>3, LastingCall DEF aspectTables
<1>5. pc = "decide" => Backed(n)'
    BY <1>1, <1>4, BackedStays DEF IInv, MemoryIsBacked, InMemory
<1>6. CallInv(c)'
    BY <1>1, <1>2, <1>4, <1>5, GoesOn DEF OnName
<1> QED BY <1>1, <1>2, <1>3, <1>6, QuietCall DEF IInv, Typed, aspectTables, Tables

LEMMA WriteRowKeeps ==
    ASSUME IInv, NEW c \in Caller, WriteRow(c)
    PROVE  IInv'
<1> PICK n : n = frame[c].name
    OBVIOUS
<1> PICK row : row = Rewritten(c)
    OBVIOUS
<1>1. /\ frame[c].pc = "decide" /\ CallInv(c) /\ held[c] \in Proposal /\ Return(c)
      /\ proposals' = [proposals EXCEPT ![n] = row]
      /\ held' = [held EXCEPT ![c] = NoProposal]
      /\ UNCHANGED <<order, basis, named, aspectTables, strain, gossiped>>
    BY DEF IInv, Typed, WriteRow, At, memory
<1>2. n \in Name /\ frame[c].verb \in Verb
    BY <1>1 DEF CallInv, OnName
<1>3. /\ row \in Proposal
      /\ row.status = "ACCEPTED" =>
             \/ frame[c].verb = "accept"
             \/ frame[c].verb = "review" /\ held[c].status = "ACCEPTED"
      /\ frame[c].verb \in {"accept", "reject"} => row.reviewed = held[c].reviewed
      /\ frame[c].verb = "review" => row.reviewed
    <2>1. CASE frame[c].verb = "accept"
        <3>1. row = [held[c] EXCEPT !.status = "ACCEPTED"]
            BY <2>1 DEF Rewritten
        <3>2. row \in Proposal /\ row.reviewed = held[c].reviewed
            BY <1>1, <3>1 DEF Proposal, Status
        <3> QED BY <2>1, <3>2
    <2>2. CASE frame[c].verb = "reject"
        BY <1>1, <2>2 DEF Rewritten, Proposal, Status
    <2>3. CASE frame[c].verb = "review"
        BY <1>1, <2>3 DEF Rewritten, Proposal, Status
    <2> QED BY <1>2, <2>1, <2>2, <2>3 DEF Verb
<1>4. frame' \in [Caller -> FrameType] /\ OnlyCall(c) /\ CallInv(c)'
    BY <1>1, ReturnBecomes DEF IInv, OnlyCall, Typed
<1>5. proposals' \in [Name -> Proposal] /\ held' \in [Caller -> Proposal]
    BY <1>1, <1>3 DEF IInv, Typed, NoProposal, Proposal, Status
<1>6. Typed'
    BY <1>1, <1>4, <1>5 DEF IInv, Typed, aspectTables
<1>7. Lasting
    BY <1>1, <1>4, LastingCall DEF aspectTables, Unwritten
<1>8. ASSUME row.status = "ACCEPTED", n \notin gossiped PROVE row.reviewed /\ Backed(n)'
    <2>1. CASE frame[c].verb = "accept"
        BY <1>1, <1>3, <1>7, <2>1, BackedStays DEF CallInv, At, OnName
    <2>2. CASE frame[c].verb = "review" /\ held[c].status = "ACCEPTED"
        BY <1>1, <1>2, <1>3, <1>7, <1>8, <2>2, BackedStays DEF CallInv, OnName
    <2> QED BY <1>3, <1>8, <2>1, <2>2
<1>9. ASSUME NEW m \in Name
      PROVE  \/ proposals'[m] = proposals[m] \/ m \in gossiped'
             \/ proposals'[m].status # "ACCEPTED"
             \/ proposals'[m].reviewed /\ Backed(m)'
    BY <1>1, <1>8 DEF IInv, Typed
<1>10. \A q \in Process : InMemory(q)' = InMemory(q)
    BY <1>1 DEF InMemory, Known
<1> QED BY <1>1, <1>4, <1>6, <1>7, <1>9, <1>10, CallKeeps

LEMMA MergeProposalKeeps ==
    ASSUME IInv, NEW c \in Caller, NEW n \in Name, NEW row \in PeerRow, MergeProposal(c, n, row)
    PROVE  IInv'
<1>1. /\ UNCHANGED <<order, basis, named, aspectTables, frame, strain, held>>
      /\ proposals' = [proposals EXCEPT ![n] = row] /\ gossiped' = gossiped \cup {n}
    BY DEF MergeProposal, memory
<1>2. Lasting /\ OnlyCall(c)
    BY <1>1 DEF Lasting, OnlyCall, Unwritten, aspectTables
<1>3. proposals' \in [Name -> Proposal]
    <2>1. row \in Proposal
        <3>1. row = [status |-> "ACCEPTED", reviewed |-> TRUE]
            BY DEF PeerRow
        <3>2. "ACCEPTED" \in Status /\ TRUE \in BOOLEAN
            BY DEF Status
        <3> QED BY <3>1, <3>2 DEF Proposal
    <2> QED BY <1>1, <2>1 DEF IInv, Typed
<1>4. Typed'
    BY <1>1, <1>3 DEF IInv, Typed, aspectTables
<1>5. CallInv(c)'
    BY <1>1, <1>2, CallInvStays DEF IInv
<1>6. \A m \in Name : proposals'[m] = proposals[m] \/ m \in gossiped'
    BY <1>1 DEF IInv, Typed
<1>7. \A q \in Process : InMemory(q)' = InMemory(q)
    BY <1>1 DEF InMemory, Known
<1> QED BY <1>1, <1>2, <1>4, <1>5, <1>6, <1>7, CallKeeps

(* Every step on a proposal.                                               *)
LEMMA GenesisKeeps ==
    ASSUME IInv, NEW c \in Caller, GenesisStep(c)
    PROVE  IInv'
BY BeginProposeKeeps, WriteProposalKeeps, BeginVerbKeeps, CheckRegisteredKeeps, WriteRowKeeps,
   MergeProposalKeeps
   DEF GenesisStep

(* A registration of a sigil reads the aspects and changes none.           *)
LEMMA SigilKeeps ==
    ASSUME IInv, NEW c \in Caller, SigilStep(c, booted), UNCHANGED genesisVars
    PROVE  IInv'
<1>1. /\ frame[c].pc \in {"idle", "sigil"}
      /\ UNCHANGED <<order, basis, named, aspectTables>> /\ strain \subseteq strain'
    BY DEF SigilStep, PutSigil, WriteSigil, At, memory
<1>2. ~Unwritten(c)
    BY <1>1 DEF Unwritten
<1>3. frame' \in [Caller -> FrameType] /\ OnlyCall(c) /\ CallInv(c)'
    <2>1. CASE \E row \in SigilRow : PutSigil(c, row, booted)
        <3> PICK f : f = [Idle EXCEPT !.pc = "sigil", !.verb = "sigil"]
            OBVIOUS
        <3>1. "sigil" \in Pc /\ "sigil" \in Word
            BY DEF Pc, Word
        <3>2. f \in FrameType /\ f.pc = "sigil"
            BY <3>1, IdleType DEF FrameType, Idle
        <3>3. frame'[c].pc = "sigil" /\ frame' \in [Caller -> FrameType] /\ OnlyCall(c)
            BY <2>1, <3>2, BecomesType DEF PutSigil, Becomes, IInv, OnlyCall, genesisVars
        <3> QED BY <3>3, NothingToKeep DEF OnName
    <2>2. CASE WriteSigil(c)
        BY <2>2, ReturnBecomes DEF WriteSigil, IInv, OnlyCall, genesisVars
    <2> QED BY <2>1, <2>2 DEF SigilStep
<1> QED BY <1>1, <1>2, <1>3, QuietCall DEF IInv, Typed, aspectTables, genesisVars, Tables

-----------------------------------------------------------------------------
(* A start, an end, and the theorem.                                       *)

(* A listing of the rows is a sequence of the rows.                        *)
LEMMA ListingRows ==
    ASSUME Typed, NEW s \in Listings
    PROVE  /\ [i \in DOMAIN s |-> s[i].name] \in Seq(Name)
           /\ \A n \in ToSet([i \in DOMAIN s |-> s[i].name]) : HasRow(n)
<1> DEFINE k == Cardinality(aspectRows)  t == [i \in DOMAIN s |-> s[i].name]
<1>1. k \in Nat
    BY FS_CardinalityType DEF Typed
<1>2. s \in [1 .. k -> aspectRows]
    BY DEF Listings, SetToSeqs, Injection, IsInjective
<1> HIDE DEF k
<1>n. \A r \in aspectRows : r.name \in Name
    BY DEF Typed
<1>3. DOMAIN s = 1 .. k /\ \A i \in 1 .. k : s[i] \in aspectRows /\ s[i].name \in Name
    BY <1>2, <1>n
<1>4. t \in [1 .. k -> Name]
    BY <1>3
<1>5. t \in Seq(Name)
    BY <1>1, <1>4, SeqDef
<1>6. ToSet(t) = {t[i] : i \in 1 .. k}
    BY <1>4 DEF ToSet
<1>7. \A i \in 1 .. k : t[i] = s[i].name
    BY <1>3
<1> QED BY <1>3, <1>5, <1>6, <1>7 DEF HasRow

LEMMA BootKeeps ==
    ASSUME IInv, NEW p \in Process, Boot(p)
    PROVE  IInv'
<1>1. UNCHANGED <<aspectRows, latest, frame, proposals, held, gossiped>> /\ strain \subseteq strain'
    BY DEF Boot, aspectTables, genesisVars
<1>2. Lasting
    BY <1>1 DEF Lasting, Unwritten
<1>3. ASSUME NEW c \in Caller PROVE CallInv(c)'
    BY <1>1, <1>2, CallInvStays DEF IInv
<1>4. AcceptedIsBacked'
    BY <1>1, <1>2, BackedStays DEF IInv, AcceptedIsBacked
<1>5. /\ order' \in [Process -> Seq(Name)] /\ basis' \in [Process -> Nat]
      /\ named' \in [Process -> SUBSET Name]
      /\ \A q \in Process : \A n \in InMemory(q)' : n \in InMemory(q) \/ HasRow(n)
    <2>1. CASE LoadAspects(p)
        <3>1. PICK s \in Listings : order' = [order EXCEPT ![p] = [i \in DOMAIN s |-> s[i].name]]
            BY <2>1 DEF LoadAspects
        <3>2. /\ [i \in DOMAIN s |-> s[i].name] \in Seq(Name)
              /\ \A n \in ToSet([i \in DOMAIN s |-> s[i].name]) : HasRow(n)
            BY ListingRows DEF IInv
        <3>3. order' \in [Process -> Seq(Name)] /\ basis' \in [Process -> Nat]
            BY <2>1, <3>1, <3>2 DEF IInv, Typed, LoadAspects
        <3>4. \A q \in Process \ {p} : order'[q] = order[q]
            BY <3>1 DEF IInv, Typed
        <3>5. order'[p] = [i \in DOMAIN s |-> s[i].name]
            BY <3>1 DEF IInv, Typed
        <3>6. \A n \in Known(p)' : HasRow(n)
            BY <3>2, <3>5 DEF Known
        <3>7. \A q \in Process \ {p} : Known(q)' = Known(q)
            BY <3>4 DEF Known
        <3>8. named' = [named EXCEPT ![p] = {row.name : row \in aspectRows}]
            BY <2>1 DEF LoadAspects
        <3>9. /\ named' \in [Process -> SUBSET Name]
              /\ \A n \in named'[p] : HasRow(n)
              /\ \A q \in Process \ {p} : named'[q] = named[q]
            BY <3>8 DEF IInv, Typed, HasRow
        <3> QED BY <3>3, <3>6, <3>7, <3>9 DEF InMemory
    <2>2. CASE UNCHANGED <<order, basis, named>>
        BY <2>2 DEF InMemory, Known, IInv, Typed
    <2> QED BY <2>1, <2>2 DEF Boot
<1>6. MemoryIsBacked'
    BY <1>2, <1>5, BackedStays DEF IInv, MemoryIsBacked, Backed
<1>7. Typed'
    BY <1>1, <1>5 DEF IInv, Typed
<1> QED BY <1>3, <1>4, <1>6, <1>7 DEF IInv

(* A call cut off before its row is on record as failed.                   *)
LEMMA EndKeeps ==
    ASSUME IInv, NEW p \in Process, End(p)
    PROVE  IInv'
<1>1. UNCHANGED <<aspectRows, latest, proposals, gossiped>> /\ strain \subseteq strain'
    BY DEF End, Forget, aspectTables
<1>2. /\ frame' = [c \in Caller |-> IF Home[c] = p THEN Idle ELSE frame[c]]
      /\ held' = [c \in Caller |-> IF Home[c] = p THEN NoProposal ELSE held[c]]
      /\ (\E c \in Caller : Home[c] = p /\ Unwritten(c)) => "failed" \in strain'
    BY DEF End, Forget
<1>3. \A c \in Caller : Home[c] # p => frame'[c] = frame[c] /\ held'[c] = held[c]
    BY <1>2
<1>4. Lasting
    BY <1>1, <1>2, <1>3 DEF Lasting, Unwritten
<1>5. ASSUME NEW c \in Caller PROVE CallInv(c)'
    <2>1. CASE Home[c] = p
        <3>1. frame'[c].pc = "idle"
            BY <1>2, <2>1 DEF Idle
        <3> QED BY <3>1, NothingToKeep DEF OnName
    <2>2. CASE Home[c] # p
        BY <1>1, <1>3, <1>4, <2>2, CallInvStays DEF IInv
    <2> QED BY <2>1, <2>2
<1>6. AcceptedIsBacked'
    BY <1>1, <1>4, BackedStays DEF IInv, AcceptedIsBacked
<1>7. /\ order' = [order EXCEPT ![p] = << >>] /\ basis' = [basis EXCEPT ![p] = 0]
      /\ named' = [named EXCEPT ![p] = {}]
    BY DEF End, Forget
<1>8. << >> \in Seq(Name) /\ ToSet(<< >>) = {}
    BY DEF ToSet
<1>9. \A q \in Process : InMemory(q)' \subseteq InMemory(q)
    BY <1>7, <1>8 DEF InMemory, Known, IInv, Typed
<1>10. MemoryIsBacked'
    BY <1>4, <1>9, BackedStays DEF IInv, MemoryIsBacked
<1>11. Typed'
    <2>1. NoProposal \in Proposal
        BY DEF NoProposal, Proposal, Status
    <2> QED BY <1>1, <1>2, <1>7, <1>8, <2>1, IdleType DEF IInv, Typed
<1> QED BY <1>5, <1>6, <1>10, <1>11 DEF IInv

(* What no step of another component touches stays as it is.               *)
LEMMA IdleKeeps ==
    ASSUME IInv, UNCHANGED registryAll
    PROVE  IInv'
BY DEF IInv, Typed, MemoryIsBacked, InMemory, CallInv, AcceptedIsBacked, Known, Backed, HasRow, Unwritten,
       At, registryAll, registryVars, memory, aspectTables, genesisVars

LEMMA InitIInv == Init => IInv
<1> SUFFICES ASSUME Init PROVE IInv
    OBVIOUS
<1>1. /\ order = [p \in Process |-> << >>] /\ basis = [p \in Process |-> 0]
      /\ named = [p \in Process |-> {}]
    BY DEF Init, RegistryInit
<1>2. frame = [c \in Caller |-> Idle] /\ held = [c \in Caller |-> NoProposal]
    BY DEF Init, RegistryInit, GenesisInit
<1>3. aspectRows \subseteq [name : Name, ordinal : Nat] /\ IsFiniteSet(aspectRows)
    <2>1. \/ aspectRows = {}
          \/ \E n \in Name : aspectRows = {[name |-> n, ordinal |-> 1]}
        BY DEF Init, RegistryInit
    <2>2. CASE aspectRows = {}
        BY <2>2, FS_EmptySet
    <2>3. ASSUME NEW n \in Name, aspectRows = {[name |-> n, ordinal |-> 1]}
          PROVE  aspectRows \subseteq [name : Name, ordinal : Nat] /\ IsFiniteSet(aspectRows)
        <3> PICK row : row = [name |-> n, ordinal |-> 1]
            OBVIOUS
        <3>1. IsFiniteSet({row})
            BY FS_Singleton
        <3> QED BY <2>3, <3>1
    <2> QED BY <2>1, <2>2, <2>3
<1>4. latest \in Nat
    BY <1>3, FS_CardinalityType DEF Init, RegistryInit
<1>5. /\ proposals \in [Name -> Proposal]
      /\ \A n \in Name : proposals[n].status # "ACCEPTED"
    <2>1. \A n \in Name : proposals[n] \in {NoProposal, Proposed, [Proposed EXCEPT !.reviewed = TRUE]}
        BY DEF Init, GenesisInit
    <2>2. proposals \in [Name -> {NoProposal, Proposed, [Proposed EXCEPT !.reviewed = TRUE]}]
        BY DEF Init, GenesisInit
    <2>3. \A row \in {NoProposal, Proposed, [Proposed EXCEPT !.reviewed = TRUE]} :
              row \in Proposal /\ row.status # "ACCEPTED"
        <3>1. NoProposal \in Proposal /\ NoProposal.status # "ACCEPTED"
            BY DEF NoProposal, Proposal, Status
        <3>2. Proposed \in Proposal /\ Proposed.status # "ACCEPTED"
            BY DEF Proposed, Proposal, Status
        <3>3. /\ [Proposed EXCEPT !.reviewed = TRUE] \in Proposal
              /\ [Proposed EXCEPT !.reviewed = TRUE].status # "ACCEPTED"
            BY <3>2 DEF Proposal
        <3> QED BY <3>1, <3>2, <3>3
    <2> QED BY <2>1, <2>2, <2>3
<1>6. NoProposal \in Proposal
    BY DEF NoProposal, Proposal, Status
<1>7. Typed
    BY <1>1, <1>2, <1>3, <1>4, <1>5, <1>6, IdleType DEF Typed
<1>8. MemoryIsBacked
    BY <1>1 DEF MemoryIsBacked, InMemory, Known, ToSet
<1>9. \A c \in Caller : CallInv(c)
    BY <1>2 DEF CallInv, At, OnName, Idle
<1> QED BY <1>5, <1>7, <1>8, <1>9 DEF IInv, AcceptedIsBacked

LEMMA NextIInv == IInv /\ [Next]_vars => IInv'
<1> SUFFICES ASSUME IInv, [Next]_vars PROVE IInv'
    OBVIOUS
<1>1. CASE \E p \in Process : Migrate(p)
    BY <1>1, IdleKeeps DEF Migrate
<1>2. CASE \E p \in Process : Boot(p) \/ End(p)
    BY <1>2, BootKeeps, EndKeeps
<1>3. ASSUME NEW c \in Caller, Serve(c) PROVE IInv'
    BY <1>3, RegistryKeeps, GenesisKeeps, SigilKeeps DEF Serve
<1>4. CASE UNCHANGED vars
    BY <1>4, IdleKeeps DEF vars
<1> QED BY <1>1, <1>2, <1>3, <1>4 DEF Next

(* An accepted proposal was reviewed, and its aspect has a row or is about *)
(* to get one, however registrations, crashes and migrations interleave.   *)
THEOREM AcceptedForGood == Spec => []AcceptedIsRegistered
<1>1. IInv => AcceptedIsRegistered
    BY DEF IInv, AcceptedIsBacked, AcceptedIsRegistered, Backed
<1> QED BY <1>1, InitIInv, NextIInv, PTL DEF Spec

(* A decided proposal becomes undecided again only by the write of a call  *)
(* that read it before the decision (write_emergent_aspect writes every    *)
(* column of the copy), or by gossip.                                      *)
THEOREM DecidedForGood == Spec => DecidedStaysDecided
<1>1. IInv /\ [Next]_vars =>
        [\A n \in Name \ gossiped' :
          proposals[n].status \in {"ACCEPTED", "REJECTED"} /\ proposals'[n].status = "PROPOSED" =>
              \E c \in Caller : frame[c].name = n /\ At(c, "decide")
                                /\ held[c].status = "PROPOSED"]_vars
  <2> SUFFICES ASSUME IInv, Next, NEW n \in Name \ gossiped',
                      proposals[n].status \in {"ACCEPTED", "REJECTED"},
                      proposals'[n].status = "PROPOSED"
               PROVE  \E c \in Caller : frame[c].name = n /\ At(c, "decide")
                                        /\ held[c].status = "PROPOSED"
      BY DEF vars, registryAll, genesisVars
  <2>1. proposals \in [Name -> Proposal] /\ held \in [Caller -> Proposal]
        /\ proposals'[n] # proposals[n]
      BY DEF IInv, Typed
  <2>2. ASSUME NEW p \in Process PROVE ~(Migrate(p) \/ Boot(p) \/ End(p))
      BY <2>1 DEF Migrate, Boot, End, registryAll, genesisVars
  <2>3. PICK c \in Caller : GenesisStep(c)
      BY <2>1, <2>2 DEF Next, Serve, genesisVars
  <2>4. ASSUME WriteProposal(c) PROVE FALSE
      BY <2>1, <2>4 DEF WriteProposal, Exists
  <2>5. ASSUME NEW m \in Name, NEW row, MergeProposal(c, m, row) PROVE FALSE
      BY <2>1, <2>5 DEF MergeProposal
  <2>6. WriteRow(c)
      BY <2>1, <2>3, <2>4, <2>5 DEF GenesisStep, BeginPropose, BeginVerb, CheckRegistered, genesisVars
  <2>7. /\ At(c, "decide") /\ frame[c].name = n /\ proposals'[n] = Rewritten(c)
        /\ frame[c].verb \in Verb /\ held[c] \in Proposal
      BY <2>1, <2>6 DEF WriteRow, At, IInv, CallInv
  <2>8. CASE frame[c].verb = "accept"
      BY <2>7, <2>8 DEF Rewritten, Proposal
  <2>9. CASE frame[c].verb = "reject"
      BY <2>7, <2>9 DEF Rewritten, Proposal
  <2>10. CASE frame[c].verb = "review"
      <3>1. held[c].status = "PROPOSED"
          BY <2>7, <2>10 DEF Rewritten, Proposal
      <3> QED BY <2>7, <3>1
  <2> QED BY <2>7, <2>8, <2>9, <2>10 DEF Verb
<1> QED BY <1>1, InitIInv, NextIInv, PTL DEF Spec, DecidedStaysDecided

-----------------------------------------------------------------------------
(* Reference vectors.  Within the life of a process its basis version never *)
(* goes down, and goes up after every aspect that is registered; so vectors *)
(* stamped with the version of now know the aspects of now, but for the     *)
(* moment between the two.                                                  *)

\* No registration failed halfway or overlapped another one.
Sound == strain \cap {"failed", "overlapped"} = {}

Reference == [basis : Nat \cup {NoVersion}, names : SUBSET (Name \cup {NoName})]

\* What a process that is not up has in memory, and that nobody calls it.
OffInv ==
    /\ booted \subseteq Process
    /\ reference \in [Process -> Reference]
    /\ \A p \in Process \ booted : reference[p] = NoReference
    /\ \A c \in Caller : Home[c] \notin booted => At(c, "idle")

\* A registration has appended its aspect under the version before it.
Bumping(p) == \E c \in Caller : Home[c] = p /\ At(c, "bump")

\* Vectors for these names, stamped with version b, are not taken for newer.
Covered(p, b, names) ==
    /\ b <= basis[p]
    /\ names # {} /\ b = basis[p] /\ ~Bumping(p) => Known(p) \subseteq names

Alone == \A c, d \in Caller : Registering(c) /\ Registering(d) => c = d

\* Memory is one version ahead of the table at most, and only on its way there.
Ahead(c) == frame[c].pc \in {"index", "number", "read", "insert"}

BasisInv(p) ==
    /\ basis[p] <= latest + 1
    /\ (\A c \in Caller : Home[c] = p => ~Ahead(c)) => basis[p] <= latest

CacheInv(p) ==
    /\ reference[p].basis = NoVersion \/ reference[p].names # {}
    /\ p \notin raced => Covered(p, reference[p].basis, reference[p].names)

VersionInv(c) ==
    /\ At(c, "insert") => frame[c].version = latest + 1
    /\ At(c, "publish") => frame[c].version = latest

\* A rebuild that is alone is for a newer version than the cache is, up to
\* the moment it has put its vectors there and not yet their version.
RebuildInv(c) ==
    Embedding(c) =>
        /\ Covered(Home[c], frame[c].version, frame[c].known)
        /\ At(c, "stamp") => reference[Home[c]].names # {}
        /\ Home[c] \notin raced =>
              /\ reference[Home[c]].basis < frame[c].version
              /\ At(c, "stamp") => reference[Home[c]].names = frame[c].known
              /\ \A d \in Caller : Embedding(d) /\ Home[d] = Home[c] => d = c

DatedInv ==
    /\ OffInv
    /\ Sound =>
          /\ Alone
          /\ \A p \in booted : BasisInv(p) /\ CacheInv(p)
          /\ \A c \in Caller : VersionInv(c) /\ RebuildInv(c)

\* The frames of the other calls stay.
Others(c) == \A d \in Caller \ {c} : frame'[d] = frame[d]

LEMMA OffInvStays ==
    ASSUME OffInv, NEW c \in Caller, Home[c] \in booted, Others(c), booted' = booted,
           reference' \in [Process -> Reference],
           \A p \in Process \ booted : reference'[p] = reference[p]
    PROVE  OffInv'
BY DEF OffInv, Others, At

\* Vectors that were not taken for newer are not after the step.
CoverStays ==
    \A q \in booted, b \in Int, names \in SUBSET (Name \cup {NoName}) :
        Covered(q, b, names) => Covered(q, b, names)'

\* A rebuild begins beside another one only where that is on record.
NewcomersRace(c) ==
    Embedding(c)' /\ ~Embedding(c) =>
        \A d \in Caller \ {c} : Embedding(d) /\ Home[d] = Home[c] => Home[c] \in raced'

(* The step of one call that leaves the cached vectors alone, from what it *)
(* does to the versions.                                                   *)
LEMMA StepDated ==
    ASSUME IInv, DatedInv, NEW c \in Caller, Home[c] \in booted, Others(c),
           UNCHANGED <<reference, booted>>, raced \subseteq raced', strain \subseteq strain',
           Typed', NewcomersRace(c),
           Sound' => /\ Alone' /\ CoverStays
                     /\ \A q \in booted : BasisInv(q)'
                     /\ \A d \in Caller : VersionInv(d)'
                     /\ Embedding(c)' => RebuildInv(c)'
    PROVE  DatedInv'
<1>1. OffInv'
    BY OffInvStays DEF DatedInv, OffInv
<1> SUFFICES ASSUME Sound'
             PROVE  (\A p \in booted : CacheInv(p)') /\ (\A d \in Caller : RebuildInv(d)')
    BY <1>1 DEF DatedInv
<1>2. Sound
    BY DEF Sound
<1>t. Typed
    BY DEF IInv
<1>3. ASSUME NEW p \in booted PROVE CacheInv(p)'
    <2>1. CacheInv(p) /\ reference[p] \in Reference
        BY <1>2 DEF DatedInv, OffInv
    <2> PICK b, names : b = reference[p].basis /\ names = reference[p].names
        OBVIOUS
    <2>2. b \in Int /\ names \in SUBSET (Name \cup {NoName})
        BY <2>1 DEF Reference, NoVersion
    <2>3. p \notin raced => Covered(p, b, names)'
        BY <2>1, <2>2 DEF CacheInv, CoverStays
    <2> QED BY <2>1, <2>3 DEF CacheInv, Covered, Bumping, At
<1>4. ASSUME NEW d \in Caller PROVE RebuildInv(d)'
    <2>1. CASE d = c
        BY <2>1 DEF RebuildInv
    <2>2. CASE d # c
        <3> SUFFICES ASSUME Embedding(d)' PROVE RebuildInv(d)'
            BY DEF RebuildInv
        <3> PICK q, b, names : q = Home[d] /\ b = frame[d].version /\ names = frame[d].known
            OBVIOUS
        <3>1. frame'[d] = frame[d] /\ Embedding(d) /\ RebuildInv(d)
            BY <1>2, <2>2 DEF Others, Embedding, DatedInv
        <3>2. b \in Int /\ names \in SUBSET (Name \cup {NoName}) /\ q \in booted
            BY <1>t, <3>1 DEF Typed, FrameType, DatedInv, OffInv, Embedding, At
        <3>3. Covered(q, b, names)'
            BY <3>1, <3>2 DEF CoverStays, RebuildInv
        <3>4. ASSUME q \notin raced', NEW e \in Caller, Embedding(e)', Home[e] = q
              PROVE  e = d
            <4>1. CASE e = c
                <5>1. CASE Embedding(c)
                    BY <3>1, <3>4, <4>1, <5>1 DEF RebuildInv
                <5>2. CASE ~Embedding(c)
                    BY <2>2, <3>1, <3>4, <4>1, <5>2 DEF NewcomersRace
                <5> QED BY <5>1, <5>2
            <4>2. CASE e # c
                BY <3>1, <3>4, <4>2 DEF RebuildInv, Others, Embedding
            <4> QED BY <4>1, <4>2
        <3> QED BY <3>1, <3>3, <3>4 DEF RebuildInv, At, Covered, Bumping
    <2> QED BY <2>1, <2>2
<1> QED BY <1>3, <1>4

(* A step of a call that leaves memory and versions alone.                 *)
LEMMA CallDated ==
    ASSUME IInv, Typed', DatedInv, NEW c \in Caller, Home[c] \in booted, Others(c),
           UNCHANGED <<order, basis, reference, latest, booted>>,
           raced \subseteq raced', strain \subseteq strain', NewcomersRace(c),
           At(c, "bump") <=> At(c, "bump")',
           Sound' => /\ \/ ~Registering(c)' \/ Registering(c)
                        \/ \A d \in Caller \ {c} : ~Registering(d)
                     /\ Ahead(c) => Ahead(c)'
                     /\ VersionInv(c)'
                     /\ Embedding(c)' => RebuildInv(c)'
    PROVE  DatedInv'
<1> SUFFICES ASSUME Sound'
             PROVE  /\ Alone' /\ CoverStays
                    /\ \A q \in booted : BasisInv(q)'
                    /\ \A d \in Caller : VersionInv(d)'
    BY StepDated
<1>2. Sound
    BY DEF Sound
<1>3. \A p : Known(p)' = Known(p)
    BY DEF Known
<1>4. \A d \in Caller \ {c} : Registering(d)' <=> Registering(d)
    BY DEF Registering, Unwritten, Others
<1>5. \A d \in Caller : Ahead(d) => Ahead(d)'
    BY DEF Ahead, Others
<1>6. Alone'
    BY <1>2, <1>4 DEF Alone, DatedInv
<1>7. \A p : Bumping(p) <=> Bumping(p)'
    BY DEF Bumping, At, Others
<1>8. CoverStays
    BY <1>3, <1>7 DEF CoverStays, Covered
<1>9. \A q \in booted : BasisInv(q)'
    BY <1>2, <1>5 DEF DatedInv, BasisInv
<1>10. ASSUME NEW d \in Caller \ {c} PROVE VersionInv(d)'
    BY <1>2 DEF DatedInv, VersionInv, At, Others
<1> QED BY <1>6, <1>8, <1>9, <1>10

LEMMA BecomesOthers ==
    ASSUME Typed, NEW c \in Caller, NEW f, frame' = [frame EXCEPT ![c] = f]
    PROVE  Others(c) /\ frame'[c] = f
BY DEF Typed, Others

LEMMA GotoOthers ==
    ASSUME Typed, NEW c \in Caller, NEW pc, Goto(c, pc)
    PROVE  Others(c) /\ frame'[c] = [frame[c] EXCEPT !.pc = pc] /\ frame'[c].pc = pc
           /\ frame'[c].version = frame[c].version /\ frame'[c].name = frame[c].name
           /\ frame'[c].ordinal = frame[c].ordinal
BY DEF Typed, Others, Goto, FrameType

LEMMA ReturnOthers ==
    ASSUME Typed, NEW c \in Caller, Return(c)
    PROVE  Others(c) /\ frame'[c].pc = "idle"
BY DEF Typed, Others, Return, Idle

Apart == {"idle", "propose", "check", "register", "decide", "sigil"}

\* What the calls on proposals and sigils, and the start of a registration, do here.
StandsApart(c) ==
    /\ Others(c) /\ frame'[c].pc \in Apart /\ frame[c].pc \in Apart
    /\ UNCHANGED <<memory, aspectTables>> /\ strain \subseteq strain'

Proposes(c) == StandsApart(c) /\ ~At(c, "sigil") /\ frame'[c].pc # "sigil"

LEMMA RegisterProposes ==
    ASSUME IInv, NEW c \in Caller, NEW n \in Name, BeginRegister(c, n)
    PROVE  Proposes(c)
<1> PICK f : f = [Idle EXCEPT !.pc = "register", !.verb = "register", !.name = n]
    OBVIOUS
<1>1. f.pc = "register"
    BY DEF Idle
<1>2. frame' = [frame EXCEPT ![c] = f] /\ frame[c].pc = "idle"
      /\ UNCHANGED <<memory, aspectTables, strain>>
    BY DEF BeginRegister, At
<1> QED BY <1>1, <1>2, BecomesOthers DEF IInv, Proposes, StandsApart, Apart, At

LEMMA ProposalSteps ==
    ASSUME IInv, NEW c \in Caller,
           (\E n \in Name : BeginRegister(c, n)) \/ GenesisStep(c)
    PROVE  Proposes(c)
<1>a. Typed
    BY DEF IInv
<1>t. Typed /\ frame[c] \in FrameType
    BY <1>a DEF Typed
<1>1. ASSUME NEW n \in Name, BeginRegister(c, n) PROVE Proposes(c)
    BY <1>1, RegisterProposes
<1>2. ASSUME NEW found, BeginPropose(c, found) PROVE Proposes(c)
    <2> DEFINE f == [Idle EXCEPT !.pc = "propose", !.verb = "propose", !.known = found]
    <2>1. f.pc = "propose"
        BY DEF Idle
    <2>2. frame' = [frame EXCEPT ![c] = f] /\ frame[c].pc = "idle"
          /\ UNCHANGED <<memory, aspectTables, strain>>
        BY <1>2 DEF BeginPropose, At
    <2> HIDE DEF f
    <2> QED BY <1>t, <2>1, <2>2, BecomesOthers DEF Proposes, StandsApart, Apart, At
<1>3. ASSUME WriteProposal(c) PROVE Proposes(c)
    <2>1. frame[c].pc = "propose" /\ UNCHANGED <<memory, aspectTables, strain>>
        BY <1>3 DEF WriteProposal, At
    <2>2. CASE Return(c)
        BY <1>t, <2>1, <2>2, ReturnOthers DEF Proposes, StandsApart, Apart, At
    <2>3. CASE \E n : frame' = [frame EXCEPT ![c].known = @ \ {n}]
        <3>1. PICK n : frame' = [frame EXCEPT ![c] = [frame[c] EXCEPT !.known = @ \ {n}]]
            BY <2>3
        <3>2. [frame[c] EXCEPT !.known = @ \ {n}].pc = "propose"
            BY <1>t, <2>1 DEF FrameType
        <3>3. Others(c) /\ frame'[c].pc = "propose"
            BY <1>t, <3>1, <3>2, BecomesOthers
        <3> QED BY <2>1, <3>3 DEF Proposes, StandsApart, Apart, At
    <2> QED BY <1>3, <2>2, <2>3 DEF WriteProposal
<1>4. ASSUME NEW verb, NEW n, BeginVerb(c, verb, n) PROVE Proposes(c)
    <2> DEFINE f == [Idle EXCEPT !.pc = IF verb = "accept" THEN "check" ELSE "decide",
                                 !.verb = verb, !.name = n]
    <2>1. f.pc \in Apart /\ f.pc # "sigil"
        BY DEF Apart, Idle
    <2>2. frame' = [frame EXCEPT ![c] = f] /\ frame[c].pc = "idle"
          /\ UNCHANGED <<memory, aspectTables, strain>>
        BY <1>4 DEF BeginVerb, At
    <2> HIDE DEF f
    <2> QED BY <1>t, <2>1, <2>2, BecomesOthers DEF Proposes, StandsApart, Apart, At
<1>5. ASSUME CheckRegistered(c) PROVE Proposes(c)
    <2> PICK pc : pc = IF frame[c].name \in named[Here(c)] THEN "decide" ELSE "register"
        OBVIOUS
    <2>1. Goto(c, pc) /\ pc \in Apart /\ pc # "sigil" /\ frame[c].pc = "check"
          /\ UNCHANGED <<memory, aspectTables, strain>>
        BY <1>5 DEF CheckRegistered, At, Apart
    <2> QED BY <1>t, <2>1, GotoOthers DEF Proposes, StandsApart, Apart, At
<1>6. ASSUME WriteRow(c) PROVE Proposes(c)
    BY <1>t, <1>6, ReturnOthers DEF WriteRow, Proposes, StandsApart, Apart, At
<1>7. ASSUME NEW n, NEW row, MergeProposal(c, n, row) PROVE Proposes(c)
    BY <1>7 DEF MergeProposal, Proposes, StandsApart, Apart, At, Others
<1> QED BY <1>1, <1>2, <1>3, <1>4, <1>5, <1>6, <1>7 DEF GenesisStep

LEMMA SigilSteps ==
    ASSUME IInv, NEW c \in Caller, SigilStep(c, booted)
    PROVE  StandsApart(c)
<1>a. Typed
    BY DEF IInv
<1>t. Typed /\ frame[c] \in FrameType
    BY <1>a DEF Typed
<1>1. ASSUME NEW row, PutSigil(c, row, booted) PROVE StandsApart(c)
    <2> DEFINE f == [Idle EXCEPT !.pc = "sigil", !.verb = "sigil"]
    <2>1. f.pc = "sigil"
        BY DEF Idle
    <2>2. frame' = [frame EXCEPT ![c] = f] /\ frame[c].pc = "idle"
          /\ UNCHANGED <<memory, aspectTables>> /\ strain \subseteq strain'
        BY <1>1 DEF PutSigil, At
    <2> HIDE DEF f
    <2> QED BY <1>t, <2>1, <2>2, BecomesOthers DEF StandsApart, Apart
<1>2. ASSUME WriteSigil(c) PROVE StandsApart(c)
    BY <1>t, <1>2, ReturnOthers DEF WriteSigil, StandsApart, Apart, At
<1> QED BY <1>1, <1>2 DEF SigilStep

LEMMA ApartSteps ==
    ASSUME IInv, NEW c \in Caller,
           \/ \E n \in Name : BeginRegister(c, n)
           \/ GenesisStep(c)
           \/ SigilStep(c, booted)
    PROVE  StandsApart(c)
BY ProposalSteps, SigilSteps DEF Proposes

LEMMA ApartDated ==
    ASSUME IInv, Typed', DatedInv, NEW c \in Caller, Home[c] \in booted, StandsApart(c),
           booted' = booted
    PROVE  DatedInv'
<1>1. /\ ~Registering(c)' /\ ~Ahead(c) /\ ~Embedding(c)' /\ ~At(c, "bump") /\ ~At(c, "bump")'
      /\ VersionInv(c)'
    BY DEF StandsApart, Apart, Registering, Unwritten, Ahead, Embedding, VersionInv, At
<1> QED BY <1>1, CallDated DEF StandsApart, memory, aspectTables, NewcomersRace

(* A registration sets out: nobody else is at one.                         *)
LEMMA RegisterDated ==
    ASSUME IInv, Typed', DatedInv, NEW c \in Caller, Home[c] \in booted, Register(c, booted),
           booted' = booted
    PROVE  DatedInv'
<1>t. Typed /\ frame[c].pc = "register"
      /\ UNCHANGED <<order, basis, reference, raced, latest>> /\ strain \subseteq strain'
    BY DEF IInv, Register, memory, aspectTables, At
<1>1. Others(c) /\ frame'[c].pc \in {"idle", "append"}
    BY <1>t, ReturnOthers, GotoOthers DEF Register
<1>2. Sound' /\ frame'[c].pc = "append" => \A d \in Caller \ {c} : ~Registering(d)
    <2>1. CASE Return(c)
        BY <1>t, <2>1, ReturnOthers
    <2>2. CASE strain' = strain \cup Meets(c, booted)
        BY <2>2 DEF Sound, Meets
    <2> QED BY <2>1, <2>2 DEF Register
<1>3. /\ ~Ahead(c) /\ ~Embedding(c)' /\ ~At(c, "bump") /\ ~At(c, "bump")' /\ VersionInv(c)'
      /\ frame'[c].pc = "idle" => ~Registering(c)'
    BY <1>t, <1>1 DEF Registering, Unwritten, Ahead, Embedding, VersionInv, At
<1> QED BY <1>t, <1>1, <1>2, <1>3, CallDated DEF NewcomersRace

(* The order grows; until the version follows, nothing is claimed of the   *)
(* vectors that are stamped with it.                                       *)
LEMMA AppendDated ==
    ASSUME IInv, Typed', DatedInv, NEW c \in Caller, Home[c] \in booted, AppendAspect(c),
           booted' = booted
    PROVE  DatedInv'
<1> PICK p : p = Home[c]
    OBVIOUS
<1>t. /\ Typed /\ p \in Process /\ frame[c].pc = "append"
      /\ UNCHANGED <<basis, reference, raced, latest, strain>>
      /\ order' = [order EXCEPT ![p] = Append(@, frame[c].name)]
    BY RegistryAssumption DEF IInv, AppendAspect, aspectTables, At, Here
<1>1. Others(c) /\ frame'[c].pc = "bump"
    BY <1>t, GotoOthers DEF AppendAspect
<1>2. Registering(c) /\ ~Ahead(c) /\ ~Embedding(c)' /\ VersionInv(c)' /\ Bumping(p)'
    BY <1>t, <1>1 DEF Registering, Ahead, Embedding, VersionInv, At, Bumping
<1> SUFFICES ASSUME Sound
             PROVE  /\ Alone' /\ CoverStays
                    /\ \A q \in booted : BasisInv(q)'
                    /\ \A d \in Caller : VersionInv(d)'
    BY <1>t, <1>1, <1>2, StepDated DEF NewcomersRace, Sound
<1>3. Alone'
    BY <1>1, <1>2 DEF DatedInv, Alone, Others, Registering, Unwritten
<1>4. CoverStays
    <2> SUFFICES ASSUME NEW q \in booted, NEW b \in Int, NEW names, Covered(q, b, names)
                 PROVE  Covered(q, b, names)'
        BY DEF CoverStays
    <2>1. CASE q = p
        BY <1>t, <1>2, <2>1 DEF Covered
    <2>2. CASE q # p
        <3>1. Known(q)' = Known(q) /\ (Bumping(q) => Bumping(q)')
            BY <1>t, <1>1, <2>2 DEF Known, Typed, DatedInv, OffInv, Bumping, At, Others
        <3> QED BY <1>t, <3>1 DEF Covered
    <2> QED BY <2>1, <2>2
<1>5. \A q \in booted : BasisInv(q)'
    BY <1>t, <1>1, <1>2 DEF DatedInv, BasisInv, Ahead, Others
<1>6. \A d \in Caller \ {c} : VersionInv(d)'
    BY <1>t, <1>1 DEF DatedInv, VersionInv, At, Others
<1> QED BY <1>2, <1>3, <1>4, <1>5, <1>6

(* Nobody else is at a registration, so memory was not ahead of the table; *)
(* the new version is newer than every stamp.                              *)
LEMMA BumpDated ==
    ASSUME IInv, Typed', DatedInv, NEW c \in Caller, Home[c] \in booted, BumpVersion(c),
           booted' = booted
    PROVE  DatedInv'
<1> PICK p : p = Home[c]
    OBVIOUS
<1>t. /\ Typed /\ p \in Process /\ p \in booted /\ frame[c].pc = "bump"
      /\ UNCHANGED <<order, reference, raced, latest, strain>>
      /\ basis' = [basis EXCEPT ![p] = @ + 1] /\ latest \in Nat
    BY RegistryAssumption DEF IInv, Typed, BumpVersion, aspectTables, At, Here
<1>1. Others(c) /\ frame'[c].pc = "index"
    BY <1>t, GotoOthers DEF BumpVersion
<1>2. Registering(c) /\ ~Ahead(c) /\ Ahead(c)' /\ ~Embedding(c)' /\ VersionInv(c)'
    BY <1>t, <1>1 DEF Registering, Unwritten, Ahead, Embedding, VersionInv, At
<1> SUFFICES ASSUME Sound
             PROVE  /\ Alone' /\ CoverStays
                    /\ \A q \in booted : BasisInv(q)'
                    /\ \A d \in Caller : VersionInv(d)'
    BY <1>t, <1>1, <1>2, StepDated DEF NewcomersRace, Sound
<1>3. Alone'
    BY <1>1, <1>2 DEF DatedInv, Alone, Others, Registering, Unwritten
<1>4. \A d \in Caller \ {c} : ~Ahead(d) /\ ~At(d, "bump")
    BY <1>2 DEF DatedInv, Alone, Ahead, Registering, Unwritten, At
<1>5. /\ basis'[p] = basis[p] + 1 /\ basis[p] \in Nat /\ basis[p] <= latest
      /\ \A q \in booted \ {p} : basis'[q] = basis[q]
    BY <1>t, <1>2, <1>4 DEF DatedInv, OffInv, BasisInv, Typed
<1>6. CoverStays
    <2> SUFFICES ASSUME NEW q \in booted, NEW b \in Int, NEW names, Covered(q, b, names)
                 PROVE  Covered(q, b, names)'
        BY DEF CoverStays
    <2>1. CASE q = p
        <3>1. b <= basis'[p] /\ b # basis'[p]
            BY <1>5, <2>1 DEF Covered
        <3> QED BY <2>1, <3>1 DEF Covered
    <2>2. CASE q # p
        <3>1. Known(q)' = Known(q) /\ ~Bumping(q) /\ basis'[q] = basis[q]
            BY <1>t, <1>4, <1>5, <2>2 DEF Known, Bumping
        <3> QED BY <3>1 DEF Covered
    <2> QED BY <2>1, <2>2
<1>7. ASSUME NEW q \in booted PROVE BasisInv(q)'
    <2>1. CASE q = p
        <3>1. basis'[q] <= latest' + 1
            BY <1>t, <1>5, <2>1
        <3> QED BY <1>2, <2>1, <3>1 DEF BasisInv
    <2>2. CASE q # p
        BY <1>t, <1>2, <1>4, <1>5, <2>2 DEF DatedInv, BasisInv
    <2> QED BY <2>1, <2>2
<1>8. \A d \in Caller \ {c} : VersionInv(d)'
    BY <1>t, <1>1 DEF DatedInv, VersionInv, At, Others
<1> QED BY <1>2, <1>3, <1>6, <1>7, <1>8

(* The index, and the ordinal and the version the row is to have: the next *)
(* version is read by the only call there is to write one.                 *)
LEMMA NumberDated ==
    ASSUME IInv, Typed', DatedInv, NEW c \in Caller, Home[c] \in booted,
           IndexAspect(c) \/ Number(c) \/ ReadVersion(c), booted' = booted
    PROVE  DatedInv'
<1>t. /\ Typed /\ frame[c] \in FrameType /\ Ahead(c) /\ ~At(c, "bump")
      /\ UNCHANGED <<order, basis, reference, raced, latest, strain>>
    BY DEF IInv, Typed, IndexAspect, Number, ReadVersion, memory, aspectTables, Ahead, At
<1>1. CASE IndexAspect(c)
    <2>1. Others(c) /\ frame'[c].pc = "number"
        BY <1>t, <1>1, GotoOthers DEF IndexAspect
    <2> QED BY <1>t, <2>1, CallDated
            DEF VersionInv, At, Ahead, Registering, Unwritten, Embedding, NewcomersRace
<1>2. CASE Number(c)
    <2>1. Others(c) /\ frame'[c] = [frame[c] EXCEPT !.pc = "read", !.ordinal = Len(order[Here(c)])]
        BY <1>t, <1>2, BecomesOthers DEF Number
    <2>2. frame'[c].pc = "read"
        BY <1>t, <2>1 DEF FrameType
    <2> QED BY <1>t, <2>1, <2>2, CallDated
            DEF VersionInv, At, Ahead, Registering, Unwritten, Embedding, NewcomersRace
<1>3. CASE ReadVersion(c)
    <2>1. Others(c) /\ frame'[c] = [frame[c] EXCEPT !.pc = "insert", !.version = latest + 1]
        BY <1>t, <1>3, BecomesOthers DEF ReadVersion
    <2>2. frame'[c].pc = "insert" /\ frame'[c].version = latest + 1
        BY <1>t, <2>1 DEF FrameType
    <2> QED BY <1>t, <2>1, <2>2, CallDated
            DEF VersionInv, At, Ahead, Registering, Unwritten, Embedding, NewcomersRace
<1> QED BY <1>1, <1>2, <1>3

(* The row brings the table to the version of memory.                      *)
LEMMA InsertDated ==
    ASSUME IInv, Typed', DatedInv, NEW c \in Caller, Home[c] \in booted, InsertAspect(c),
           booted' = booted
    PROVE  DatedInv'
<1>t. Typed /\ UNCHANGED <<order, basis, reference, raced>> /\ frame[c].pc = "insert"
    BY DEF IInv, InsertAspect, memory, At
<1>1. CASE Return(c) /\ strain' = strain \cup {"failed"} /\ UNCHANGED aspectTables
    <2>1. Others(c) /\ ~Sound'
        BY <1>t, <1>1, ReturnOthers DEF Sound
    <2>2. OffInv'
        BY <1>t, <2>1, OffInvStays DEF DatedInv, OffInv
    <2> QED BY <2>1, <2>2 DEF DatedInv
<1>2. CASE latest' = Larger(latest, frame[c].version) /\ Goto(c, "publish") /\ strain' = strain
    <2>1. Others(c) /\ frame'[c].pc = "publish" /\ frame'[c].version = frame[c].version
        BY <1>t, <1>2, GotoOthers
    <2>2. ~Embedding(c)' /\ ~At(c, "bump") /\ ~At(c, "bump")' /\ Registering(c)
        BY <1>t, <2>1 DEF Embedding, At, Registering, Unwritten
    <2> SUFFICES ASSUME Sound
                 PROVE  /\ Alone' /\ CoverStays
                        /\ \A q \in booted : BasisInv(q)'
                        /\ \A d \in Caller : VersionInv(d)'
        BY <1>t, <1>2, <2>1, <2>2, StepDated DEF NewcomersRace, Sound
    <2>3. latest' = latest + 1 /\ latest \in Nat /\ frame[c].version = latest + 1
        <3>1. frame[c].version = latest + 1 /\ latest \in Nat
            BY <1>t DEF DatedInv, VersionInv, At, Typed
        <3> QED BY <1>2, <3>1 DEF Larger
    <2>4. \A d \in Caller \ {c} : ~Registering(d)
        BY <2>2 DEF DatedInv, Alone
    <2>5. \A d \in Caller \ {c} : ~Registering(d)'
        BY <2>1, <2>4 DEF Registering, Unwritten, Others
    <2>6. CoverStays
        BY <1>t, <2>1, <2>2 DEF CoverStays, Covered, Known, Bumping, At, Others
    <2>7. ASSUME NEW q \in booted PROVE BasisInv(q)'
        <3>1. basis[q] \in Nat /\ basis[q] <= latest + 1
            BY <1>t DEF DatedInv, OffInv, Typed, BasisInv
        <3>2. basis'[q] <= latest' /\ basis'[q] <= latest' + 1
            BY <1>t, <2>3, <3>1
        <3> QED BY <3>2 DEF BasisInv
    <2>8. VersionInv(c)'
        BY <2>1, <2>3 DEF VersionInv, At
    <2>9. \A d \in Caller \ {c} : VersionInv(d)'
        BY <2>5 DEF VersionInv, At, Registering, Unwritten
    <2>10. Alone'
        BY <2>5 DEF Alone
    <2> QED BY <2>6, <2>7, <2>8, <2>9, <2>10
<1> QED BY <1>1, <1>2 DEF InsertAspect

(* And Publish brings memory to the version of the table.                  *)
LEMMA PublishDated ==
    ASSUME IInv, Typed', DatedInv, NEW c \in Caller, Home[c] \in booted, Publish(c),
           booted' = booted
    PROVE  DatedInv'
<1> PICK p, v : p = Home[c] /\ v = frame[c].version
    OBVIOUS
<1>t. Typed /\ UNCHANGED <<order, reference, raced, latest, strain>> /\ frame[c].pc = "publish"
      /\ p \in booted /\ v \in Nat /\ latest \in Nat
      /\ basis' = [basis EXCEPT ![p] = v]
    BY DEF IInv, Publish, aspectTables, At, Here, Typed, FrameType
<1>1. Others(c) /\ frame'[c].pc \in {"decide", "idle"}
    BY <1>t, GotoOthers, ReturnOthers DEF Publish
<1>2. ~Embedding(c)' /\ ~At(c, "bump") /\ ~At(c, "bump")' /\ VersionInv(c)' /\ Registering(c)
    BY <1>t, <1>1 DEF Embedding, At, VersionInv, Registering
<1> SUFFICES ASSUME Sound
             PROVE  /\ Alone' /\ CoverStays
                    /\ \A q \in booted : BasisInv(q)'
                    /\ \A d \in Caller : VersionInv(d)'
    BY <1>t, <1>1, <1>2, StepDated DEF NewcomersRace, Sound
<1>3. \A d \in Caller \ {c} : ~Registering(d)
    BY <1>2 DEF DatedInv, Alone
<1>4. \A d \in Caller : ~Registering(d)' /\ ~Ahead(d)
    BY <1>t, <1>1, <1>3 DEF Registering, Unwritten, Others, Ahead
<1>5. booted \subseteq Process
    BY DEF DatedInv, OffInv
<1>6. v = latest /\ \A q \in booted : basis[q] <= latest /\ basis[q] \in Nat
    BY <1>t, <1>4, <1>5 DEF DatedInv, VersionInv, At, BasisInv, Typed
<1>7. basis'[p] = latest /\ \A q \in booted \ {p} : basis'[q] = basis[q]
    BY <1>t, <1>5, <1>6 DEF Typed
<1>8. CoverStays
    <2> SUFFICES ASSUME NEW q \in booted, NEW b \in Int, NEW names, Covered(q, b, names)
                 PROVE  Covered(q, b, names)'
        BY DEF CoverStays
    <2>1. Known(q)' = Known(q) /\ (Bumping(q) => Bumping(q)')
        BY <1>t, <1>1, <1>2 DEF Known, Bumping, At, Others
    <2>2. CASE q = p
        <3>1. b <= basis[q] /\ basis[q] <= latest /\ basis'[q] = latest
            BY <1>6, <1>7, <2>2 DEF Covered
        <3>2. b <= basis'[q] /\ (b = basis'[q] => b = basis[q])
            BY <1>t, <1>6, <3>1
        <3> QED BY <2>1, <3>2 DEF Covered
    <2>3. CASE q # p
        BY <1>7, <2>1, <2>3 DEF Covered
    <2> QED BY <2>2, <2>3
<1>9. ASSUME NEW q \in booted PROVE BasisInv(q)'
    <2>1. basis'[q] <= latest' /\ basis'[q] <= latest' + 1
        BY <1>t, <1>6, <1>7
    <2> QED BY <2>1 DEF BasisInv
<1>10. \A d \in Caller \ {c} : VersionInv(d)'
    BY <1>4 DEF VersionInv, At, Registering, Unwritten
<1>11. Alone'
    BY <1>4 DEF Alone
<1> QED BY <1>2, <1>8, <1>9, <1>10, <1>11

(* A rebuild sets out only from a stale cache: its version is newer, or    *)
(* nothing was cached.  It reads its texts after that version.             *)
LEMMA EmbedDated ==
    ASSUME IInv, Typed', DatedInv, NEW c \in Caller, Home[c] \in booted,
           BeginEmbed(c) \/ ReadTexts(c), booted' = booted
    PROVE  DatedInv'
<1> PICK p : p = Home[c]
    OBVIOUS
<1>t. /\ Typed /\ frame[c] \in FrameType /\ UNCHANGED <<order, basis, reference, latest, strain>>
      /\ frame[c].pc \in {"idle", "embed"} /\ raced \subseteq raced'
      /\ p \in booted /\ p \in Process /\ basis[p] \in Nat /\ reference[p] \in Reference
    BY DEF IInv, Typed, BeginEmbed, ReadTexts, memory, aspectTables, At, DatedInv, OffInv
<1>2. Known(p)' = Known(p)
    BY <1>t DEF Known
<1>3. CASE BeginEmbed(c)
    <2> PICK f : f = [Idle EXCEPT !.pc = "embed", !.version = basis[p]]
        OBVIOUS
    <2>1. f.pc = "embed" /\ f.version = basis[p] /\ f.known = {}
        BY DEF Idle
    <2>2. /\ frame' = [frame EXCEPT ![c] = f] /\ ~Fresh(p) /\ frame[c].pc = "idle"
          /\ \A d \in Caller : Home[d] = p /\ Embedding(d) => p \in raced'
        BY <1>3 DEF BeginEmbed, Here, At
    <2>3. Others(c) /\ frame'[c] = f
        BY <1>t, <2>2, BecomesOthers
    <2>4. /\ ~Registering(c)' /\ ~Ahead(c) /\ ~At(c, "bump") /\ ~At(c, "bump")' /\ VersionInv(c)'
          /\ NewcomersRace(c)
        BY <2>1, <2>2, <2>3 DEF Registering, Unwritten, Ahead, At, VersionInv, NewcomersRace
    <2>5. ASSUME Sound PROVE RebuildInv(c)'
        <3>1. Covered(p, f.version, f.known)'
            BY <1>t, <2>1 DEF Covered
        <3>2. ~At(c, "stamp")'
            BY <2>1, <2>3 DEF At
        <3>3. ASSUME p \notin raced' PROVE reference[p].basis < basis[p]
            <4>1. /\ Covered(p, reference[p].basis, reference[p].names)
                  /\ reference[p].basis = NoVersion \/ reference[p].names # {}
                BY <1>t, <2>5, <3>3 DEF DatedInv, CacheInv
            <4>2. reference[p].basis \in Int
                BY <1>t DEF Reference, NoVersion
            <4>3. CASE reference[p].basis = NoVersion
                BY <1>t, <4>3 DEF NoVersion
            <4>4. CASE reference[p].names # {}
                BY <1>t, <2>2, <4>1, <4>2, <4>4 DEF Covered, Fresh
            <4> QED BY <4>1, <4>3, <4>4
        <3>4. ASSUME p \notin raced', NEW d \in Caller, Embedding(d)', Home[d] = p
              PROVE  d = c
            BY <2>2, <2>3, <3>4 DEF Others, Embedding
        <3> QED BY <1>t, <2>1, <2>3, <3>1, <3>2, <3>3, <3>4 DEF RebuildInv, Covered, Bumping, At
    <2> QED BY <1>t, <2>3, <2>4, <2>5, CallDated DEF Sound
<1>4. CASE ReadTexts(c)
    <2> PICK f : f = [frame[c] EXCEPT !.known = Known(p) \cup {NoName}]
        OBVIOUS
    <2>1. f.pc = "embed" /\ f.version = frame[c].version /\ f.known = Known(p) \cup {NoName}
        BY <1>t, <1>4 DEF FrameType, ReadTexts, At
    <2>2. /\ frame' = [frame EXCEPT ![c] = f] /\ frame[c].pc = "embed" /\ raced' = raced
        BY <1>4 DEF ReadTexts, Here, At, memory
    <2>3. Others(c) /\ frame'[c] = f
        BY <1>t, <2>2, BecomesOthers
    <2>4. /\ ~Registering(c)' /\ ~Ahead(c) /\ ~At(c, "bump") /\ ~At(c, "bump")' /\ VersionInv(c)'
          /\ NewcomersRace(c) /\ Embedding(c)
        BY <2>1, <2>2, <2>3
           DEF Registering, Unwritten, Ahead, At, VersionInv, NewcomersRace, Embedding
    <2>5. ASSUME Sound PROVE RebuildInv(c)'
        <3>1. RebuildInv(c) /\ Embedding(c)
            BY <2>4, <2>5 DEF DatedInv
        <3>2. Covered(p, f.version, f.known)'
            BY <1>t, <1>2, <2>1, <3>1 DEF Covered, RebuildInv
        <3>3. ~At(c, "stamp")'
            BY <2>1, <2>3 DEF At
        <3>4. ASSUME p \notin raced', NEW d \in Caller, Embedding(d)', Home[d] = p
              PROVE  d = c
            BY <2>2, <2>3, <3>1, <3>4 DEF RebuildInv, Others, Embedding
        <3>5. Covered(Home[c], frame[c].version, frame[c].known)'
            BY <2>3, <3>2 DEF Covered, Bumping, At
        <3> QED BY <1>t, <2>1, <2>2, <2>3, <3>1, <3>3, <3>4, <3>5 DEF RebuildInv, At
    <2> QED BY <1>t, <2>2, <2>3, <2>4, <2>5, CallDated DEF Sound
<1> QED BY <1>3, <1>4

(* A rebuild stores: while it is alone, a newer stamp follows its vectors. *)
LEMMA CacheDated ==
    ASSUME IInv, Typed', DatedInv, NEW c \in Caller, Home[c] \in booted,
           StoreVectors(c) \/ StampVectors(c), booted' = booted
    PROVE  DatedInv'
<1> PICK p : p = Home[c]
    OBVIOUS
<1>t. /\ Typed /\ frame[c] \in FrameType
      /\ UNCHANGED <<order, basis, raced, latest, strain>>
      /\ frame[c].pc \in {"embed", "stamp"} /\ frame'[c].pc \in {"idle", "stamp"} /\ Others(c)
      /\ p \in booted /\ p \in Process /\ reference[p] \in Reference
    BY ReturnOthers, GotoOthers
       DEF IInv, Typed, StoreVectors, StampVectors, aspectTables, At, DatedInv, OffInv
<1> PICK r : r = reference'[p]
    OBVIOUS
<1>1. /\ r \in Reference /\ reference' \in [Process -> Reference] /\ reference'[p] = r
      /\ \A q \in Process \ {p} : reference'[q] = reference[q]
    <2>1. reference \in [Process -> Reference]
        BY DEF DatedInv, OffInv
    <2>2. CASE StoreVectors(c)
        <3>1. [reference[p] EXCEPT !.names = frame[c].known] \in Reference
            BY <1>t DEF Reference, FrameType
        <3> QED BY <1>t, <2>1, <2>2, <3>1 DEF StoreVectors, Here
    <2>3. CASE StampVectors(c)
        <3>1. [reference[p] EXCEPT !.basis = frame[c].version] \in Reference
            BY <1>t DEF Reference, FrameType
        <3> QED BY <1>t, <2>1, <2>3, <3>1 DEF StampVectors, Stamped, Here
    <2> QED BY <2>2, <2>3
<1>2. OffInv'
    <2>1. OffInv
        BY DEF DatedInv
    <2> QED BY <1>t, <1>1, <2>1, OffInvStays
<1> SUFFICES ASSUME Sound
             PROVE  /\ Alone'
                    /\ \A q \in booted : BasisInv(q)' /\ CacheInv(q)'
                    /\ \A d \in Caller : VersionInv(d)' /\ RebuildInv(d)'
    BY <1>t, <1>2 DEF DatedInv, Sound
<1>3. \A d \in Caller : /\ Registering(d)' => Registering(d)
                        /\ Ahead(d) => Ahead(d)'
                        /\ Embedding(d)' => Embedding(d)
    BY <1>t DEF Registering, Unwritten, Ahead, Embedding, Others
<1>4. \A q : Known(q)' = Known(q) /\ (Bumping(q) <=> Bumping(q)')
    BY <1>t DEF Known, Bumping, At, Others
<1>5. \A q, b, names : Covered(q, b, names) <=> Covered(q, b, names)'
    BY <1>t, <1>4 DEF Covered
<1>6. Alone'
    BY <1>3 DEF Alone, DatedInv
<1>7. \A q \in booted : BasisInv(q)'
    BY <1>t, <1>3 DEF DatedInv, BasisInv
<1>8. \A d \in Caller : VersionInv(d)'
    BY <1>t DEF DatedInv, VersionInv, At, Others
<1>9. Embedding(c) /\ RebuildInv(c) /\ CacheInv(p)
    BY <1>t DEF DatedInv, Embedding
<1>10. ASSUME NEW q \in booted \ {p} PROVE CacheInv(q)'
    <2>1. CacheInv(q) /\ reference'[q] = reference[q]
        BY <1>1 DEF DatedInv, OffInv
    <2> PICK b, names : b = reference[q].basis /\ names = reference[q].names
        OBVIOUS
    <2>2. q \notin raced => Covered(q, b, names)'
        BY <1>5, <2>1 DEF CacheInv
    <2>3. q \notin raced => Covered(q, reference[q].basis, reference[q].names)'
        BY <2>1, <2>2 DEF Covered, Bumping, At
    <2> QED BY <1>t, <2>1, <2>3 DEF CacheInv
<1>11. ASSUME NEW d \in Caller, Home[d] # p PROVE RebuildInv(d)'
    <2>1. frame'[d] = frame[d] /\ RebuildInv(d) /\ Home[d] \in Process
        BY <1>t, <1>11, RegistryAssumption DEF Others, DatedInv
    <2>2. reference'[Home[d]] = reference[Home[d]]
        BY <1>1, <1>11, <2>1
    <2> PICK q, b, names : q = Home[d] /\ b = frame[d].version /\ names = frame[d].known
        OBVIOUS
    <2>3. Embedding(d) => Covered(q, b, names)'
        BY <1>5, <2>1 DEF RebuildInv
    <2>4. Embedding(d) => Covered(Home[d], frame[d].version, frame[d].known)'
        BY <2>1, <2>3 DEF Covered, Bumping, At
    <2> QED BY <1>t, <1>3, <2>1, <2>2, <2>4 DEF RebuildInv, At
<1>12. r.names # {}
    <2>1. CASE StoreVectors(c)
        BY <1>t, <1>1, <2>1 DEF StoreVectors, Here, Reference, DatedInv, OffInv
    <2>2. CASE StampVectors(c)
        BY <1>t, <1>1, <1>9, <2>2 DEF StampVectors, Here, Reference, DatedInv, OffInv,
           RebuildInv, At
    <2> QED BY <2>1, <2>2
<1>13. ASSUME NEW d \in Caller \ {c}, Home[d] = p PROVE RebuildInv(d)'
    <2>1. frame'[d] = frame[d] /\ RebuildInv(d)
        BY <1>t DEF Others, DatedInv
    <2>2. Embedding(d) => p \in raced
        BY <1>9, <1>13 DEF RebuildInv
    <2> PICK b, names : b = frame[d].version /\ names = frame[d].known
        OBVIOUS
    <2>3. Embedding(d) => Covered(p, b, names)'
        BY <1>5, <1>13, <2>1 DEF RebuildInv
    <2>4. Embedding(d) => Covered(Home[d], frame[d].version, frame[d].known)'
        BY <1>13, <2>1, <2>3 DEF Covered, Bumping, At
    <2> QED BY <1>t, <1>1, <1>3, <1>12, <1>13, <2>1, <2>2, <2>4 DEF RebuildInv, At
<1>14. CacheInv(p)' /\ RebuildInv(c)'
    <2>1. CASE StoreVectors(c)
        <3>1. r.basis = reference[p].basis /\ r.names = frame[c].known
            BY <1>t, <1>1, <2>1 DEF StoreVectors, Here, Reference, DatedInv, OffInv
        <3>2. frame'[c].pc = "stamp" /\ frame'[c].version = frame[c].version
              /\ frame'[c].known = frame[c].known
            BY <1>t, <2>1 DEF StoreVectors, Goto, FrameType, Typed
        <3>3. p \notin raced => r.basis < frame[c].version /\ frame[c].version <= basis[p]
            BY <1>9, <3>1 DEF RebuildInv, Covered
        <3>4. frame[c].version \in Nat /\ basis[p] \in Nat /\ r.basis \in Int
            BY <1>t, <1>1 DEF FrameType, Typed, Reference, NoVersion
        <3>5. p \notin raced => r.basis <= basis[p] /\ r.basis # basis[p]
            BY <3>3, <3>4
        <3>6. CacheInv(p)'
            BY <1>t, <1>1, <1>12, <3>5 DEF CacheInv, Covered
        <3> PICK b, names : b = frame[c].version /\ names = frame[c].known
            OBVIOUS
        <3>7. Covered(p, b, names)'
            BY <1>5, <1>9 DEF RebuildInv
        <3> QED BY <1>t, <1>1, <1>3, <1>9, <1>12, <3>1, <3>2, <3>3, <3>6, <3>7
                DEF RebuildInv, Covered, Bumping, At
    <2>2. CASE StampVectors(c)
        <3>1. r.basis = frame[c].version /\ r.names = reference[p].names /\ frame[c].pc = "stamp"
            BY <1>t, <1>1, <2>2 DEF StampVectors, Stamped, Here, Reference, DatedInv, OffInv, At
        <3>2. frame'[c].pc = "idle"
            BY <1>t, <2>2, ReturnOthers DEF StampVectors
        <3>3. p \notin raced => r.names = frame[c].known
            BY <1>9, <3>1 DEF RebuildInv, At
        <3> PICK b, names : b = frame[c].version /\ names = frame[c].known
            OBVIOUS
        <3>4. Covered(p, b, names)'
            BY <1>5, <1>9 DEF RebuildInv
        <3>5. CacheInv(p)'
            BY <1>t, <1>1, <1>12, <3>1, <3>3, <3>4 DEF CacheInv, Covered, Bumping, At
        <3> QED BY <3>2, <3>5 DEF RebuildInv, Embedding
    <2> QED BY <2>1, <2>2
<1> QED BY <1>6, <1>7, <1>8, <1>10, <1>11, <1>13, <1>14

\* A process that starts takes the version of the table.
LEMMA BootDated ==
    ASSUME IInv, DatedInv, NEW p \in Process, Boot(p)
    PROVE  DatedInv'
<1>t. Typed /\ UNCHANGED <<reference, raced, frame, latest>> /\ strain \subseteq strain'
      /\ p \notin booted /\ latest \in Nat
    BY DEF IInv, Typed, Boot, aspectTables
<1>1. \/ LoadAspects(p) /\ booted' = booted \cup {p}
      \/ UNCHANGED <<order, basis, booted>>
    BY DEF Boot
<1>2. OffInv'
    BY <1>t, <1>1 DEF DatedInv, OffInv, At
<1> SUFFICES ASSUME Sound'
             PROVE  /\ Alone'
                    /\ \A q \in booted' : BasisInv(q)' /\ CacheInv(q)'
                    /\ \A d \in Caller : VersionInv(d)' /\ RebuildInv(d)'
    BY <1>2 DEF DatedInv
<1>3. Sound
    BY <1>t DEF Sound
<1>4. Alone'
    BY <1>t, <1>3 DEF DatedInv, Alone, Registering, Unwritten
<1>5. \A q \in Process \ {p} : order'[q] = order[q] /\ basis'[q] = basis[q]
    BY <1>t, <1>1 DEF LoadAspects, Typed
<1>6. \A q \in Process \ {p} : Known(q)' = Known(q)
    BY <1>5 DEF Known
<1>7. \A d \in Caller : Home[d] = p => At(d, "idle")
    BY <1>t DEF DatedInv, OffInv
<1>8. \A q \in Process \ {p} : \A b, names : Covered(q, b, names) <=> Covered(q, b, names)'
    BY <1>t, <1>5, <1>6 DEF Covered, Bumping, At
<1>9. ASSUME NEW q \in booted PROVE BasisInv(q)' /\ CacheInv(q)'
    <2>1. q \in Process \ {p} /\ BasisInv(q) /\ CacheInv(q)
        BY <1>t, <1>3 DEF DatedInv, OffInv
    <2>2. BasisInv(q)'
        BY <1>t, <1>5, <2>1 DEF BasisInv, Ahead
    <2> PICK b, names : b = reference[q].basis /\ names = reference[q].names
        OBVIOUS
    <2>3. CacheInv(q)'
        BY <1>t, <1>8, <2>1 DEF CacheInv, Covered, Bumping, At
    <2> QED BY <2>2, <2>3
<1>10. ASSUME p \in booted' PROVE BasisInv(p)' /\ CacheInv(p)'
    <2>1. basis'[p] = latest
        BY <1>t, <1>1, <1>10 DEF LoadAspects, Typed
    <2>2. reference[p] = NoReference
        BY <1>t DEF DatedInv, OffInv
    <2>3. BasisInv(p)'
        BY <1>t, <2>1 DEF BasisInv
    <2>4. reference'[p].basis = -1 /\ reference'[p].names = {}
        BY <1>t, <2>2 DEF NoReference, NoVersion
    <2> QED BY <1>t, <2>1, <2>3, <2>4 DEF CacheInv, Covered, NoVersion
<1>11. ASSUME NEW d \in Caller PROVE VersionInv(d)' /\ RebuildInv(d)'
    <2>1. VersionInv(d) /\ RebuildInv(d)
        BY <1>3 DEF DatedInv
    <2>2. VersionInv(d)'
        BY <1>t, <2>1 DEF VersionInv, At
    <2>3. Embedding(d) => Home[d] \in Process \ {p}
        BY <1>7, RegistryAssumption DEF Embedding, At
    <2> PICK q, b, names : q = Home[d] /\ b = frame[d].version /\ names = frame[d].known
        OBVIOUS
    <2>4. RebuildInv(d)'
        <3>1. Embedding(d) => Covered(q, b, names)'
            BY <1>8, <2>1, <2>3 DEF RebuildInv
        <3>2. Embedding(d) => Covered(Home[d], frame[d].version, frame[d].known)'
            BY <1>t, <3>1 DEF Covered, Bumping, At
        <3> QED BY <1>t, <2>1, <3>2 DEF RebuildInv, Embedding, At
    <2> QED BY <2>2, <2>4
<1> QED BY <1>1, <1>4, <1>9, <1>10, <1>11

\* One that ends takes its calls with it.
LEMMA EndDated ==
    ASSUME IInv, DatedInv, NEW p \in Process, End(p)
    PROVE  DatedInv'
<1>t. Typed /\ UNCHANGED latest /\ booted' = booted \ {p}
    BY DEF IInv, End, aspectTables
<1>1. /\ order' = [order EXCEPT ![p] = << >>] /\ basis' = [basis EXCEPT ![p] = 0]
      /\ reference' = [reference EXCEPT ![p] = NoReference] /\ raced' = raced \ {p}
      /\ frame' = [c \in Caller |-> IF Home[c] = p THEN Idle ELSE frame[c]]
      /\ strain \subseteq strain'
      /\ (\E c \in Caller : Home[c] = p /\ Unwritten(c)) => "failed" \in strain'
    BY DEF End, Forget
<1>2. \A q \in Process \ {p} : /\ order'[q] = order[q] /\ basis'[q] = basis[q]
                               /\ reference'[q] = reference[q] /\ (q \in raced <=> q \in raced')
    BY <1>t, <1>1 DEF Typed, DatedInv, OffInv
<1>3. \A d \in Caller : IF Home[d] = p THEN frame'[d].pc = "idle" ELSE frame'[d] = frame[d]
    BY <1>1 DEF Idle
<1>4. NoReference \in Reference
    BY DEF NoReference, Reference
<1>5. OffInv'
    <2>1. reference' \in [Process -> Reference] /\ reference'[p] = NoReference
        BY <1>1, <1>4 DEF DatedInv, OffInv
    <2> QED BY <1>t, <1>2, <1>3, <2>1 DEF DatedInv, OffInv, At
<1> SUFFICES ASSUME Sound'
             PROVE  /\ Alone'
                    /\ \A q \in booted' : BasisInv(q)' /\ CacheInv(q)'
                    /\ \A d \in Caller : VersionInv(d)' /\ RebuildInv(d)'
    BY <1>5 DEF DatedInv
<1>6. Sound
    BY <1>1 DEF Sound
<1>7. \A d \in Caller : (Registering(d)' => Registering(d)) /\ (Embedding(d)' => Embedding(d))
    BY <1>3 DEF Registering, Unwritten, Embedding
<1>8. Alone'
    BY <1>6, <1>7 DEF DatedInv, Alone
<1>9. \A q \in Process \ {p} : Known(q)' = Known(q) /\ (Bumping(q) <=> Bumping(q)')
    BY <1>2, <1>3 DEF Known, Bumping, At
<1>10. \A q \in Process \ {p} : \A b, names : Covered(q, b, names) <=> Covered(q, b, names)'
    BY <1>2, <1>9 DEF Covered
<1>11. ASSUME NEW q \in booted' PROVE BasisInv(q)' /\ CacheInv(q)'
    <2>1. q \in Process \ {p} /\ BasisInv(q) /\ CacheInv(q)
        BY <1>t, <1>6 DEF DatedInv, OffInv
    <2>2. (\A d \in Caller : Home[d] = q => ~Ahead(d)') =>
              \A d \in Caller : Home[d] = q => ~Ahead(d)
        BY <1>3, <2>1 DEF Ahead
    <2>3. BasisInv(q)'
        BY <1>t, <1>2, <2>1, <2>2 DEF BasisInv
    <2> PICK b, names : b = reference[q].basis /\ names = reference[q].names
        OBVIOUS
    <2>4. q \notin raced' => Covered(q, b, names)'
        BY <1>2, <1>10, <2>1 DEF CacheInv
    <2> QED BY <1>2, <2>1, <2>3, <2>4 DEF CacheInv, Covered, Bumping, At
<1>12. ASSUME NEW d \in Caller PROVE VersionInv(d)' /\ RebuildInv(d)'
    <2>1. VersionInv(d) /\ RebuildInv(d) /\ Home[d] \in Process
        BY <1>6, RegistryAssumption DEF DatedInv
    <2>2. CASE Home[d] = p
        BY <1>3, <2>2 DEF VersionInv, RebuildInv, Embedding, At
    <2>3. CASE Home[d] # p
        <3>1. VersionInv(d)'
            BY <1>t, <1>3, <2>1, <2>3 DEF VersionInv, At
        <3> PICK q, b, names : q = Home[d] /\ b = frame[d].version /\ names = frame[d].known
            OBVIOUS
        <3>2. frame'[d] = frame[d] /\ reference'[q] = reference[q] /\ (q \in raced <=> q \in raced')
            BY <1>2, <1>3, <2>1, <2>3
        <3>3. Covered(q, b, names) => Covered(q, b, names)'
            BY <1>10, <2>1, <2>3
        <3> QED BY <1>7, <2>1, <3>1, <3>2, <3>3 DEF RebuildInv, Covered, Bumping, Embedding, At
    <2> QED BY <2>2, <2>3
<1> QED BY <1>8, <1>11, <1>12

LEMMA IdleDated ==
    ASSUME DatedInv, UNCHANGED <<registryAll, booted>>
    PROVE  DatedInv'
BY DEF DatedInv, OffInv, Sound, Alone, Registering, Unwritten, Ahead, Embedding, Bumping,
       BasisInv, CacheInv, Covered, VersionInv, RebuildInv, At, Known,
       registryAll, registryVars, memory, aspectTables

LEMMA InitDated == Init => DatedInv
<1> SUFFICES ASSUME Init PROVE DatedInv
    OBVIOUS
<1>1. /\ booted = {} /\ frame = [c \in Caller |-> Idle]
      /\ reference = [p \in Process |-> NoReference]
    BY DEF Init, RegistryInit
<1>2. \A c \in Caller : frame[c].pc = "idle"
    BY <1>1 DEF Idle
<1>3. NoReference \in Reference
    BY DEF NoReference, Reference
<1>4. OffInv
    BY <1>1, <1>2, <1>3 DEF OffInv, At
<1> QED BY <1>1, <1>2, <1>4
        DEF DatedInv, Alone, Registering, Unwritten, Embedding, VersionInv, RebuildInv, At

LEMMA NextDated ==
    ASSUME IInv, IInv', DatedInv, [Next]_vars
    PROVE  DatedInv'
<1>1. CASE \E p \in Process : Migrate(p)
    BY <1>1, IdleDated DEF Migrate
<1>2. CASE \E p \in Process : Boot(p) \/ End(p)
    BY <1>2, BootDated, EndDated
<1>3. ASSUME NEW c \in Caller, Serve(c) PROVE DatedInv'
    <2>1. Home[c] \in booted /\ booted' = booted /\ Typed'
        BY <1>3 DEF Serve, IInv
    <2>2. CASE RegistryStep(c, booted) /\ ~\E n \in Name : BeginRegister(c, n)
        BY <2>1, <2>2, RegisterDated, AppendDated, BumpDated, NumberDated, InsertDated,
           PublishDated, EmbedDated, CacheDated
           DEF RegistryStep
    <2>3. CASE \/ \E n \in Name : BeginRegister(c, n)
               \/ GenesisStep(c)
               \/ SigilStep(c, booted)
        BY <2>1, <2>3, ApartSteps, ApartDated
    <2> QED BY <1>3, <2>2, <2>3 DEF Serve
<1>4. CASE UNCHANGED vars
    BY <1>4, IdleDated DEF vars
<1> QED BY <1>1, <1>2, <1>3, <1>4 DEF Next

(* What _ensure_reference_vectors and the registry have to say to each     *)
(* other holds at every step.                                              *)
THEOREM VectorsAreDated == Spec => [](IInv /\ DatedInv)
BY InitIInv, NextIInv, InitDated, NextDated, PTL DEF Spec

(* The reference vectors that a projection may use cover every dimension,  *)
(* save between the append and the version bump of a registration, and     *)
(* however many processes share the file: as long as no registration       *)
(* failed or overlapped another one, and no two rebuilds of the process    *)
(* overlapped.                                                             *)
THEOREM ReferencesCover == Spec => []ReferencesCoverTheBasis
<1>1. DatedInv => ReferencesCoverTheBasis
    BY DEF DatedInv, Sound, CacheInv, Covered, Bumping, ReferencesCoverTheBasis, Fresh
<1> QED BY <1>1, VectorsAreDated, PTL

-----------------------------------------------------------------------------
(* Positions.  The rows are numbered without a gap, so that there is one   *)
(* way to list them by ordinal: the order every process has in memory.     *)

\* The rows of aspects registered in this order.
RowsOf(s) == {[name |-> s[i], ordinal |-> i] : i \in DOMAIN s}

\* ORDER BY ordinal leaves no choice.
LEMMA OneListing ==
    ASSUME NEW t \in Seq(Name), aspectRows = RowsOf(t)
    PROVE  {[i \in DOMAIN l |-> l[i].name] : l \in Listings} = {t}
<1> PICK n : n = Len(t)
    OBVIOUS
<1> DEFINE L == [i \in 1 .. n |-> [name |-> t[i], ordinal |-> i]]
<1>1. /\ n \in Nat /\ DOMAIN t = 1 .. n /\ aspectRows = {L[i] : i \in 1 .. n}
      /\ \A i \in 1 .. n : L[i].ordinal = i /\ L[i].name = t[i]
    BY LenProperties DEF RowsOf
<1>2. DOMAIN L = 1 .. n /\ L \in [1 .. n -> aspectRows]
    BY <1>1
<1>3. [i \in DOMAIN L |-> L[i].name] = t
    BY <1>1, <1>2
<1> HIDE DEF L
<1>4. L \in Bijection(1 .. n, aspectRows)
    <2>1. L \in Injection(1 .. n, aspectRows)
        <3>1. ASSUME NEW i \in DOMAIN L, NEW j \in DOMAIN L, L[i] = L[j] PROVE i = j
            <4>1. L[i].ordinal = i /\ L[j].ordinal = j
                BY <1>1, <1>2
            <4> QED BY <3>1, <4>1
        <3>2. IsInjective(L)
            BY <3>1 DEF IsInjective
        <3> QED BY <1>2, <3>2 DEF Injection
    <2>2. L \in Surjection(1 .. n, aspectRows)
        BY <1>1, <1>2 DEF Surjection
    <2> QED BY <2>1, <2>2 DEF Bijection
<1>5. /\ IsFiniteSet(1 .. n) /\ Cardinality(1 .. n) = n
      /\ IsFiniteSet(aspectRows) /\ Cardinality(aspectRows) = n
    <2>1. IsFiniteSet(1 .. n) /\ Cardinality(1 .. n) = n
        <3>1. 1 \in Int /\ n \in Int
            BY <1>1
        <3>2. IsFiniteSet(1 .. n) /\ Cardinality(1 .. n) = IF 1 > n THEN 0 ELSE n - 1 + 1
            BY <3>1, FS_Interval
        <3>3. (IF 1 > n THEN 0 ELSE n - 1 + 1) = n
            BY <1>1
        <3> QED BY <3>2, <3>3
    <2> QED BY <1>4, <2>1, FS_Bijection DEF ExistsBijection
<1>6. L \in Listings
    <2>1. \A i, j \in 1 .. n : (i # j => L[i] # L[j]) /\ (i < j => L[i].ordinal <= L[j].ordinal)
        BY <1>1
    <2> QED BY <1>2, <1>5, <2>1 DEF Listings, SetToSeqs
<1>7. ASSUME NEW l \in Listings
      PROVE  l = L
    <2>1. /\ l \in [1 .. n -> aspectRows]
          /\ \A i, j \in 1 .. n : i # j => l[i] # l[j]
          /\ \A i, j \in 1 .. n : i < j => l[i].ordinal <= l[j].ordinal
        BY <1>5 DEF Listings, SetToSeqs
    <2>2. \A i \in 1 .. n : l[i].ordinal \in 1 .. n /\ l[i] = L[l[i].ordinal]
        BY <1>1, <2>1
    <2>3. \A k \in 1 .. n : \E j \in 1 .. n : l[j] = L[k]
        <3>1. l \in Injection(1 .. n, aspectRows)
            BY <2>1 DEF Injection, IsInjective
        <3>2. l \in Surjection(1 .. n, aspectRows)
            BY <1>5, <3>1, FS_Injection
        <3> QED BY <1>2, <3>2 DEF Surjection
    <2> DEFINE Wrong == {i \in 1 .. n : l[i].ordinal # i}
    <2>4. Wrong = {}
        <3> SUFFICES ASSUME Wrong # {} PROVE FALSE
            OBVIOUS
        <3>0. Wrong \in SUBSET Nat
            BY <1>1
        <3> HIDE DEF Wrong
        <3>1. PICK k \in Wrong : \A i \in Wrong : k <= i
            BY <3>0, LeastNumber
        <3> USE DEF Wrong
        <3> PICK m : m = l[k].ordinal
            OBVIOUS
        <3>2. k \in 1 .. n /\ m \in 1 .. n /\ m # k /\ l[k] = L[m]
            BY <2>2, <3>1
        <3>3. \A i \in 1 .. n : i < k => l[i].ordinal = i
            BY <1>1, <3>1
        <3>4. m > k
            <4>1. CASE m < k
                BY <2>1, <2>2, <3>2, <3>3, <4>1
            <4> QED BY <3>2, <4>1
        <3>5. PICK j \in 1 .. n : l[j] = L[k]
            BY <2>3, <3>2
        <3>6. l[j].ordinal = k
            BY <1>1, <3>2, <3>5
        <3>7. j # k
            BY <3>2, <3>6
        <3>8. CASE j < k
            BY <3>3, <3>6, <3>8
        <3>9. CASE k < j
            <4>1. m <= k
                BY <2>1, <3>2, <3>6, <3>9
            <4> QED BY <3>2, <3>4, <4>1
        <3> QED BY <1>1, <3>2, <3>7, <3>8, <3>9
    <2>5. \A i \in 1 .. n : l[i] = L[i]
        BY <2>2, <2>4
    <2> QED BY <1>2, <2>1, <2>5
<1> QED BY <1>3, <1>6, <1>7

\* The next aspect gets the next number.
LEMMA RowsAppend ==
    ASSUME NEW s \in Seq(Name), NEW n \in Name
    PROVE  RowsOf(Append(s, n)) = RowsOf(s) \cup {[name |-> n, ordinal |-> Len(s) + 1]}
<1> DEFINE t == Append(s, n)
<1>1. /\ t \in Seq(Name) /\ Len(t) = Len(s) + 1
      /\ \A i \in 1 .. Len(s) : t[i] = s[i]
      /\ t[Len(s) + 1] = n
    BY AppendProperties
<1>2. Len(s) \in Nat /\ DOMAIN s = 1 .. Len(s) /\ DOMAIN t = 1 .. Len(s) + 1
    BY <1>1, LenProperties
<1>3. 1 .. Len(s) + 1 = 1 .. Len(s) \cup {Len(s) + 1}
    BY <1>2
<1> HIDE DEF t
<1>4. RowsOf(t) = {[name |-> t[i], ordinal |-> i] : i \in 1 .. Len(s) \cup {Len(s) + 1}}
    BY <1>2, <1>3 DEF RowsOf
<1>5. RowsOf(s) = {[name |-> s[i], ordinal |-> i] : i \in 1 .. Len(s)}
    BY <1>2 DEF RowsOf
<1>6. ASSUME NEW x
      PROVE  x \in RowsOf(t) <=> x \in RowsOf(s) \cup {[name |-> n, ordinal |-> Len(s) + 1]}
    BY <1>1, <1>4, <1>5
<1> QED BY <1>6 DEF t

PlacedInv ==
    strain = {} =>
        /\ \E s \in Seq(Name) : aspectRows = RowsOf(s)
        /\ \A c \in Caller : Registering(c) => booted \subseteq {Home[c]}
        /\ (\A c \in Caller : ~Unwritten(c)) =>
               \A p \in booted : aspectRows = RowsOf(order[p])
        /\ \A c \in Caller : Unwritten(c) =>
               \E s \in Seq(Name) : /\ aspectRows = RowsOf(s)
                                    /\ order[Home[c]] = Append(s, frame[c].name)
        /\ \A c \in Caller : frame[c].pc \in {"read", "insert"} =>
               frame[c].ordinal = Len(order[Home[c]])
        /\ Quiet => \A p \in booted : basis[p] = latest

\* A step of a call that does not change what is registered.
LEMMA CallPlaced ==
    ASSUME PlacedInv, NEW c \in Caller, Others(c), strain \subseteq strain',
           UNCHANGED <<order, aspectRows, latest, booted>>,
           UNCHANGED basis \/ Registering(c)',
           Registering(c) => Registering(c)', Unwritten(c)' <=> Unwritten(c),
           strain' = {} /\ Registering(c)' => Registering(c) \/ booted \subseteq {Home[c]},
           Unwritten(c) => frame'[c].name = frame[c].name,
           frame'[c].pc \in {"read", "insert"} =>
               \/ frame'[c].ordinal = Len(order[Home[c]])
               \/ frame[c].pc \in {"read", "insert"} /\ frame'[c].ordinal = frame[c].ordinal
    PROVE  PlacedInv'
<1> SUFFICES ASSUME strain' = {}
             PROVE  PlacedInv'
    BY DEF PlacedInv
<1>0. strain = {}
    OBVIOUS
<1>1. \A d \in Caller : /\ Registering(d) => Registering(d)'
                        /\ Registering(d)' => Registering(d) \/ booted \subseteq {Home[d]}
                        /\ Unwritten(d)' <=> Unwritten(d)
                        /\ Unwritten(d) => frame'[d].name = frame[d].name
    BY DEF Others, Registering, Unwritten
<1>2. ASSUME NEW d \in Caller, frame'[d].pc \in {"read", "insert"}
      PROVE  frame'[d].ordinal = Len(order[Home[d]])
    BY <1>0, <1>2 DEF PlacedInv, Others
<1>3. Quiet' => Quiet /\ UNCHANGED basis
    BY <1>1 DEF Quiet
<1>4. \A d \in Caller : Registering(d)' => booted \subseteq {Home[d]}
    BY <1>0, <1>1 DEF PlacedInv
<1> QED BY <1>0, <1>1, <1>2, <1>3, <1>4 DEF PlacedInv

LEMMA ApartPlaced ==
    ASSUME PlacedInv, NEW c \in Caller, StandsApart(c), booted' = booted
    PROVE  PlacedInv'
<1>1. /\ ~Registering(c) /\ ~Registering(c)' /\ ~Unwritten(c) /\ ~Unwritten(c)'
      /\ frame'[c].pc \notin {"read", "insert"}
    BY DEF StandsApart, Apart, Registering, Unwritten
<1> QED BY <1>1, CallPlaced DEF StandsApart, memory, aspectTables

\* The embedding backend reads the registry.
LEMMA EmbedPlaced ==
    ASSUME IInv, PlacedInv, NEW c \in Caller,
           BeginEmbed(c) \/ ReadTexts(c) \/ StoreVectors(c) \/ StampVectors(c), booted' = booted
    PROVE  PlacedInv'
<1>t. Typed /\ frame[c] \in FrameType
      /\ UNCHANGED <<order, basis, aspectRows, latest, strain>>
      /\ frame[c].pc \in {"idle", "embed", "stamp"}
    BY DEF IInv, Typed, BeginEmbed, ReadTexts, StoreVectors, StampVectors, memory,
           aspectTables, At
<1>1. Others(c) /\ frame'[c].pc \in {"idle", "embed", "stamp"}
    <2>1. CASE BeginEmbed(c)
        <3> PICK f : f = [Idle EXCEPT !.pc = "embed", !.version = basis[Here(c)]]
            OBVIOUS
        <3>1. f.pc = "embed" /\ frame' = [frame EXCEPT ![c] = f]
            BY <2>1 DEF BeginEmbed, Idle
        <3> QED BY <1>t, <3>1, BecomesOthers
    <2>2. CASE ReadTexts(c)
        <3> PICK f : f = [frame[c] EXCEPT !.known = Known(Here(c)) \cup {NoName}]
            OBVIOUS
        <3>1. f.pc = "embed" /\ frame' = [frame EXCEPT ![c] = f]
            BY <1>t, <2>2 DEF ReadTexts, At, FrameType
        <3> QED BY <1>t, <3>1, BecomesOthers
    <2>3. CASE StoreVectors(c)
        BY <1>t, <2>3, GotoOthers DEF StoreVectors
    <2>4. CASE StampVectors(c)
        BY <1>t, <2>4, ReturnOthers DEF StampVectors
    <2> QED BY <2>1, <2>2, <2>3, <2>4
<1> QED BY <1>t, <1>1, CallPlaced DEF Registering, Unwritten

\* A registration without trouble is the only one, in the only process.
LEMMA RegisterPlaced ==
    ASSUME IInv, PlacedInv, NEW c \in Caller, Register(c, booted), booted' = booted
    PROVE  PlacedInv'
<1>t. Typed /\ frame[c].pc = "register"
      /\ UNCHANGED <<order, basis, aspectRows, latest>> /\ strain \subseteq strain'
    BY DEF IInv, Register, memory, aspectTables, At
<1>1. Others(c) /\ frame'[c].pc \in {"idle", "append"}
    BY <1>t, ReturnOthers, GotoOthers DEF Register
<1>2. strain' = {} /\ Registering(c)' => booted \subseteq {Home[c]}
    <2>1. CASE Return(c)
        BY <1>t, <2>1, ReturnOthers DEF Registering, Unwritten
    <2>2. CASE strain' = strain \cup Meets(c, booted)
        BY <2>2 DEF Meets, Here
    <2> QED BY <2>1, <2>2 DEF Register
<1>3. ~Registering(c) /\ ~Unwritten(c) /\ ~Unwritten(c)' /\ frame'[c].pc \notin {"read", "insert"}
    BY <1>t, <1>1 DEF Registering, Unwritten
<1> QED BY <1>t, <1>1, <1>2, <1>3, CallPlaced

\* Its aspect is the one memory has beyond the table.
LEMMA AppendPlaced ==
    ASSUME IInv, DatedInv, PlacedInv, NEW c \in Caller, Home[c] \in booted, AppendAspect(c),
           booted' = booted
    PROVE  PlacedInv'
<1> PICK p, n : p = Home[c] /\ n = frame[c].name
    OBVIOUS
<1>t. Typed /\ p \in Process /\ p \in booted /\ frame[c].pc = "append" /\ n \in Name
      /\ UNCHANGED <<aspectRows, latest, strain>> /\ order[p] \in Seq(Name)
    BY RegistryAssumption DEF IInv, AppendAspect, aspectTables, At, CallInv, OnName, Typed
<1> SUFFICES ASSUME strain = {}
             PROVE  PlacedInv'
    BY <1>t DEF PlacedInv
<1>1. Others(c) /\ frame'[c].pc = "bump" /\ frame'[c].name = n
    BY <1>t, GotoOthers DEF AppendAspect
<1>2. booted \subseteq {p} /\ \A d \in Caller \ {c} : ~Registering(d)
    BY <1>t DEF DatedInv, Sound, Alone, PlacedInv, Registering
<1>3. \A d \in Caller : ~Unwritten(d)
    BY <1>t, <1>2 DEF Registering, Unwritten
<1>4. \A d \in Caller \ {c} : ~Registering(d)' /\ ~Unwritten(d)'
    BY <1>1, <1>2 DEF Registering, Unwritten, Others
<1>5. aspectRows = RowsOf(order[p])
    BY <1>t, <1>3 DEF PlacedInv
<1>6. order'[p] = Append(order[p], n)
    BY <1>t DEF AppendAspect, Here, Typed
<1>7. Registering(c)' /\ Unwritten(c)'
    BY <1>1 DEF Registering, Unwritten
<1>8. ASSUME NEW d \in Caller, Unwritten(d)'
      PROVE  \E s \in Seq(Name) : /\ aspectRows' = RowsOf(s)
                                  /\ order'[Home[d]] = Append(s, frame'[d].name)
    BY <1>t, <1>1, <1>4, <1>5, <1>6, <1>8
<1>9. ASSUME NEW d \in Caller PROVE frame'[d].pc \notin {"read", "insert"}
    BY <1>1, <1>4, <1>9 DEF Unwritten
<1>10. \A d \in Caller : Registering(d)' => booted' \subseteq {Home[d]}
    BY <1>t, <1>2, <1>4
<1>11. \E s \in Seq(Name) : aspectRows' = RowsOf(s)
    BY <1>t, <1>5
<1>12. ~Quiet'
    BY <1>7 DEF Quiet
<1> QED BY <1>7, <1>8, <1>9, <1>10, <1>11, <1>12 DEF PlacedInv

\* The version and the index follow.
LEMMA BumpPlaced ==
    ASSUME IInv, PlacedInv, NEW c \in Caller, BumpVersion(c) \/ IndexAspect(c), booted' = booted
    PROVE  PlacedInv'
<1>t. Typed /\ UNCHANGED <<order, aspectRows, latest, strain>>
      /\ frame[c].pc \in {"bump", "index"}
    BY DEF IInv, BumpVersion, IndexAspect, aspectTables, At
<1>1. Others(c) /\ frame'[c].pc \in {"index", "number"} /\ frame'[c].name = frame[c].name
    BY <1>t, GotoOthers DEF BumpVersion, IndexAspect
<1>2. Unwritten(c) /\ Unwritten(c)' /\ Registering(c) /\ Registering(c)'
      /\ frame'[c].pc \notin {"read", "insert"}
    BY <1>t, <1>1 DEF Registering, Unwritten
<1> QED BY <1>t, <1>1, <1>2, CallPlaced

LEMMA NumberPlaced ==
    ASSUME IInv, PlacedInv, NEW c \in Caller, Number(c) \/ ReadVersion(c), booted' = booted
    PROVE  PlacedInv'
<1>t. Typed /\ frame[c] \in FrameType
      /\ UNCHANGED <<order, basis, aspectRows, latest, strain>> /\ Unwritten(c)
    BY DEF IInv, Typed, Number, ReadVersion, memory, aspectTables, Unwritten, At
<1>1. CASE Number(c)
    <2>1. Others(c) /\ frame'[c] = [frame[c] EXCEPT !.pc = "read", !.ordinal = Len(order[Here(c)])]
        BY <1>t, <1>1, BecomesOthers DEF Number
    <2>2. /\ frame'[c].pc = "read" /\ frame'[c].name = frame[c].name
          /\ frame'[c].ordinal = Len(order[Home[c]])
        BY <1>t, <2>1 DEF FrameType, Here
    <2> QED BY <1>t, <2>1, <2>2, CallPlaced DEF Registering, Unwritten
<1>2. CASE ReadVersion(c)
    <2> PICK v : v = latest + 1
        OBVIOUS
    <2> DEFINE f == [frame[c] EXCEPT !.pc = "insert", !.version = v]
    <2>0. f.pc = "insert" /\ f.name = frame[c].name /\ f.ordinal = frame[c].ordinal
        BY <1>t DEF FrameType
    <2>3. frame' = [frame EXCEPT ![c] = f] /\ frame[c].pc = "read"
        BY <1>2 DEF ReadVersion, At
    <2> HIDE DEF f
    <2>1. Others(c) /\ frame'[c] = f
        BY <1>t, <2>3, BecomesOthers
    <2>2. /\ frame'[c].pc = "insert" /\ frame'[c].name = frame[c].name
          /\ frame'[c].ordinal = frame[c].ordinal /\ frame[c].pc = "read"
        BY <2>0, <2>1, <2>3
    <2> QED BY <1>t, <2>1, <2>2, CallPlaced DEF Registering, Unwritten
<1> QED BY <1>1, <1>2

\* The row completes the numbers memory already has.
LEMMA InsertPlaced ==
    ASSUME IInv, DatedInv, PlacedInv, NEW c \in Caller, Home[c] \in booted, InsertAspect(c),
           booted' = booted
    PROVE  PlacedInv'
<1> PICK p, n : p = Home[c] /\ n = frame[c].name
    OBVIOUS
<1>t. Typed /\ UNCHANGED <<order, basis>> /\ frame[c].pc = "insert" /\ n \in Name
      /\ p \in booted /\ p \in Process
    BY RegistryAssumption DEF IInv, InsertAspect, memory, At, CallInv, OnName
<1> SUFFICES ASSUME strain' = {}
             PROVE  PlacedInv'
    BY DEF PlacedInv
<1>1. /\ aspectRows' = aspectRows \cup {Row(c)} /\ Goto(c, "publish") /\ strain = {}
    BY DEF InsertAspect
<1>2. Others(c) /\ frame'[c].pc = "publish"
    BY <1>t, <1>1, GotoOthers
<1>3. \A d \in Caller \ {c} : ~Registering(d)
    BY <1>t, <1>1 DEF DatedInv, Sound, Alone, Registering, Unwritten
<1>4. \A d \in Caller : ~Unwritten(d)'
    BY <1>2, <1>3 DEF Registering, Unwritten, Others
<1>5. PICK s \in Seq(Name) : aspectRows = RowsOf(s) /\ order[p] = Append(s, n)
    BY <1>t, <1>1 DEF PlacedInv, Unwritten
<1>6. Row(c) = [name |-> n, ordinal |-> Len(s) + 1]
    <2>1. Len(order[p]) = Len(s) + 1
        BY <1>t, <1>5, AppendProperties
    <2> QED BY <1>t, <1>1, <2>1 DEF PlacedInv, Row
<1>7. aspectRows' = RowsOf(order[p]) /\ order[p] \in Seq(Name)
    BY <1>t, <1>1, <1>5, <1>6, RowsAppend, AppendProperties
<1>8. booted \subseteq {p}
    BY <1>t, <1>1 DEF PlacedInv, Registering, Unwritten
<1>9. \A d \in Caller : Registering(d)' => d = c
    BY <1>2, <1>3 DEF Registering, Unwritten, Others
<1>10. Registering(c)'
    BY <1>2 DEF Registering
<1>11. \A d \in Caller : frame'[d].pc \notin {"read", "insert"}
    BY <1>4 DEF Unwritten
<1>12. ~Quiet'
    BY <1>10 DEF Quiet
<1> QED BY <1>t, <1>4, <1>7, <1>8, <1>9, <1>11, <1>12 DEF PlacedInv

LEMMA PublishPlaced ==
    ASSUME IInv, DatedInv, PlacedInv, NEW c \in Caller, Home[c] \in booted, Publish(c),
           booted' = booted
    PROVE  PlacedInv'
<1> PICK p, v : p = Home[c] /\ v = frame[c].version
    OBVIOUS
<1>t. Typed /\ UNCHANGED <<order, aspectRows, latest, strain>> /\ frame[c].pc = "publish"
      /\ p \in booted /\ p \in Process
      /\ basis' = [basis EXCEPT ![p] = v]
    BY RegistryAssumption DEF IInv, Publish, aspectTables, At, Here, Typed
<1> SUFFICES ASSUME strain = {}
             PROVE  PlacedInv'
    BY <1>t DEF PlacedInv
<1>1. Others(c) /\ frame'[c].pc \in {"decide", "idle"}
    BY <1>t, GotoOthers, ReturnOthers DEF Publish
<1>2. v = latest
    BY <1>t DEF DatedInv, Sound, VersionInv, At
<1>3. booted \subseteq {p}
    BY <1>t DEF PlacedInv, Registering
<1>4. \A q \in booted : basis'[q] = latest
    BY <1>t, <1>2, <1>3 DEF Typed
<1>5. \A d \in Caller : ~Registering(d)' /\ (Unwritten(d)' <=> Unwritten(d))
    BY <1>t, <1>1 DEF DatedInv, Sound, Alone, Registering, Unwritten, Others
<1>6. \A d \in Caller : ~Unwritten(d)'
    BY <1>5 DEF Registering, Unwritten
<1>7. \A d \in Caller : frame'[d].pc \notin {"read", "insert"}
    BY <1>6 DEF Unwritten
<1>8. /\ \E s \in Seq(Name) : aspectRows = RowsOf(s)
      /\ \A q \in booted : aspectRows = RowsOf(order[q])
    BY <1>5, <1>6 DEF PlacedInv
<1> QED BY <1>t, <1>4, <1>5, <1>6, <1>7, <1>8 DEF PlacedInv

\* A start that is no trouble lists the rows as everybody else has them.
LEMMA BootPlaced ==
    ASSUME IInv, DatedInv, PlacedInv, NEW p \in Process, Boot(p)
    PROVE  PlacedInv'
<1>t. Typed /\ UNCHANGED <<frame, latest, aspectRows>> /\ strain \subseteq strain'
    BY DEF IInv, Boot, aspectTables
<1> SUFFICES ASSUME strain' = {}
             PROVE  PlacedInv'
    BY DEF PlacedInv
<1>0. strain = {}
    BY <1>t
<1>1. CASE /\ LoadAspects(p) /\ booted' = booted \cup {p}
           /\ strain' = strain \cup
                 (IF \E c \in Caller : Registering(c) \/ At(c, "sigil") THEN {"foreign"} ELSE {})
    <2>1. \A c \in Caller : ~Registering(c) /\ ~Unwritten(c)
        BY <1>1 DEF Registering
    <2>2. PICK s \in Seq(Name) : aspectRows = RowsOf(s)
        BY <1>0 DEF PlacedInv
    <2>3. PICK l \in Listings : order' = [order EXCEPT ![p] = [i \in DOMAIN l |-> l[i].name]]
        BY <1>1 DEF LoadAspects
    <2>4. [i \in DOMAIN l |-> l[i].name] = s
        BY <2>2, OneListing
    <2>5. order'[p] = s /\ \A q \in Process \ {p} : order'[q] = order[q]
        BY <1>t, <2>3, <2>4 DEF Typed
    <2>6. basis'[p] = latest /\ \A q \in Process \ {p} : basis'[q] = basis[q]
        BY <1>t, <1>1 DEF LoadAspects, Typed
    <2>7. booted \subseteq Process
        BY DEF DatedInv, OffInv
    <2>8. \A q \in booted' : aspectRows' = RowsOf(order'[q]) /\ basis'[q] = latest'
        BY <1>t, <1>0, <1>1, <2>1, <2>2, <2>5, <2>6, <2>7 DEF PlacedInv, Quiet
    <2>9. \A c \in Caller : ~Registering(c)' /\ ~Unwritten(c)'
        BY <1>t, <2>1 DEF Registering, Unwritten
    <2>10. \A c \in Caller : frame'[c].pc \notin {"read", "insert"}
        BY <2>9 DEF Unwritten
    <2> QED BY <1>t, <2>2, <2>8, <2>9, <2>10 DEF PlacedInv
<1>2. CASE UNCHANGED <<order, basis, booted>>
    BY <1>t, <1>0, <1>2 DEF PlacedInv, Registering, Unwritten, Quiet
<1> QED BY <1>1, <1>2 DEF Boot

LEMMA EndPlaced ==
    ASSUME IInv, DatedInv, PlacedInv, NEW p \in Process, End(p)
    PROVE  PlacedInv'
<1>t. Typed /\ UNCHANGED <<latest, aspectRows>> /\ booted' = booted \ {p}
    BY DEF IInv, End, aspectTables
<1>1. /\ order' = [order EXCEPT ![p] = << >>] /\ basis' = [basis EXCEPT ![p] = 0]
      /\ frame' = [c \in Caller |-> IF Home[c] = p THEN Idle ELSE frame[c]]
      /\ strain \subseteq strain'
      /\ (\E c \in Caller : Home[c] = p /\ Unwritten(c)) => "failed" \in strain'
    BY DEF End, Forget
<1> SUFFICES ASSUME strain' = {}
             PROVE  PlacedInv'
    BY DEF PlacedInv
<1>2. strain = {} /\ \A c \in Caller : Home[c] = p => ~Unwritten(c)
    BY <1>1
<1>3. \A d \in Caller : IF Home[d] = p THEN frame'[d].pc = "idle" ELSE frame'[d] = frame[d]
    BY <1>1 DEF Idle
<1>4. \A d \in Caller : /\ Unwritten(d)' <=> Unwritten(d)
                        /\ Registering(d)' => Registering(d) /\ Home[d] # p
                        /\ Registering(d) => Registering(d)' \/ Home[d] = p
    BY <1>2, <1>3 DEF Registering, Unwritten
<1>5. \A q \in Process \ {p} : order'[q] = order[q] /\ basis'[q] = basis[q]
    BY <1>t, <1>1 DEF Typed
<1>6. booted' \subseteq Process \ {p}
    BY <1>t DEF DatedInv, OffInv
<1>7. \A q \in Process \ {p} : RowsOf(order[q])' = RowsOf(order[q])
    BY <1>5 DEF RowsOf
<1>8. (\A c \in Caller : ~Unwritten(c)') => \A q \in booted' : aspectRows' = RowsOf(order'[q])
    BY <1>t, <1>2, <1>4, <1>5, <1>6 DEF PlacedInv
<1>9. ASSUME NEW c \in Caller, Unwritten(c)'
      PROVE  \E s \in Seq(Name) : /\ aspectRows' = RowsOf(s)
                                  /\ order'[Home[c]] = Append(s, frame'[c].name)
    <2>1. Unwritten(c) /\ Home[c] \in Process \ {p} /\ frame'[c] = frame[c]
        BY <1>2, <1>3, <1>4, <1>9, RegistryAssumption
    <2> QED BY <1>t, <1>2, <1>5, <2>1 DEF PlacedInv
<1>10. ASSUME NEW c \in Caller, frame'[c].pc \in {"read", "insert"}
       PROVE  frame'[c].ordinal = Len(order'[Home[c]])
    <2>1. Home[c] \in Process \ {p} /\ frame'[c] = frame[c]
        BY <1>3, <1>10, RegistryAssumption
    <2> QED BY <1>2, <1>5, <1>10, <2>1 DEF PlacedInv
<1>11. ASSUME Quiet' PROVE \A q \in booted' : basis'[q] = latest'
    <2>1. CASE Quiet
        BY <1>t, <1>2, <1>5, <1>6, <2>1 DEF PlacedInv
    <2>2. CASE ~Quiet
        <3>1. PICK c \in Caller : Registering(c)
            BY <2>2 DEF Quiet
        <3>2. Home[c] = p
            BY <1>4, <1>11, <3>1 DEF Quiet
        <3>3. booted' = {}
            BY <1>t, <1>2, <3>1, <3>2 DEF PlacedInv
        <3> QED BY <3>3
    <2> QED BY <2>1, <2>2
<1>12. \A c \in Caller : Registering(c)' => booted' \subseteq {Home[c]}
    BY <1>t, <1>2, <1>4 DEF PlacedInv
<1>13. \E s \in Seq(Name) : aspectRows' = RowsOf(s)
    BY <1>t, <1>2 DEF PlacedInv
<1> QED BY <1>8, <1>9, <1>10, <1>11, <1>12, <1>13 DEF PlacedInv

LEMMA IdlePlaced ==
    ASSUME PlacedInv, UNCHANGED <<registryAll, booted>>
    PROVE  PlacedInv'
BY DEF PlacedInv, Quiet, Registering, Unwritten, registryAll, registryVars, memory, aspectTables

LEMMA InitPlaced == Init => PlacedInv
<1> SUFFICES ASSUME Init PROVE PlacedInv
    OBVIOUS
<1>1. \A c \in Caller : frame[c].pc = "idle"
    BY DEF Init, RegistryInit, Idle
<1>2. booted = {}
    BY DEF Init
<1>3. \E s \in Seq(Name) : aspectRows = RowsOf(s)
    <2>1. \/ aspectRows = {}
          \/ \E n \in Name : aspectRows = {[name |-> n, ordinal |-> 1]}
        BY DEF Init, RegistryInit
    <2>2. << >> \in Seq(Name) /\ RowsOf(<< >>) = {} /\ Len(<< >>) = 0
        BY DEF RowsOf
    <2>3. CASE aspectRows = {}
        BY <2>2, <2>3
    <2>4. ASSUME NEW n \in Name, aspectRows = {[name |-> n, ordinal |-> 1]}
          PROVE  \E s \in Seq(Name) : aspectRows = RowsOf(s)
        <3>1. RowsOf(Append(<< >>, n)) = RowsOf(<< >>) \cup {[name |-> n, ordinal |-> 0 + 1]}
            BY <2>2, RowsAppend
        <3>2. Append(<< >>, n) \in Seq(Name)
            BY <2>2, AppendProperties
        <3>3. aspectRows = RowsOf(Append(<< >>, n))
            BY <2>2, <2>4, <3>1
        <3> QED BY <3>2, <3>3
    <2> QED BY <2>1, <2>3, <2>4
<1> QED BY <1>1, <1>2, <1>3 DEF PlacedInv, Registering, Unwritten

LEMMA NextPlaced ==
    ASSUME IInv, DatedInv, PlacedInv, [Next]_vars
    PROVE  PlacedInv'
<1>1. CASE \E p \in Process : Migrate(p)
    BY <1>1, IdlePlaced DEF Migrate
<1>2. CASE \E p \in Process : Boot(p) \/ End(p)
    BY <1>2, BootPlaced, EndPlaced
<1>3. ASSUME NEW c \in Caller, Serve(c) PROVE PlacedInv'
    <2>1. Home[c] \in booted /\ booted' = booted
        BY <1>3 DEF Serve
    <2>2. CASE RegistryStep(c, booted) /\ ~\E n \in Name : BeginRegister(c, n)
        BY <2>1, <2>2, RegisterPlaced, AppendPlaced, BumpPlaced, NumberPlaced, InsertPlaced,
           PublishPlaced, EmbedPlaced
           DEF RegistryStep
    <2>3. CASE \/ \E n \in Name : BeginRegister(c, n)
               \/ GenesisStep(c)
               \/ SigilStep(c, booted)
        BY <2>1, <2>3, ApartSteps, ApartPlaced
    <2> QED BY <1>3, <2>2, <2>3 DEF Serve
<1>4. CASE UNCHANGED vars
    BY <1>4, IdlePlaced DEF vars
<1> QED BY <1>1, <1>2, <1>3, <1>4 DEF Next

(* The registry numbers the rows of the table without a gap, and apart from *)
(* the call that is at it every process lists them as a restart would.     *)
THEOREM RowsArePlaced == Spec => [](IInv /\ DatedInv /\ PlacedInv)
BY InitIInv, NextIInv, InitDated, NextDated, InitPlaced, NextPlaced, PTL DEF Spec

(* Every process numbers the aspects as a restart would, and has the basis *)
(* version a restart would load, whenever no registration is under way and *)
(* none has failed, overlapped another one or run beside a second process. *)
THEOREM PositionsSurvive == Spec => []PositionsSurviveRestart
<1>1. IInv /\ DatedInv /\ PlacedInv => PositionsSurviveRestart
    <2> SUFFICES ASSUME IInv, DatedInv, PlacedInv, strain = {}, Quiet, NEW p \in booted
                 PROVE  /\ {[i \in DOMAIN s |-> s[i].name] : s \in Listings} = {order[p]}
                        /\ basis[p] = latest
        BY DEF PositionsSurviveRestart
    <2>1. order[p] \in Seq(Name)
        BY DEF IInv, Typed, DatedInv, OffInv
    <2>2. \A c \in Caller : ~Unwritten(c)
        BY DEF Quiet, Registering
    <2>3. aspectRows = RowsOf(order[p]) /\ basis[p] = latest
        BY <2>2 DEF PlacedInv
    <2> QED BY <2>1, <2>3, OneListing
<1> QED BY <1>1, RowsArePlaced, PTL

-----------------------------------------------------------------------------
(* Sigils.  Without a contest the rows, those on their way included, have  *)
(* a name and a pattern of their own, so that the load of a start puts     *)
(* each of them where it is in memory, in whatever order it reads them.    *)

SigilEntry == [name : SigilName \cup {NoSigil, DataFile}, stated : BOOLEAN]

SigilTyped ==
    /\ sigilRows \in Seq(SigilRow)
    /\ writing \in [Caller -> SigilRow \cup {NoRow}]
    /\ \A c \in Caller : At(c, "sigil") => writing[c] \in SigilRow
    /\ sigils \in [Process -> [Pattern -> SigilEntry]]

Differ(r, s) == r.name # s.name /\ r.pattern # s.pattern

RowsDiffer ==
    /\ \A i, j \in DOMAIN sigilRows : i # j => Differ(sigilRows[i], sigilRows[j])
    /\ \A c \in Caller : At(c, "sigil") =>
          \A i \in DOMAIN sigilRows : Differ(writing[c], sigilRows[i])
    /\ \A c, d \in Caller : c # d /\ At(c, "sigil") /\ At(d, "sigil") =>
          Differ(writing[c], writing[d])

\* The aspects of a stored sigil were in the memory of a process.
NeedsAreBacked == \A r \in Stored : \A n \in Needs[r.pattern] : Backed(n)

\* A sigil of the data files is replaced by an override only.
OverridesAreMarked == \A r \in Stored : r.pattern \in Canonical => r.override

\* What a process has in memory for a pattern is its row, or the data files.
Holds(p, x) ==
    \/ \E r \in Stored : r.pattern = x /\ sigils[p][x].name = r.name
    \/ sigils[p][x] = DataTable[x] /\ \A r \in Stored : r.pattern # x

SigilsHeld ==
    /\ \A c \in Caller : At(c, "sigil") => booted \subseteq {Home[c]}
    /\ OverridesAreMarked
    /\ \A p \in booted : \A x \in Pattern : Holds(p, x)

SigilInv ==
    ~contested =>
        /\ SigilTyped
        /\ RowsDiffer
        /\ NeedsAreBacked
        /\ strain = {} => SigilsHeld

(* The load reads every row once.                                          *)
LEMMA LoadOrderRows ==
    ASSUME SigilTyped, RowsDiffer
    PROVE  /\ Len(sigilRows) \in Nat
           /\ LoadOrder \in [1 .. Len(sigilRows) -> SigilRow]
           /\ \A j, k \in 1 .. Len(sigilRows) : j # k => Differ(LoadOrder[j], LoadOrder[k])
           /\ \A k \in 1 .. Len(sigilRows) : LoadOrder[k] \in ToSet(sigilRows)
           /\ \A r \in ToSet(sigilRows) : \E k \in 1 .. Len(sigilRows) : LoadOrder[k] = r
<1> PICK n : n = Len(sigilRows)
    OBVIOUS
<1>1. n \in Nat /\ DOMAIN sigilRows = 1 .. n /\ sigilRows \in [1 .. n -> SigilRow]
    BY LenProperties DEF SigilTyped
<1>2. LoadOrder = [i \in 1 .. n |-> sigilRows[(n - i) + 1]]
    BY DEF LoadOrder, Reverse
<1>3. \A i \in 1 .. n : (n - i) + 1 \in 1 .. n
    BY <1>1
<1>4. LoadOrder \in [1 .. n -> SigilRow]
    BY <1>1, <1>2, <1>3
<1>5. ASSUME NEW j \in 1 .. n, NEW k \in 1 .. n, j # k
      PROVE  Differ(LoadOrder[j], LoadOrder[k])
    <2> PICK a, b : a = (n - j) + 1 /\ b = (n - k) + 1
        OBVIOUS
    <2>1. a \in 1 .. n /\ b \in 1 .. n /\ a # b
        BY <1>1, <1>3, <1>5
    <2>2. LoadOrder[j] = sigilRows[a] /\ LoadOrder[k] = sigilRows[b]
        BY <1>2
    <2> QED BY <1>1, <2>1, <2>2 DEF RowsDiffer
<1>6. \A k \in 1 .. n : LoadOrder[k] \in ToSet(sigilRows)
    BY <1>1, <1>2, <1>3 DEF ToSet
<1>7. ASSUME NEW r \in ToSet(sigilRows)
      PROVE  \E k \in 1 .. n : LoadOrder[k] = r
    <2>1. PICK i \in 1 .. n : r = sigilRows[i]
        BY <1>1 DEF ToSet
    <2> PICK k : k = (n - i) + 1
        OBVIOUS
    <2>2. k \in 1 .. n /\ (n - k) + 1 = i
        BY <1>1
    <2> QED BY <1>2, <2>1, <2>2
<1> QED BY <1>1, <1>4, <1>5, <1>6, <1>7

(* The table while it is loaded: the row of the pattern, once it was read. *)
LEMMA LoadedRow ==
    ASSUME SigilTyped, RowsDiffer, NEW i \in 0 .. Len(sigilRows), NEW x \in Pattern
    PROVE  /\ \A k \in 1 .. i : LoadOrder[k].pattern = x =>
                  Loaded(i)[x] = Entry(LoadOrder[k].name, TRUE)
           /\ (\A k \in 1 .. i : LoadOrder[k].pattern # x) => Loaded(i)[x] = DataTable[x]
<1> DEFINE at == {j \in 1 .. i : LoadOrder[j].pattern = x}
<1>1. Loaded(i)[x] = IF at = {} THEN DataTable[x] ELSE Entry(LoadOrder[Max(at)].name, TRUE)
    BY DEF Loaded
<1>2. ASSUME NEW k \in 1 .. i, LoadOrder[k].pattern = x
      PROVE  Loaded(i)[x] = Entry(LoadOrder[k].name, TRUE)
    <2>1. \A j \in 1 .. i : j \in 1 .. Len(sigilRows)
        BY LoadOrderRows
    <2>2. at = {k}
        BY <1>2, <2>1, LoadOrderRows DEF Differ
    <2>3. k >= k
        OBVIOUS
    <2>4. Max({k}) = k
        BY <2>3 DEF Max
    <2> QED BY <1>1, <2>2, <2>4
<1>3. (\A k \in 1 .. i : LoadOrder[k].pattern # x) => at = {}
    OBVIOUS
<1> QED BY <1>1, <1>2, <1>3

(* A start in a quiet moment loads every row, and nothing is amiss.        *)
LEMMA QuietLoads ==
    ASSUME SigilInv, ~contested, strain = {}, Quiet
    PROVE  Loads({row.name : row \in aspectRows})
<1>1. SigilTyped /\ RowsDiffer /\ NeedsAreBacked /\ OverridesAreMarked
    BY DEF SigilInv, SigilsHeld
<1> PICK n : n = Len(sigilRows)
    OBVIOUS
<1>2. DOMAIN LoadOrder = 1 .. n /\ n \in Nat
    BY <1>1, LoadOrderRows
<1>3. ASSUME NEW i \in 1 .. n
      PROVE  /\ Resolvable(LoadOrder[i], {row.name : row \in aspectRows})
             /\ Admits(Loaded(i - 1), LoadOrder[i])
    <2> PICK r : r = LoadOrder[i]
        OBVIOUS
    <2>1. r \in Stored /\ r \in SigilRow /\ r.pattern \in Pattern
        BY <1>1, LoadOrderRows DEF Stored, SigilRow
    <2>2. Resolvable(r, {row.name : row \in aspectRows})
        <3>1. ASSUME NEW m \in Needs[r.pattern] PROVE HasRow(m)
            <4>1. Backed(m)
                BY <1>1, <2>1 DEF NeedsAreBacked
            <4> QED BY <4>1 DEF Backed, Quiet, Registering
        <3> QED BY <3>1 DEF Resolvable, HasRow
    <2>3. Admits(Loaded(i - 1), r)
        <3>1. i - 1 \in 0 .. Len(sigilRows) /\ \A k \in 1 .. i - 1 : k \in 1 .. n /\ k # i
            BY <1>2
        <3>2. \A k \in 1 .. i - 1 : LoadOrder[k].pattern # r.pattern
            BY <1>1, <3>1, LoadOrderRows DEF Differ
        <3>3. Loaded(i - 1)[r.pattern] = DataTable[r.pattern]
            BY <1>1, <2>1, <3>1, <3>2, LoadedRow
        <3>4. r.pattern \notin Canonical => DataTable[r.pattern].name = NoSigil
            BY <2>1 DEF DataTable, Entry
        <3> QED BY <1>1, <2>1, <3>3, <3>4 DEF Admits, OverridesAreMarked
    <2> QED BY <2>2, <2>3
<1> QED BY <1>2, <1>3 DEF Loads

\* A step of a call that is at no sigil.
ServesAs(c) ==
    Others(c) /\ ~At(c, "sigil") /\ frame'[c].pc # "sigil" /\ Lasting

LEMMA LastingServe ==
    ASSUME NEW c \in Caller, Others(c), aspectRows \subseteq aspectRows',
           strain \subseteq strain',
           Unwritten(c) => \/ frame'[c].pc \in {"bump", "index", "number", "read", "insert"}
                                /\ frame'[c].name = frame[c].name
                           \/ \E row \in aspectRows' : row.name = frame[c].name
                           \/ "failed" \in strain'
    PROVE  Lasting
BY DEF Lasting, Others, Unwritten

(* Proposals and the beginning of a registration.                          *)
LEMMA ProposalServes ==
    ASSUME NEW c \in Caller, Proposes(c)
    PROVE  ServesAs(c)
<1>1. Others(c) /\ frame[c].pc \in Apart /\ aspectRows' = aspectRows /\ strain \subseteq strain'
    BY DEF Proposes, StandsApart, aspectTables
<1>2. ~Unwritten(c)
    BY <1>1 DEF Unwritten, Apart
<1>3. Lasting
    BY <1>1, <1>2, LastingServe
<1> QED BY <1>1, <1>3 DEF ServesAs, Proposes

(* The rest of a registration, and the reference vectors.                  *)
LEMMA RegistryServes ==
    ASSUME IInv, NEW c \in Caller, RegistryStep(c, booted)
    PROVE  ServesAs(c)
<1>a. Typed
    BY DEF IInv
<1>t. Typed /\ frame[c] \in FrameType
    BY <1>a DEF Typed
<1>1. ASSUME Register(c, booted) PROVE ServesAs(c)
    <2>1. /\ frame[c].pc = "register" /\ aspectRows' = aspectRows /\ strain \subseteq strain'
          /\ Return(c) \/ Goto(c, "append")
        BY <1>1 DEF Register, At, aspectTables
    <2>2. Others(c) /\ frame'[c].pc \in {"idle", "append"}
        BY <1>t, <2>1, ReturnOthers, GotoOthers
    <2>3. ~Unwritten(c)
        BY <2>1 DEF Unwritten
    <2> QED BY <2>1, <2>2, <2>3, LastingServe DEF ServesAs, At
<1>2. ASSUME Number(c) PROVE ServesAs(c)
    <2> PICK o : o = Len(order[Here(c)])
        OBVIOUS
    <2> DEFINE f == [frame[c] EXCEPT !.pc = "read", !.ordinal = o]
    <2>1. f.pc = "read" /\ f.name = frame[c].name
        BY <1>t DEF FrameType
    <2>2. frame' = [frame EXCEPT ![c] = f] /\ frame[c].pc = "number"
          /\ UNCHANGED <<aspectRows, strain>>
        BY <1>2 DEF Number, At, aspectTables
    <2> HIDE DEF f
    <2>3. Others(c) /\ frame'[c] = f
        BY <1>t, <2>2, BecomesOthers
    <2> QED BY <2>1, <2>2, <2>3, LastingServe DEF ServesAs, At
<1>3. ASSUME ReadVersion(c) PROVE ServesAs(c)
    <2> PICK v : v = latest + 1
        OBVIOUS
    <2> DEFINE f == [frame[c] EXCEPT !.pc = "insert", !.version = v]
    <2>1. f.pc = "insert" /\ f.name = frame[c].name
        BY <1>t DEF FrameType
    <2>2. frame' = [frame EXCEPT ![c] = f] /\ frame[c].pc = "read"
          /\ UNCHANGED <<aspectRows, strain>>
        BY <1>3 DEF ReadVersion, At, aspectTables
    <2> HIDE DEF f
    <2>3. Others(c) /\ frame'[c] = f
        BY <1>t, <2>2, BecomesOthers
    <2> QED BY <2>1, <2>2, <2>3, LastingServe DEF ServesAs, At
<1>4. ASSUME InsertAspect(c) PROVE ServesAs(c)
    <2>1. frame[c].pc = "insert"
        BY <1>4 DEF InsertAspect, At
    <2>2. CASE aspectRows' = aspectRows \cup {Row(c)} /\ Goto(c, "publish") /\ strain' = strain
        <3>1. Others(c) /\ frame'[c].pc = "publish"
            BY <1>t, <2>2, GotoOthers
        <3>2. Row(c) \in aspectRows' /\ Row(c).name = frame[c].name
            BY <2>2 DEF Row
        <3> QED BY <2>1, <2>2, <3>1, <3>2, LastingServe DEF ServesAs, At
    <2>3. CASE Return(c) /\ strain' = strain \cup {"failed"} /\ aspectRows' = aspectRows
        <3>1. Others(c) /\ frame'[c].pc = "idle"
            BY <1>t, <2>3, ReturnOthers
        <3> QED BY <2>1, <2>3, <3>1, LastingServe DEF ServesAs, At
    <2> QED BY <1>4, <2>2, <2>3 DEF InsertAspect, aspectTables
<1>5. ASSUME Publish(c) PROVE ServesAs(c)
    <2>1. /\ frame[c].pc = "publish" /\ UNCHANGED <<aspectRows, strain>>
          /\ Return(c) \/ Goto(c, "decide")
        BY <1>5 DEF Publish, At, aspectTables
    <2>2. Others(c) /\ frame'[c].pc \in {"idle", "decide"}
        BY <1>t, <2>1, ReturnOthers, GotoOthers
    <2>3. ~Unwritten(c)
        BY <2>1 DEF Unwritten
    <2> QED BY <2>1, <2>2, <2>3, LastingServe DEF ServesAs, At
<1>6. ASSUME BeginEmbed(c) PROVE ServesAs(c)
    <2> PICK v : v = basis[Here(c)]
        OBVIOUS
    <2> DEFINE f == [Idle EXCEPT !.pc = "embed", !.version = v]
    <2>1. f.pc = "embed"
        BY DEF Idle
    <2>2. frame' = [frame EXCEPT ![c] = f] /\ frame[c].pc = "idle"
          /\ UNCHANGED <<aspectRows, strain>>
        BY <1>6 DEF BeginEmbed, At, aspectTables
    <2> HIDE DEF f
    <2>3. Others(c) /\ frame'[c] = f
        BY <1>t, <2>2, BecomesOthers
    <2>4. ~Unwritten(c)
        BY <2>2 DEF Unwritten
    <2> QED BY <2>1, <2>2, <2>3, <2>4, LastingServe DEF ServesAs, At
<1>7. ASSUME ReadTexts(c) PROVE ServesAs(c)
    <2> PICK k : k = Known(Here(c)) \cup {NoName}
        OBVIOUS
    <2> DEFINE f == [frame[c] EXCEPT !.known = k]
    <2>1. f.pc = "embed" /\ frame[c].pc = "embed"
        BY <1>t, <1>7 DEF FrameType, ReadTexts, At
    <2>2. frame' = [frame EXCEPT ![c] = f] /\ UNCHANGED <<aspectRows, strain>>
        BY <1>7 DEF ReadTexts, aspectTables
    <2> HIDE DEF f
    <2>3. Others(c) /\ frame'[c] = f
        BY <1>t, <2>2, BecomesOthers
    <2>4. ~Unwritten(c)
        BY <2>1 DEF Unwritten
    <2> QED BY <2>1, <2>2, <2>3, <2>4, LastingServe DEF ServesAs, At
<1>8. ASSUME StoreVectors(c) \/ StampVectors(c) PROVE ServesAs(c)
    <2>1. /\ frame[c].pc \in {"embed", "stamp"} /\ UNCHANGED <<aspectRows, strain>>
          /\ Return(c) \/ Goto(c, "stamp")
        BY <1>8 DEF StoreVectors, StampVectors, At, aspectTables
    <2>2. Others(c) /\ frame'[c].pc \in {"idle", "stamp"}
        BY <1>t, <2>1, ReturnOthers, GotoOthers
    <2>3. ~Unwritten(c)
        BY <2>1 DEF Unwritten
    <2> QED BY <2>1, <2>2, <2>3, LastingServe DEF ServesAs, At
<1>9. ASSUME NEW n \in Name, BeginRegister(c, n) PROVE ServesAs(c)
    BY <1>9, ProposalSteps, ProposalServes
<1>10. ASSUME AppendAspect(c) \/ BumpVersion(c) \/ IndexAspect(c) PROVE ServesAs(c)
    <2> PICK pc : Goto(c, pc) /\ pc \in {"bump", "index", "number"}
        BY <1>10 DEF AppendAspect, BumpVersion, IndexAspect
    <2>1. frame[c].pc \in {"append", "bump", "index"} /\ UNCHANGED <<aspectRows, strain>>
        BY <1>10 DEF AppendAspect, BumpVersion, IndexAspect, At, aspectTables
    <2>2. Others(c) /\ frame'[c].pc = pc /\ frame'[c].name = frame[c].name
        BY <1>t, GotoOthers
    <2> QED BY <2>1, <2>2, LastingServe DEF ServesAs, At
<1> QED BY <1>1, <1>2, <1>3, <1>4, <1>5, <1>6, <1>7, <1>8, <1>9, <1>10 DEF RegistryStep

(* What sigils have in memory, in their table and on the way stays.        *)
LEMMA SigilsStay ==
    ASSUME SigilInv, Lasting, UNCHANGED sigilVars, booted' \subseteq booted,
           \A c \in Caller : frame'[c].pc = "sigil" <=> At(c, "sigil")
    PROVE  SigilInv'
<1> SUFFICES ASSUME ~contested
             PROVE  /\ SigilTyped' /\ RowsDiffer' /\ NeedsAreBacked'
                    /\ strain' = {} => SigilsHeld'
    BY DEF SigilInv, sigilVars
<1>1. SigilTyped /\ RowsDiffer /\ NeedsAreBacked /\ (strain = {} => SigilsHeld)
    BY DEF SigilInv
<1>2. SigilTyped'
    BY <1>1 DEF SigilTyped, sigilVars, At
<1>3. RowsDiffer'
    BY <1>1 DEF RowsDiffer, sigilVars, At
<1>4. Stored' = Stored
    BY DEF Stored, sigilVars, At
<1>5. NeedsAreBacked'
    BY <1>1, <1>4, BackedStays DEF NeedsAreBacked
<1>6. ASSUME strain' = {} PROVE SigilsHeld'
    <2>1. SigilsHeld
        BY <1>1, <1>6 DEF Lasting
    <2>2. sigils' = sigils /\ DataTable' = DataTable
        BY DEF sigilVars, DataTable
    <2> QED BY <1>4, <2>1, <2>2 DEF SigilsHeld, OverridesAreMarked, Holds, At
<1> QED BY <1>2, <1>3, <1>5, <1>6

(* A step at a sigil leaves the aspects and their troubles as they are.    *)
LEMMA SigilLasts ==
    ASSUME NEW c \in Caller, StandsApart(c)
    PROVE  Lasting
<1>1. Others(c) /\ frame[c].pc \in Apart /\ aspectRows' = aspectRows /\ strain \subseteq strain'
    BY DEF StandsApart, aspectTables
<1>2. ~Unwritten(c)
    BY <1>1 DEF Unwritten, Apart
<1> QED BY <1>1, <1>2, LastingServe

(* A sigil that is admitted has a name and a pattern of its own, or makes  *)
(* the contest.                                                            *)
LEMMA PutSigilHeld ==
    ASSUME IInv, OffInv, SigilInv, NEW c \in Caller, Home[c] \in booted, booted' = booted,
           NEW row \in SigilRow, PutSigil(c, row, booted)
    PROVE  SigilInv'
<1> SUFFICES ASSUME ~contested'
             PROVE  /\ SigilTyped' /\ RowsDiffer' /\ NeedsAreBacked'
                    /\ strain' = {} => SigilsHeld'
    BY DEF SigilInv
<1>1. ~contested /\ \A r \in Stored : Differ(row, r)
    BY DEF PutSigil, Differ
<1>2. SigilTyped /\ RowsDiffer /\ NeedsAreBacked /\ (strain = {} => SigilsHeld)
    BY <1>1 DEF SigilInv
<1> PICK p : p = Home[c]
    OBVIOUS
<1>3. p \in Process /\ p \in booted /\ row.pattern \in Pattern /\ row.name \in SigilName
    BY RegistryAssumption DEF SigilRow
<1>4. StandsApart(c) /\ Lasting
    BY SigilSteps, SigilLasts DEF SigilStep
<1>5. /\ frame[c].pc = "idle" /\ sigilRows' = sigilRows
      /\ writing' = [writing EXCEPT ![c] = row]
      /\ sigils' = [sigils EXCEPT ![p][row.pattern] = Entry(row.name, FALSE)]
    BY DEF PutSigil, At, Here
<1>6. frame'[c].pc = "sigil" /\ Others(c)
    <2> DEFINE f == [Idle EXCEPT !.pc = "sigil", !.verb = "sigil"]
    <2>1. f.pc = "sigil"
        BY DEF Idle
    <2>2. frame' = [frame EXCEPT ![c] = f] /\ Typed
        BY DEF PutSigil, IInv
    <2> HIDE DEF f
    <2> QED BY <2>1, <2>2, BecomesOthers
<1>7. \A d \in Caller \ {c} :
          writing'[d] = writing[d] /\ (frame'[d].pc = "sigil" <=> frame[d].pc = "sigil")
    BY <1>2, <1>5, <1>6 DEF SigilTyped, Others
<1>8. writing'[c] = row
    BY <1>2, <1>5 DEF SigilTyped
<1>9. Stored' = Stored \cup {row}
    BY <1>5, <1>6, <1>7, <1>8 DEF Stored, At
<1>10. SigilTyped'
    <2>1. Entry(row.name, FALSE) \in SigilEntry
        BY <1>3 DEF Entry, SigilEntry
    <2>2. sigils' \in [Process -> [Pattern -> SigilEntry]]
        BY <1>2, <1>3, <1>5, <2>1 DEF SigilTyped
    <2>3. writing' \in [Caller -> SigilRow \cup {NoRow}]
        BY <1>2, <1>5 DEF SigilTyped
    <2>4. \A d \in Caller : frame'[d].pc = "sigil" => writing'[d] \in SigilRow
        BY <1>2, <1>7, <1>8 DEF SigilTyped, At
    <2> QED BY <1>2, <1>5, <2>2, <2>3, <2>4 DEF SigilTyped, At
<1>11. RowsDiffer'
    <2>1. \A i \in DOMAIN sigilRows : Differ(row, sigilRows[i])
        BY <1>1 DEF Stored, ToSet
    <2>2. \A d \in Caller : frame[d].pc = "sigil" => Differ(row, writing[d])
        BY <1>1 DEF Stored, At
    <2>3. \A i, j \in DOMAIN sigilRows : i # j => Differ(sigilRows[i], sigilRows[j])
        BY <1>2 DEF RowsDiffer
    <2>4. \A d \in Caller : frame'[d].pc = "sigil" =>
              \A i \in DOMAIN sigilRows : Differ(writing'[d], sigilRows[i])
        BY <1>2, <1>7, <1>8, <2>1 DEF RowsDiffer, At
    <2>5. \A d, e \in Caller : d # e /\ frame'[d].pc = "sigil" /\ frame'[e].pc = "sigil" =>
              Differ(writing'[d], writing'[e])
        <3>1. \A d \in Caller \ {c} : frame'[d].pc = "sigil" =>
                  Differ(writing'[c], writing'[d]) /\ Differ(writing'[d], writing'[c])
            BY <1>7, <1>8, <2>2 DEF Differ
        <3>2. \A d, e \in Caller \ {c} :
                  d # e /\ frame'[d].pc = "sigil" /\ frame'[e].pc = "sigil" =>
                  Differ(writing'[d], writing'[e])
            BY <1>2, <1>7 DEF RowsDiffer, At
        <3> QED BY <3>1, <3>2
    <2> QED BY <1>5, <2>3, <2>4, <2>5 DEF RowsDiffer, At
<1>12. NeedsAreBacked'
    <2>1. ASSUME NEW n \in Needs[row.pattern] PROVE Backed(n)'
        <3>1. n \in named[p]
            BY DEF PutSigil, Resolvable, Here
        <3>2. Backed(n)
            BY <1>3, <3>1 DEF IInv, MemoryIsBacked, InMemory
        <3> QED BY <1>4, <3>2, BackedStays
    <2>2. ASSUME NEW r \in Stored, NEW n \in Needs[r.pattern] PROVE Backed(n)'
        BY <1>2, <1>4, BackedStays DEF NeedsAreBacked
    <2> QED BY <1>9, <2>1, <2>2 DEF NeedsAreBacked
<1>13. ASSUME strain' = {} PROVE SigilsHeld'
    <2>1. SigilsHeld
        BY <1>2, <1>4, <1>13 DEF Lasting
    <2>2. booted \subseteq {p}
        BY <1>13 DEF PutSigil, Here
    <2>3. \A d \in Caller : frame'[d].pc = "sigil" => booted \subseteq {Home[d]}
        BY <1>7, <2>1, <2>2 DEF SigilsHeld, At
    <2>4. row.pattern \in Canonical => row.override
        <3> SUFFICES ASSUME row.pattern \in Canonical PROVE row.override
            OBVIOUS
        <3>1. Holds(p, row.pattern)
            BY <1>3, <2>1 DEF SigilsHeld
        <3>2. sigils[p][row.pattern] = DataTable[row.pattern]
            BY <1>1, <3>1 DEF Holds, Differ
        <3>3. sigils[p][row.pattern].name # NoSigil
            BY <1>3, <3>2, SigilAssumption DEF DataTable, Entry
        <3> QED BY <3>3 DEF PutSigil, Admits, Here
    <2>5. OverridesAreMarked'
        BY <1>9, <2>1, <2>4 DEF SigilsHeld, OverridesAreMarked
    <2>6. ASSUME NEW x \in Pattern PROVE Holds(p, x)'
        <3>1. CASE x = row.pattern
            <4>1. sigils'[p][x].name = row.name
                BY <1>2, <1>3, <1>5, <3>1 DEF SigilTyped, Entry
            <4> QED BY <1>9, <3>1, <4>1 DEF Holds
        <3>2. CASE x # row.pattern
            <4>1. sigils'[p][x] = sigils[p][x]
                BY <1>2, <1>3, <1>5, <3>2 DEF SigilTyped
            <4>2. Holds(p, x) /\ DataTable' = DataTable
                BY <1>3, <2>1 DEF SigilsHeld, DataTable
            <4> QED BY <1>9, <3>2, <4>1, <4>2 DEF Holds
        <3> QED BY <3>1, <3>2
    <2>7. \A q \in booted : q = p
        BY <2>2
    <2> QED BY <2>3, <2>5, <2>6, <2>7 DEF SigilsHeld, At
<1> QED BY <1>10, <1>11, <1>12, <1>13

(* A write adds the row of the call, or is on record as failed.            *)
LEMMA WriteSigilHeld ==
    ASSUME IInv, SigilInv, NEW c \in Caller, booted' = booted, WriteSigil(c)
    PROVE  SigilInv'
<1> SUFFICES ASSUME ~contested
             PROVE  /\ SigilTyped' /\ RowsDiffer' /\ NeedsAreBacked'
                    /\ strain' = {} => SigilsHeld'
    BY DEF SigilInv, WriteSigil
<1>1. SigilTyped /\ RowsDiffer /\ NeedsAreBacked /\ (strain = {} => SigilsHeld)
    BY DEF SigilInv
<1>2. StandsApart(c) /\ Lasting
    BY SigilSteps, SigilLasts DEF SigilStep
<1>3. Others(c) /\ frame'[c].pc = "idle"
    BY ReturnOthers DEF WriteSigil, IInv
<1> PICK w : w = writing[c]
    OBVIOUS
<1>4. frame[c].pc = "sigil" /\ w \in SigilRow /\ sigils' = sigils
    BY <1>1 DEF WriteSigil, SigilTyped, At
<1>5. /\ writing' \in [Caller -> SigilRow \cup {NoRow}]
      /\ \A d \in Caller \ {c} :
            writing'[d] = writing[d] /\ (frame'[d].pc = "sigil" <=> frame[d].pc = "sigil")
    BY <1>1, <1>3 DEF WriteSigil, SigilTyped, Others
<1>6. CASE sigilRows' = Append(OtherRows(writing[c].name), NewRow(c)) /\ strain' = strain
    <2> PICK n : n = Len(sigilRows)
        OBVIOUS
    <2>1. n \in Nat /\ DOMAIN sigilRows = 1 .. n /\ sigilRows \in Seq(SigilRow)
        BY <1>1, LenProperties DEF SigilTyped
    <2>2. OtherRows(w.name) = sigilRows
        <3>1. {i \in DOMAIN sigilRows : sigilRows[i].name = w.name} = {}
            BY <1>1, <1>4 DEF RowsDiffer, Differ, At
        <3> QED BY <3>1 DEF OtherRows
    <2>3. sigilRows' = Append(sigilRows, w)
        BY <1>6, <2>2 DEF NewRow
    <2>4. /\ sigilRows' \in Seq(SigilRow) /\ DOMAIN sigilRows' = 1 .. n + 1
          /\ \A i \in 1 .. n : sigilRows'[i] = sigilRows[i]
          /\ sigilRows'[n + 1] = w
        <3> PICK t : t = Append(sigilRows, w)
            OBVIOUS
        <3>1. /\ t \in Seq(SigilRow) /\ Len(t) = n + 1
              /\ \A i \in 1 .. n : t[i] = sigilRows[i]
              /\ t[n + 1] = w
            BY <1>4, <2>1, AppendProperties
        <3>2. DOMAIN t = 1 .. n + 1
            BY <3>1, LenProperties
        <3> QED BY <2>3, <3>1, <3>2
    <2>5. \A i \in 1 .. n + 1 : i \in 1 .. n \/ i = n + 1
        BY <2>1
    <2>6. n + 1 \in 1 .. n + 1 /\ 1 .. n \subseteq 1 .. n + 1 /\ n + 1 \notin 1 .. n
        BY <2>1
    <2>7. SigilTyped'
        BY <1>1, <1>3, <1>4, <1>5, <2>4 DEF SigilTyped, At
    <2>8. Stored' = Stored
        <3>1. \A r : r \in ToSet(sigilRows)' <=> r \in ToSet(sigilRows) \/ r = w
            BY <2>1, <2>4, <2>5, <2>6 DEF ToSet
        <3>2. \A r : r \in Stored <=> r \in ToSet(sigilRows) \/ r = w
                        \/ \E d \in Caller \ {c} : frame[d].pc = "sigil" /\ r = writing[d]
            BY <1>4 DEF Stored, At
        <3>3. \A r : r \in Stored' <=> r \in ToSet(sigilRows)'
                        \/ \E d \in Caller \ {c} : frame[d].pc = "sigil" /\ r = writing[d]
            BY <1>3, <1>5 DEF Stored, At
        <3>4. \A r : r \in Stored' <=> r \in Stored
            BY <3>1, <3>2, <3>3
        <3> QED BY <3>4
    <2>9. RowsDiffer'
        <3>1. \A i \in 1 .. n : Differ(w, sigilRows[i]) /\ Differ(sigilRows[i], w)
            BY <1>1, <1>4, <2>1 DEF RowsDiffer, Differ, At
        <3>2. \A i, j \in 1 .. n : i # j => Differ(sigilRows[i], sigilRows[j])
            BY <1>1, <2>1 DEF RowsDiffer
        <3>3. \A i, j \in 1 .. n + 1 : i # j => Differ(sigilRows'[i], sigilRows'[j])
            BY <2>4, <2>5, <3>1, <3>2
        <3>4. \A d \in Caller \ {c} : frame[d].pc = "sigil" =>
                  /\ Differ(writing[d], w)
                  /\ \A i \in 1 .. n : Differ(writing[d], sigilRows[i])
            BY <1>1, <1>4, <2>1 DEF RowsDiffer, At
        <3>5. \A d \in Caller : frame'[d].pc = "sigil" =>
                  \A i \in 1 .. n + 1 : Differ(writing'[d], sigilRows'[i])
            BY <1>3, <1>5, <2>4, <2>5, <3>4
        <3>6. \A d, e \in Caller : d # e /\ frame'[d].pc = "sigil" /\ frame'[e].pc = "sigil" =>
                  Differ(writing'[d], writing'[e])
            BY <1>1, <1>3, <1>5 DEF RowsDiffer, At
        <3> QED BY <2>4, <3>3, <3>5, <3>6 DEF RowsDiffer, At
    <2>10. NeedsAreBacked'
        BY <1>1, <1>2, <2>8, BackedStays DEF NeedsAreBacked
    <2>11. ASSUME strain' = {} PROVE SigilsHeld'
        <3>1. SigilsHeld /\ DataTable' = DataTable
            BY <1>1, <1>6, <2>11 DEF DataTable
        <3>2. \A d \in Caller : frame'[d].pc = "sigil" => booted \subseteq {Home[d]}
            BY <1>3, <1>5, <3>1 DEF SigilsHeld, At
        <3> QED BY <1>4, <2>8, <3>1, <3>2 DEF SigilsHeld, OverridesAreMarked, Holds, At
    <2> QED BY <2>7, <2>9, <2>10, <2>11
<1>7. CASE strain' = strain \cup {"failed"} /\ sigilRows' = sigilRows
    <2>1. Stored' \subseteq Stored
        BY <1>3, <1>5, <1>7 DEF Stored, At
    <2>2. SigilTyped'
        BY <1>1, <1>3, <1>4, <1>5, <1>7 DEF SigilTyped, At
    <2>3. RowsDiffer'
        BY <1>1, <1>3, <1>5, <1>7 DEF RowsDiffer, At
    <2>4. NeedsAreBacked'
        BY <1>1, <1>2, <2>1, BackedStays DEF NeedsAreBacked
    <2> QED BY <1>7, <2>2, <2>3, <2>4
<1> QED BY <1>6, <1>7 DEF WriteSigil

(* A start has the rows in memory, whichever it read last.                 *)
LEMMA BootHeld ==
    ASSUME IInv, SigilInv, NEW p \in Process, Boot(p)
    PROVE  SigilInv'
<1>1. /\ UNCHANGED <<frame, aspectRows, sigilRows, writing, contested>>
      /\ strain \subseteq strain'
    BY DEF Boot, aspectTables
<1>2. Lasting
    BY <1>1 DEF Lasting, Unwritten
<1>3. CASE UNCHANGED <<sigils, booted>>
    BY <1>1, <1>2, <1>3, SigilsStay DEF sigilVars, At
<1>4. CASE /\ sigils' = [sigils EXCEPT ![p] = Loaded(Len(sigilRows))]
           /\ booted' = booted \cup {p}
           /\ strain' = strain \cup
                  (IF \E c \in Caller : Registering(c) \/ At(c, "sigil") THEN {"foreign"} ELSE {})
    <2> SUFFICES ASSUME ~contested
                 PROVE  /\ SigilTyped' /\ RowsDiffer' /\ NeedsAreBacked'
                        /\ strain' = {} => SigilsHeld'
        BY <1>1 DEF SigilInv
    <2>1. SigilTyped /\ RowsDiffer /\ NeedsAreBacked /\ (strain = {} => SigilsHeld)
        BY DEF SigilInv
    <2> PICK n : n = Len(sigilRows)
        OBVIOUS
    <2> PICK table : table = Loaded(n)
        OBVIOUS
    <2>2. /\ n \in Nat /\ n \in 0 .. Len(sigilRows)
          /\ \A k \in 1 .. n : LoadOrder[k] \in SigilRow /\ LoadOrder[k] \in ToSet(sigilRows)
          /\ \A r \in ToSet(sigilRows) : \E k \in 1 .. n : LoadOrder[k] = r
        BY <2>1, LoadOrderRows
    <2>3. ASSUME NEW x \in Pattern
          PROVE  /\ table[x] \in SigilEntry
                 /\ \/ \E r \in ToSet(sigilRows) : r.pattern = x /\ table[x].name = r.name
                    \/ /\ table[x] = DataTable[x]
                       /\ \A r \in ToSet(sigilRows) : r.pattern # x
        <3>1. ASSUME NEW k \in 1 .. n, LoadOrder[k].pattern = x
              PROVE  /\ table[x] \in SigilEntry /\ table[x].name = LoadOrder[k].name
                     /\ LoadOrder[k] \in ToSet(sigilRows)
            <4>1. table[x] = Entry(LoadOrder[k].name, TRUE)
                BY <2>1, <2>2, <3>1, LoadedRow
            <4>2. LoadOrder[k].name \in SigilName
                BY <2>2 DEF SigilRow
            <4> QED BY <2>2, <4>1, <4>2 DEF Entry, SigilEntry
        <3>2. ASSUME \A k \in 1 .. n : LoadOrder[k].pattern # x
              PROVE  /\ table[x] \in SigilEntry /\ table[x] = DataTable[x]
                     /\ \A r \in ToSet(sigilRows) : r.pattern # x
            <4>1. table[x] = DataTable[x]
                BY <2>1, <2>2, <3>2, LoadedRow
            <4>2. DataTable[x] \in SigilEntry
                BY DEF DataTable, Entry, SigilEntry
            <4> QED BY <2>2, <3>2, <4>1, <4>2
        <3> QED BY <3>1, <3>2
    <2>4. table = [x \in Pattern |-> table[x]]
        BY DEF Loaded
    <2>5. table \in [Pattern -> SigilEntry]
        BY <2>3, <2>4
    <2>6. /\ sigils' \in [Process -> [Pattern -> SigilEntry]]
          /\ sigils'[p] = table
          /\ \A q \in Process \ {p} : sigils'[q] = sigils[q]
        BY <1>4, <2>1, <2>5 DEF SigilTyped
    <2>7. SigilTyped'
        BY <1>1, <2>1, <2>6 DEF SigilTyped, At
    <2>8. RowsDiffer'
        BY <1>1, <2>1 DEF RowsDiffer, At
    <2>9. Stored' = Stored
        BY <1>1 DEF Stored, At
    <2>10. NeedsAreBacked'
        BY <1>2, <2>1, <2>9, BackedStays DEF NeedsAreBacked
    <2>11. ASSUME strain' = {} PROVE SigilsHeld'
        <3>1. SigilsHeld /\ DataTable' = DataTable
            BY <1>1, <2>1, <2>11 DEF DataTable
        <3>2. \A c \in Caller : frame[c].pc # "sigil"
            BY <1>4, <2>11 DEF At
        <3>3. Stored = ToSet(sigilRows)
            BY <3>2 DEF Stored, At
        <3>4. ASSUME NEW x \in Pattern PROVE Holds(p, x)'
            BY <2>3, <2>6, <2>9, <3>1, <3>3 DEF Holds
        <3>5. ASSUME NEW q \in booted \ {p}, q \in Process, NEW x \in Pattern PROVE Holds(q, x)'
            <4>1. Holds(q, x)
                BY <3>1 DEF SigilsHeld
            <4> QED BY <2>6, <2>9, <3>1, <3>5, <4>1 DEF Holds
        <3>6. ASSUME NEW q \in booted \ {p}, q \notin Process, NEW x \in Pattern PROVE Holds(q, x)'
            <4>1. Holds(q, x) /\ sigils'[q] = sigils[q]
                BY <1>4, <3>1, <3>6 DEF SigilsHeld, SigilTyped
            <4> QED BY <2>9, <3>1, <4>1 DEF Holds
        <3> QED BY <1>1, <1>4, <2>9, <3>1, <3>2, <3>4, <3>5, <3>6
                DEF SigilsHeld, OverridesAreMarked, At
    <2> QED BY <2>7, <2>8, <2>10, <2>11
<1> QED BY <1>3, <1>4 DEF Boot

(* The end of a process takes its memory and its calls.                    *)
LEMMA EndHeld ==
    ASSUME OffInv, SigilInv, NEW p \in Process, End(p)
    PROVE  SigilInv'
<1> SUFFICES ASSUME ~contested
             PROVE  /\ SigilTyped' /\ RowsDiffer' /\ NeedsAreBacked'
                    /\ strain' = {} => SigilsHeld'
    BY DEF SigilInv, End
<1>1. SigilTyped /\ RowsDiffer /\ NeedsAreBacked /\ (strain = {} => SigilsHeld)
    BY DEF SigilInv
<1>2. /\ frame' = [c \in Caller |-> IF Home[c] = p THEN Idle ELSE frame[c]]
      /\ writing' = [c \in Caller |-> IF Home[c] = p THEN NoRow ELSE writing[c]]
      /\ sigils' = [sigils EXCEPT ![p] = DataTable]
      /\ booted' = booted \ {p}
      /\ UNCHANGED <<aspectRows, sigilRows>> /\ strain \subseteq strain'
      /\ (\E c \in Caller : Home[c] = p /\ Unwritten(c)) => "failed" \in strain'
    BY DEF End, Forget, aspectTables
<1>3. \A c \in Caller : Home[c] # p => frame'[c] = frame[c] /\ writing'[c] = writing[c]
    BY <1>2
<1>4. \A c \in Caller : Home[c] = p => frame'[c].pc = "idle"
    BY <1>2 DEF Idle
<1>5. Lasting
    BY <1>2, <1>3 DEF Lasting, Unwritten
<1>6. Stored' \subseteq Stored
    BY <1>2, <1>3, <1>4 DEF Stored, At
<1>7. SigilTyped'
    <2>1. DataTable \in [Pattern -> SigilEntry]
        BY DEF DataTable, Entry, SigilEntry
    <2>2. sigils' \in [Process -> [Pattern -> SigilEntry]]
        BY <1>1, <1>2, <2>1 DEF SigilTyped
    <2>3. writing' \in [Caller -> SigilRow \cup {NoRow}]
        BY <1>1, <1>2 DEF SigilTyped
    <2> QED BY <1>1, <1>2, <1>3, <1>4, <2>2, <2>3 DEF SigilTyped, At
<1>8. RowsDiffer'
    BY <1>1, <1>2, <1>3, <1>4 DEF RowsDiffer, At
<1>9. NeedsAreBacked'
    BY <1>1, <1>5, <1>6, BackedStays DEF NeedsAreBacked
<1>10. ASSUME strain' = {} PROVE SigilsHeld'
    <2>1. SigilsHeld /\ DataTable' = DataTable
        BY <1>1, <1>2, <1>10 DEF DataTable
    <2>2. \A c \in Caller : frame'[c].pc = "sigil" => booted' \subseteq {Home[c]}
        BY <1>2, <1>3, <1>4, <2>1 DEF SigilsHeld, At
    <2>3. OverridesAreMarked'
        BY <1>6, <2>1 DEF SigilsHeld, OverridesAreMarked
    <2>4. ASSUME NEW q \in booted', NEW x \in Pattern PROVE Holds(q, x)'
        <3>1. q \in booted /\ q # p /\ Holds(q, x) /\ q \in Process
            BY <1>2, <2>1 DEF SigilsHeld, OffInv
        <3>2. sigils'[q] = sigils[q]
            BY <1>1, <1>2, <3>1 DEF SigilTyped
        <3>3. \A c \in Caller : frame[c].pc = "sigil" => Home[c] # p
            BY <2>1, <3>1 DEF SigilsHeld, At
        <3>4. Stored \subseteq Stored'
            BY <1>2, <1>3, <3>3 DEF Stored, At
        <3> QED BY <1>6, <2>1, <3>1, <3>2, <3>4 DEF Holds
    <2> QED BY <2>2, <2>3, <2>4 DEF SigilsHeld, At
<1> QED BY <1>7, <1>8, <1>9, <1>10

LEMMA InitHeld == Init => SigilInv
<1> SUFFICES ASSUME Init PROVE SigilInv
    OBVIOUS
<1>1. /\ sigils = [p \in Process |-> DataTable] /\ sigilRows = << >>
      /\ writing = [c \in Caller |-> NoRow] /\ booted = {}
    BY DEF Init, SigilInit
<1>2. \A c \in Caller : frame[c].pc = "idle"
    BY DEF Init, RegistryInit, Idle
<1>3. Stored = {}
    BY <1>1, <1>2 DEF Stored, At, ToSet
<1>4. DataTable \in [Pattern -> SigilEntry]
    BY DEF DataTable, Entry, SigilEntry
<1>5. SigilTyped
    BY <1>1, <1>2, <1>4 DEF SigilTyped, At
<1>6. RowsDiffer
    BY <1>1, <1>2 DEF RowsDiffer, At
<1> QED BY <1>1, <1>2, <1>3, <1>5, <1>6
        DEF SigilInv, NeedsAreBacked, SigilsHeld, OverridesAreMarked, At

LEMMA NextHeld == IInv /\ OffInv /\ SigilInv /\ [Next]_vars => SigilInv'
<1> SUFFICES ASSUME IInv, OffInv, SigilInv, [Next]_vars PROVE SigilInv'
    OBVIOUS
<1>1. CASE UNCHANGED registryAll /\ booted' = booted
    <2>1. Lasting
        BY <1>1 DEF Lasting, Unwritten, registryAll, registryVars, aspectTables
    <2> QED BY <1>1, <2>1, SigilsStay DEF registryAll, registryVars, At
<1>2. CASE \E p \in Process : Migrate(p)
    BY <1>1, <1>2 DEF Migrate
<1>3. CASE \E p \in Process : Boot(p) \/ End(p)
    BY <1>3, BootHeld, EndHeld
<1>4. ASSUME NEW c \in Caller, Serve(c) PROVE SigilInv'
    <2>1. Home[c] \in booted /\ booted' = booted
        BY <1>4 DEF Serve
    <2>2. ASSUME ServesAs(c), UNCHANGED sigilVars PROVE SigilInv'
        <3>1. \A d \in Caller : frame'[d].pc = "sigil" <=> At(d, "sigil")
            BY <2>2 DEF ServesAs, Others, At
        <3> QED BY <2>1, <2>2, <3>1, SigilsStay DEF ServesAs
    <2>3. CASE RegistryStep(c, booted) /\ UNCHANGED sigilVars
        BY <2>2, <2>3, RegistryServes
    <2>4. CASE GenesisStep(c) /\ UNCHANGED sigilVars
        BY <2>2, <2>4, ProposalSteps, ProposalServes
    <2>5. CASE SigilStep(c, booted)
        BY <2>1, <2>5, PutSigilHeld, WriteSigilHeld DEF SigilStep
    <2> QED BY <1>4, <2>3, <2>4, <2>5 DEF Serve
<1>5. CASE UNCHANGED vars
    BY <1>1, <1>5 DEF vars
<1> QED BY <1>2, <1>3, <1>4, <1>5 DEF Next

(* The invariant behind the sigils: rows with names and patterns of their  *)
(* own, whose aspects a start finds, and memory that says what they say.   *)
THEOREM SigilsAreHeld == Spec => [](IInv /\ DatedInv /\ SigilInv)
<1>1. DatedInv => OffInv
    BY DEF DatedInv
<1> QED BY <1>1, InitIInv, NextIInv, InitDated, NextDated, InitHeld, NextHeld, PTL DEF Spec

(* After a restart every sigil that register_sigil stored is where it was, *)
(* and no restart fails over one, apart from the contests and troubles the *)
(* property names.                                                         *)
THEOREM SigilsSurvive == Spec => []SigilsSurviveRestart
<1>1. IInv /\ DatedInv /\ SigilInv => SigilsSurviveRestart
    <2> SUFFICES ASSUME IInv, DatedInv, SigilInv, strain = {}, ~contested, Silent,
                        NEW p \in booted
                 PROVE  /\ Loads({row.name : row \in aspectRows})
                        /\ \A x \in Pattern :
                              /\ Loaded(Len(sigilRows))[x].name = sigils[p][x].name
                              /\ sigils[p][x].stated => Loaded(Len(sigilRows))[x].stated
        BY DEF SigilsSurviveRestart
    <2>1. Loads({row.name : row \in aspectRows})
        BY QuietLoads DEF Silent
    <2>2. SigilTyped /\ RowsDiffer /\ SigilsHeld
        BY DEF SigilInv
    <2>3. Stored = ToSet(sigilRows)
        BY DEF Silent, Stored
    <2> PICK n : n = Len(sigilRows)
        OBVIOUS
    <2>4. /\ n \in Nat /\ n \in 0 .. Len(sigilRows)
          /\ \A k \in 1 .. n : LoadOrder[k] \in ToSet(sigilRows)
          /\ \A r \in ToSet(sigilRows) : \E k \in 1 .. n : LoadOrder[k] = r
        BY <2>2, LoadOrderRows
    <2>5. ASSUME NEW x \in Pattern
          PROVE  /\ Loaded(n)[x].name = sigils[p][x].name
                 /\ sigils[p][x].stated => Loaded(n)[x].stated
        <3>1. Holds(p, x)
            BY <2>2 DEF SigilsHeld
        <3>2. ASSUME NEW r \in Stored, r.pattern = x, sigils[p][x].name = r.name
              PROVE  Loaded(n)[x].name = sigils[p][x].name /\ Loaded(n)[x].stated
            <4>1. PICK k \in 1 .. n : LoadOrder[k] = r
                BY <2>3, <2>4
            <4>2. Loaded(n)[x] = Entry(r.name, TRUE)
                BY <2>2, <2>4, <3>2, <4>1, LoadedRow
            <4> QED BY <3>2, <4>2 DEF Entry
        <3>3. ASSUME sigils[p][x] = DataTable[x], \A r \in Stored : r.pattern # x
              PROVE  Loaded(n)[x] = sigils[p][x]
            <4>1. \A k \in 1 .. n : LoadOrder[k].pattern # x
                BY <2>3, <2>4, <3>3
            <4> QED BY <2>2, <2>4, <3>3, <4>1, LoadedRow
        <3> QED BY <3>1, <3>2, <3>3 DEF Holds
    <2> QED BY <2>1, <2>5
<1> QED BY <1>1, SigilsAreHeld, PTL

-----------------------------------------------------------------------------
(* Starts that fail.                                                       *)

\* The other processes are where they were.
LEMMA OthersOpen ==
    ASSUME StoreTypeOK, NEW p \in Process,
           OpenStep(p) \/ Exit(p) \/ Crash(p) \/ Go(p, "failed")
    PROVE  \A q \in Process \ {p} : opener'[q] = opener[q]
BY DEF StoreTypeOK, OpenStep, Open, BeginScript, FinishScript, Record, Backfill, Exit, Crash, Go

(* A start that fails while it opens the file.                             *)
LEMMA OpenFails ==
    ASSUME SchemaInv, NEW p \in Process, OpenStep(p), Stands(p, "failed")'
    PROVE  /\ opener[p].phase \in {"migrating", "recording"}
           /\ \/ Pending(p) /\ (Due(p) \in Torn \cap Unrepeatable \/ Contended(p))
              \/ ~Pending(p) /\ "extended" \in keyless
<1>1. StoreTypeOK /\ OpenerInv(p)
    BY DEF SchemaInv
<1>2. CASE Open(p)
    BY <1>1, <1>2 DEF Open, StoreTypeOK, Stands
<1>3. CASE FinishScript(p)
    BY <1>1, <1>3 DEF FinishScript, StoreTypeOK, Stands, Go
<1>4. CASE BeginScript(p)
    <2>1. Stands(p, "migrating") /\ Pending(p) /\ ~Runs(Due(p))
        BY <1>1, <1>4 DEF BeginScript, StoreTypeOK, Stands, Go
    <2>2. Due(p) \in Unrepeatable \cap begun
        BY <2>1 DEF Runs
    <2>3. ~InScript(p)
        BY <2>1 DEF Stands, InScript
    <2>4. ASSUME Due(p) \notin recorded, \A q \in Process \ {p} : InScript(q) => Due(q) # Due(p)
          PROVE  Due(p) \in Torn
        BY <2>2, <2>3, <2>4 DEF Torn
    <2> QED BY <2>1, <2>2, <2>4 DEF Contended, Stands
<1>5. CASE Record(p)
    <2>1. Stands(p, "recording") /\ Due(p) \in recorded
        BY <1>1, <1>5 DEF Record, StoreTypeOK, Stands, Go
    <2>2. Pending(p)
        BY <1>1, <2>1 DEF OpenerInv, InScript, Stands
    <2> QED BY <2>1, <2>2 DEF Contended, Stands
<1>6. CASE Backfill(p)
    BY <1>1, <1>6 DEF Backfill, StoreTypeOK, Stands, Go, Resolves
<1> QED BY <1>2, <1>3, <1>4, <1>5, <1>6 DEF OpenStep

\* The phases a step of the store may leave.
LEMMA OpenStepPhase ==
    ASSUME NEW p \in Process, OpenStep(p) \/ Crash(p)
    PROVE  opener[p].phase # "open"
BY DEF OpenStep, Open, BeginScript, FinishScript, Record, Backfill, Crash, Stands

LEMMA StepFails ==
    ASSUME SchemaInv, IInv, SigilInv, Next
    PROVE  OpenFailsForAReason /\ BootFailsForAReason
<1>0. StoreTypeOK
    BY DEF SchemaInv
<1> SUFFICES ASSUME NEW p \in Process, ~Stands(p, "failed"), Stands(p, "failed")'
             PROVE  /\ opener[p].phase \in {"migrating", "recording"} =>
                          \/ Pending(p) /\ (Due(p) \in Torn \cap Unrepeatable \/ Contended(p))
                          \/ ~Pending(p) /\ "extended" \in keyless
                    /\ Stands(p, "open") => contested \/ strain # {} \/ ~Quiet
    BY DEF OpenFailsForAReason, BootFailsForAReason, Stands
<1>1. ASSUME NEW q \in Process \ {p}, Migrate(q) \/ Boot(q) \/ End(q) PROVE FALSE
    <2>1. opener'[p] = opener[p]
        BY <1>0, <1>1, OthersOpen DEF Migrate, Boot, End
    <2> QED BY <2>1 DEF Stands
<1>2. ASSUME NEW c \in Caller, Serve(c) PROVE FALSE
    BY <1>2 DEF Serve, storeVars, Stands
<1>3. CASE OpenStep(p)
    BY <1>3, OpenFails, OpenStepPhase DEF Stands
<1>4. CASE Crash(p) \/ Exit(p)
    BY <1>0, <1>4 DEF Crash, Exit, StoreTypeOK, Stands
<1>5. CASE Boot(p)
    <2>1. opener[p].phase = "open"
        BY <1>5 DEF Boot
    <2>2. ~Loads({row.name : row \in aspectRows})
        BY <1>5 DEF Boot, Stands
    <2> QED BY <2>1, <2>2, QuietLoads DEF Stands
<1> QED BY <1>1, <1>2, <1>3, <1>4, <1>5 DEF Next, Migrate, End

(* No start of build_tools fails without one of the reasons: a script cut  *)
(* off, another process at the file, an old cast with a registered aspect, *)
(* or a sigil that was contested or lost its aspect in a trouble.          *)
THEOREM StartsFailForAReason == Spec => StartFailsForAReason
<1>1. SchemaInv /\ IInv /\ SigilInv /\ [Next]_vars =>
          [OpenFailsForAReason /\ BootFailsForAReason]_vars
    BY StepFails
<1>2. Spec => []SchemaInv
    <2>1. Init => SchemaInv
        BY InitSchemaInv DEF Init
    <2>2. SchemaInv /\ [Next]_vars => SchemaInv'
        BY NextSchemaInv
    <2> QED BY <2>1, <2>2, PTL DEF Spec
<1> QED BY <1>1, <1>2, SigilsAreHeld, PTL DEF Spec, StartFailsForAReason
=============================================================================
