------------------------------ MODULE GlyphLoop ------------------------------
(***************************************************************************)
(* The crystallization loop of the cast tools (mcp/tools/casting/_legacy.py*)
(* ) for one aspect pattern: evaluate the cast, accumulate the verdict     *)
(* into the pattern's seed, promote a mature seed to the next crystallized *)
(* sigil and reset it, and write the cast row last.  A plain cast looks a  *)
(* crystallized sigil up and is evaluated under its ceiling; a chained, a  *)
(* fluid or an auto cast never looks, and feeds the same seed.  Every      *)
(* repository call commits on its own, so each is one step; callers are    *)
(* threads that share one connection.                                      *)
(*                                                                         *)
(* Both tables are keyed by the JSON text of the pattern in the iteration  *)
(* order of a frozenset.  That order follows the hashes of the aspect      *)
(* names, which differ from process to process, and, where they collide,   *)
(* the order of insertion: one pattern has several spellings.              *)
(*                                                                         *)
(* Abstracted: resonance is a whole percentage and a seed keeps the sum of *)
(* what it observed, not a running mean of floats.  What casts with a      *)
(* parent or a channel write first is left out (LineageCasts, ChannelCasts)*)
(* and an auto cast is the fluid casts of its chain.                       *)
(***************************************************************************)
EXTENDS Naturals, FiniteSets, SequencesExt

CONSTANTS
    Caller,         \* concurrent tool_cast calls
    Spelling,       \* JSON texts of the one pattern
    Level,          \* raw resonances, in percent
    Severity,       \* contradiction_severity of the pattern's sigils
    BaseCeiling,    \* resonance_ceiling of the composed sigil
    FirstCount,     \* observations the first generation takes (10)
    CountStep,      \* how many more each next one takes (5)
    CountCap,       \* and the most any takes (50)
    MaxCasts        \* bound on the casts of a behaviour

ASSUME GlyphAssumption ==
    /\ IsFiniteSet(Caller)
    /\ Level \subseteq 0 .. 100
    /\ Severity \in {"NONE", "SOFT", "HARD"}
    /\ BaseCeiling \in 0 .. 100
    /\ FirstCount \in Nat \ {0} /\ CountStep \in Nat /\ CountCap \in Nat \ {0}
    /\ MaxCasts \in Nat

Lesser(a, b) == IF a <= b THEN a ELSE b

Coherent == 75
Partial == 45

-----------------------------------------------------------------------------
(* Rows, and what a generation takes (crystallize).                        *)

ReqCount(g) == Lesser(CountCap, FirstCount + CountStep * (g - 1))
ReqMean(g) == Lesser(95, 70 + 5 * (g - 1))
ReqCoherence(g) == Lesser(90, 65 + 5 * (g - 1))

SeedRow == [id : 1 .. MaxCasts,            \* seed_id: a number no other seed has
            spelling : Spelling,
            count : 0 .. MaxCasts,         \* observed_count
            sum : 0 .. 100 * MaxCasts,     \* mean_resonance * observed_count
            coherent : 0 .. MaxCasts,      \* coherence_rate * observed_count
            generation : 1 .. MaxCasts + 1]

CrystalRow == [spelling : Spelling, generation : 1 .. MaxCasts,
               ceiling : 0 .. 100]

NoSeed == <<>>
NoCrystal == <<>>

-----------------------------------------------------------------------------
(* compute_resonance and evaluate (engine/operations/cast.py): a penalty   *)
(* for the contradiction, then the ceiling.  An evaluation that raises is  *)
(* answered with an incoherent verdict of no resonance.                    *)
Penalty == CASE Severity = "HARD" -> 40
             [] Severity = "SOFT" -> 18
             [] Severity = "NONE" -> 0

Penalized(raw) == IF raw > Penalty THEN raw - Penalty ELSE 0

Resonance(raw, ceiling) == Lesser(Penalized(raw), ceiling)

Evaluations(ceiling) == {Resonance(raw, ceiling) : raw \in Level} \cup {0}

-----------------------------------------------------------------------------
(* engine/operations/seeds.py.                                             *)

Observed(row, adjusted) ==
    [row EXCEPT !.count = @ + 1,
                !.sum = @ + adjusted,
                !.coherent = @ + (IF adjusted >= Coherent THEN 1 ELSE 0)]

Mature(row) ==
    /\ row.count >= ReqCount(row.generation)
    /\ row.sum >= ReqMean(row.generation) * row.count
    /\ 100 * row.coherent >= ReqCoherence(row.generation) * row.count

\* round(mean, 2), in percent.
\* Mutant: the sum is taken for the mean.
CeilingUnrounded(row) == row.sum
CeilingOf(row) == (2 * row.sum + row.count) \div (2 * row.count)

-----------------------------------------------------------------------------
VARIABLES
    seeds,      \* table glyph_seeds, in rowid order
    crystal,    \* table crystallized_sigils: the row of the pattern's name
    spellings,  \* the spellings this process can come up with
    used,       \* history: the spellings of all processes so far
    evaluated,  \* how many casts were evaluated
    overlapped, \* history: two calls were in flight at once
    bypassed,   \* history: a cast was not looked up though a sigil existed
    pc,         \* where each caller is
    work        \* the cast a caller works on: spelling, resonance, seed

tables == <<seeds, crystal>>
vars == <<tables, spellings, used, evaluated, overlapped, bypassed, pc, work>>

NoWork == [spelling |-> <<>>, adjusted |-> 0, seed |-> NoSeed]
Work == [spelling : Spelling \cup {<<>>},
         adjusted : 0 .. 100, seed : SeedRow \cup {NoSeed}]

TypeOK ==
    /\ seeds \in Seq(SeedRow)
    /\ crystal \in CrystalRow \cup {NoCrystal}
    /\ spellings \in (SUBSET Spelling) \ {{}}
    /\ used \subseteq Spelling
    /\ evaluated \in 0 .. MaxCasts
    /\ overlapped \in BOOLEAN
    /\ bypassed \in BOOLEAN
    /\ pc \in [Caller -> {"idle", "query", "seed", "crystal", "reset", "row"}]
    /\ work \in [Caller -> Work]

Init ==
    /\ seeds = <<>>
    /\ crystal = NoCrystal
    /\ spellings \in (SUBSET Spelling) \ {{}}
    /\ used = spellings
    /\ evaluated = 0
    /\ overlapped = FALSE
    /\ bypassed = FALSE
    /\ pc = [c \in Caller |-> "idle"]
    /\ work = [c \in Caller |-> NoWork]

Goto(c, l) == pc' = [pc EXCEPT ![c] = l]

-----------------------------------------------------------------------------
(* crystallized_for_aspects, and the ceiling of what it finds.             *)
\* Mutant: a crystallized sigil is evaluated like the composed one.
NeverFound(s) == FALSE
Found(s) == crystal # NoCrystal /\ crystal.spelling = s
CeilingInForce(s) == IF Found(s) THEN crystal.ceiling ELSE BaseCeiling

Begin(c, s, adjusted) ==
    /\ pc[c] = "idle"
    /\ evaluated < MaxCasts
    /\ s \in spellings
    /\ evaluated' = evaluated + 1
    /\ overlapped' = (overlapped \/ \E d \in Caller : pc[d] # "idle")
    /\ work' = [work EXCEPT ![c] =
                  [NoWork EXCEPT !.spelling = s, !.adjusted = adjusted]]
    /\ Goto(c, "query")
    /\ UNCHANGED <<tables, spellings, used>>

(* tool_cast without a channel.                                            *)
Evaluate(c, s) ==
    /\ \E adjusted \in Evaluations(CeilingInForce(s)) : Begin(c, s, adjusted)
    /\ UNCHANGED bypassed

(* chained_cast composes the sigil and fluid_cast interpolates one, whether*)
(* the pattern has crystallized or not.                                    *)
EvaluateAnew(c, s) ==
    /\ \E adjusted \in Evaluations(BaseCeiling) : Begin(c, s, adjusted)
    /\ bypassed' = (bypassed \/ crystal # NoCrystal)

(* query_seeds and accumulate: the statistics are those of the first row   *)
(* of the pattern, the seed_id is that of the last one.                    *)
Rows(s) == {i \in DOMAIN seeds : seeds[i].spelling = s}

SeedIds == {seeds[i].id : i \in DOMAIN seeds}
           \cup {work[c].seed.id : c \in {d \in Caller : work[d].seed # NoSeed}}

FreshSeed(w) == [id |-> Min((1 .. MaxCasts) \ SeedIds), spelling |-> w.spelling, count |-> 0,
                 sum |-> 0, coherent |-> 0, generation |-> 1]

\* Mutant: accumulate starts over although the pattern has a seed.
AlwaysFresh(w) == FreshSeed(w)
SeedOf(w) ==
    LET rows == Rows(w.spelling)
    IN  IF rows = {} THEN FreshSeed(w)
        ELSE [seeds[Min(rows)] EXCEPT !.id = seeds[Max(rows)].id]

Accumulate(c) ==
    /\ pc[c] = "query"
    /\ IF work[c].adjusted < Partial /\ Rows(work[c].spelling) = {}
       THEN /\ Goto(c, "row")
            /\ UNCHANGED work
       ELSE /\ Goto(c, "seed")
            /\ work' = [work EXCEPT ![c].seed =
                          Observed(SeedOf(work[c]), work[c].adjusted)]
    /\ UNCHANGED <<tables, spellings, used, evaluated, overlapped, bypassed>>

(* write_seed is INSERT OR REPLACE: a replaced row gets a new rowid.       *)
Replaced(row) ==
    LET old == {i \in DOMAIN seeds : seeds[i].id = row.id}
    IN  Append(IF old = {} THEN seeds ELSE RemoveAt(seeds, Min(old)), row)

WriteSeed(c) ==
    /\ pc[c] = "seed"
    /\ seeds' = Replaced(work[c].seed)
    /\ Goto(c, IF Mature(work[c].seed) THEN "crystal" ELSE "row")
    /\ UNCHANGED <<crystal, spellings, used, evaluated, overlapped, bypassed, work>>

(* write_crystallized_sigil replaces the row of the same name.             *)
WriteCrystal(c) ==
    /\ pc[c] = "crystal"
    /\ crystal' = [spelling |-> work[c].seed.spelling,
                   generation |-> work[c].seed.generation,
                   ceiling |-> CeilingOf(work[c].seed)]
    /\ Goto(c, "reset")
    /\ UNCHANGED <<seeds, spellings, used, evaluated, overlapped, bypassed, work>>

\* Mutant: the next generation starts from what the last one observed.
KeptSeed(row) == [row EXCEPT !.generation = @ + 1]
ResetSeed(row) == [row EXCEPT !.count = 0, !.sum = 0, !.coherent = 0,
                              !.generation = @ + 1]

Reset(c) ==
    /\ pc[c] = "reset"
    /\ seeds' = Replaced(ResetSeed(work[c].seed))
    /\ Goto(c, "row")
    /\ UNCHANGED <<crystal, spellings, used, evaluated, overlapped, bypassed, work>>

(* The cast row goes in last; the loop never reads it, so it is not kept.  *)
WriteCast(c) ==
    /\ pc[c] = "row"
    /\ work' = [work EXCEPT ![c] = NoWork]
    /\ Goto(c, "idle")
    /\ UNCHANGED <<tables, spellings, used, evaluated, overlapped, bypassed>>

(* A repository call raises: the tool gives up, what it wrote stays.       *)
Fail(c) ==
    /\ pc[c] # "idle"
    /\ work' = [work EXCEPT ![c] = NoWork]
    /\ Goto(c, "idle")
    /\ UNCHANGED <<tables, spellings, used, evaluated, overlapped, bypassed>>

(* The process dies; the next one hashes the aspect names anew.            *)
Restart ==
    /\ pc' = [c \in Caller |-> "idle"]
    /\ work' = [c \in Caller |-> NoWork]
    /\ spellings' \in (SUBSET Spelling) \ {{}}
    /\ used' = used \cup spellings'
    /\ UNCHANGED <<tables, evaluated, overlapped, bypassed>>

-----------------------------------------------------------------------------
Step(c) ==
    \/ \E s \in Spelling : Evaluate(c, s) \/ EvaluateAnew(c, s)
    \/ Accumulate(c)
    \/ WriteSeed(c)
    \/ WriteCrystal(c)
    \/ Reset(c)
    \/ WriteCast(c)
    \/ Fail(c)

Next == (\E c \in Caller : Step(c)) \/ Restart

Spec == Init /\ [][Next]_vars
-----------------------------------------------------------------------------
(* Properties.                                                             *)

\* Calls came one at a time, and every process spelt the pattern one way.
Calm == ~overlapped /\ \A s, t \in used : s = t

\* How many observations the generations up to g take together.
Needed(g) ==
    Cardinality({p \in (1 .. g) \X (1 .. CountCap) : p[2] <= ReqCount(p[1])})

(* A crystallized sigil of generation g took the observations of all g     *)
(* generations, each of a cast of its own: no race, stale write of a seed, *)
(* crash before the reset or second spelling crystallizes a pattern sooner.*)
CrystalIsEarned ==
    crystal # NoCrystal => evaluated >= Needed(crystal.generation)

(* A sigil crystallized below the coherent threshold closes the loop: in   *)
(* calm, and while every cast of its pattern is looked up, none is         *)
(* coherent, so the seed never earns the coherence rate that a next        *)
(* generation takes.  A chained or fluid cast opens it again.              *)
LowStaysLow ==
    Calm' /\ ~bypassed' /\ crystal # NoCrystal /\ crystal.ceiling < Coherent =>
        /\ crystal'.generation = crystal.generation
        /\ \A c \in Caller : pc[c] = "idle" /\ pc'[c] = "query"
                            => work'[c].adjusted < Coherent

LowCeilingIsFinal == [][LowStaysLow]_vars

(* In calm a pattern has one seed, and its generation is that of the       *)
(* crystallized sigil (the call that made it has not reset the seed yet,   *)
(* or died before it could) or the next one.                               *)
SeedFollowsCrystal ==
    Calm =>
        /\ Len(seeds) <= 1
        /\ \A i \in DOMAIN seeds :
              IF crystal = NoCrystal
              THEN seeds[i].generation = 1
              ELSE seeds[i].generation \in
                       {crystal.generation, crystal.generation + 1}

(* contracts/_legacy.py: "Return most recent crystallized Sigil for        *)
(* aspects, or None" -- the lookup of crystallized_for_aspects finds the   *)
(* pattern's crystallized sigil when there is one.                         *)
CrystalIsFound == crystal # NoCrystal => \A s \in spellings : Found(s)
=============================================================================
