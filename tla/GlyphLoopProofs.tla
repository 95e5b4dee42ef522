--------------------------- MODULE GlyphLoopProofs ---------------------------
(***************************************************************************)
(* Theorems about GlyphLoop, for any callers, spellings, resonances and    *)
(* casts, and any number of observations a generation takes.               *)
(*                                                                         *)
(* The accounts: each evaluated cast is spent once, when it is accumulated *)
(* or lost, and no row, stale or not, has taken more casts than were spent.*)
(* In calm there is one seed and one cast at a time, so what a call read   *)
(* is still so when it writes.                                             *)
(***************************************************************************)
EXTENDS GlyphLoop, FiniteSetTheorems, SequenceTheorems, WellFoundedInduction, TLAPS

-----------------------------------------------------------------------------
(* Accounts.                                                               *)

\* The casts that are evaluated and not accumulated yet.
Querying == {c \in Caller : pc[c] = "query"}

\* How many casts are accounted for.
Spent == evaluated - Cardinality(Querying)

\* How many a row has taken, with the generations before its own.
Took(row) == Needed(row.generation - 1) + row.count

\* A row as the loop makes it, out of n casts.
Honest(row, n) ==
    /\ Took(row) <= n
    /\ row.sum <= 100 * row.count
    /\ row.coherent <= row.count

SeedType == [id : 1 .. MaxCasts, spelling : Spelling, count : Nat, sum : Nat,
             coherent : Nat, generation : Nat \ {0}]

CrystalType == [spelling : Spelling, generation : Nat \ {0}, ceiling : 0 .. 100]

WorkType == [spelling : Spelling \cup {<<>>}, adjusted : 0 .. 100,
             seed : SeedType \cup {NoSeed}]

Writing(c) == pc[c] \in {"seed", "crystal", "reset"}

Typed ==
    /\ seeds \in Seq(SeedType)
    /\ crystal \in CrystalType \cup {NoCrystal}
    /\ spellings \in (SUBSET Spelling) \ {{}}
    /\ used \subseteq Spelling
    /\ evaluated \in 0 .. MaxCasts
    /\ overlapped \in BOOLEAN
    /\ bypassed \in BOOLEAN
    /\ pc \in [Caller -> {"idle", "query", "seed", "crystal", "reset", "row"}]
    /\ work \in [Caller -> WorkType]

SeedsAreHonest == \A i \in DOMAIN seeds : Honest(seeds[i], Spent)

WorkIsHonest == \A c \in Caller : work[c].seed # NoSeed => Honest(work[c].seed, Spent)

\* Whoever goes to write a seed has one, and a mature one for the crystal.
WritersHaveSeeds ==
    \A c \in Caller :
        /\ pc[c] = "query" => work[c].spelling \in Spelling
        /\ Writing(c) => work[c].seed # NoSeed
        /\ pc[c] \in {"crystal", "reset"} => Mature(work[c].seed)

CrystalIsHonest == crystal # NoCrystal => Needed(crystal.generation) <= Spent

\* Casts are accounted for, and each seed_id was made for one of them.
SpentIsEnough == Spent \in Nat /\ Cardinality(SeedIds) <= Spent

Accounts ==
    /\ Typed
    /\ SeedsAreHonest
    /\ WorkIsHonest
    /\ WritersHaveSeeds
    /\ CrystalIsHonest
    /\ SpentIsEnough

-----------------------------------------------------------------------------
(* Calm.                                                                   *)

OneAtATime ==
    ~overlapped => \A c, d \in Caller : pc[c] # "idle" /\ pc[d] # "idle" => c = d

\* Whatever is spelt was spelt that way by some process.
Spelt ==
    /\ spellings \subseteq used
    /\ \A i \in DOMAIN seeds : seeds[i].spelling \in used
    /\ crystal # NoCrystal => crystal.spelling \in used
    /\ \A c \in Caller : /\ pc[c] = "query" => work[c].spelling \in used
                         /\ Writing(c) => work[c].seed.spelling \in used

\* A row of a generation that may come after the crystallized sigil.
Follows(row, sigil) ==
    IF sigil = NoCrystal THEN row.generation = 1
    ELSE row.generation \in {sigil.generation, sigil.generation + 1}

\* The ceiling in force is below the coherent threshold.
Low == ~bypassed /\ crystal # NoCrystal /\ crystal.ceiling < Coherent

\* The seed of the generation after the sigil's observed nothing coherent.
Dull(row, sigil) == row.generation = sigil.generation + 1 => row.coherent = 0

OneSeed ==
    /\ Len(seeds) <= 1
    /\ crystal # NoCrystal => seeds # <<>>
    /\ \A i \in DOMAIN seeds : /\ Follows(seeds[i], crystal)
                               /\ Low => Dull(seeds[i], crystal)

\* What the call in flight is about to write fits what is stored.
CallFits(c) ==
    /\ pc[c] = "query" => (Low => work[c].adjusted < Coherent)
    /\ pc[c] = "seed" =>
          /\ Follows(work[c].seed, crystal)
          /\ Low => Dull(work[c].seed, crystal)
          /\ \A i \in DOMAIN seeds : seeds[i].id = work[c].seed.id
    /\ pc[c] \in {"crystal", "reset"} => seeds = <<work[c].seed>>
    /\ pc[c] = "reset" => /\ crystal # NoCrystal
                          /\ work[c].seed.generation = crystal.generation

CalmInv ==
    /\ OneAtATime
    /\ Spelt
    /\ Calm => OneSeed /\ \A c \in Caller : CallFits(c)

-----------------------------------------------------------------------------
(* Numbers.                                                                *)

LEMMA LeastNumber ==
    ASSUME NEW T \in SUBSET Nat, T # {}
    PROVE  \E x \in T : \A y \in T : x <= y
<1> DEFINE R == OpToRel(<, Nat)
<1>1. IsWellFoundedOn(R, Nat)
    BY NatLessThanWellFounded
<1>2. PICK x \in T : \A y \in T : ~ (<<y, x>> \in R)
    <2> HIDE DEF R
    <2> QED BY <1>1, WFMin
<1>3. \A y \in T : ~ (y < x)
    BY <1>2 DEF OpToRel
<1> QED BY <1>3

LEMMA MinIsLeast ==
    ASSUME NEW T \in SUBSET Nat, T # {}
    PROVE  Min(T) \in T
<1>1. \E x \in T : \A y \in T : x <= y
    BY LeastNumber
<1> QED  BY <1>1 DEF Min

(* Of the rows of a pattern there is a last one.                           *)
LEMMA MaxIsGreatest ==
    ASSUME NEW n \in Nat, NEW T \in SUBSET (1 .. n), T # {}
    PROVE  Max(T) \in T
<1> DEFINE D == {n - x : x \in T}
<1>1. D \in SUBSET Nat /\ D # {}
    <2>1. \A x \in T : n - x \in Nat
        OBVIOUS
    <2>2. PICK x \in T : TRUE
        OBVIOUS
    <2>3. n - x \in D
        OBVIOUS
    <2> QED  BY <2>1, <2>3
<1>2. PICK y \in D : \A z \in D : y <= z
    <2> HIDE DEF D
    <2> QED  BY <1>1, LeastNumber
<1>3. PICK x \in T : y = n - x
    BY <1>2
<1>4. ASSUME NEW z \in T PROVE x >= z
    <2>1. n - z \in D
        OBVIOUS
    <2>2. n - x <= n - z
        BY <1>2, <1>3, <2>1
    <2> QED  BY <2>2
<1>5. \E m \in T : \A z \in T : m >= z
    BY <1>4
<1> QED  BY <1>5 DEF Max

LEMMA ReqCountIsPositive ==
    ASSUME NEW g \in Nat \ {0}
    PROVE  ReqCount(g) \in 1 .. CountCap /\ ReqCount(g) \in Nat
<1>1. PICK k \in Nat : k = g - 1
    OBVIOUS
<1>2. CountStep * k \in Nat
    BY GlyphAssumption
<1> DEFINE need == FirstCount + CountStep * k
<1>3. need \in Nat \ {0}
    BY <1>2, GlyphAssumption
<1> HIDE DEF need
<1>4. Lesser(CountCap, need) \in 1 .. CountCap
    BY <1>3, GlyphAssumption DEF Lesser
<1>5. ReqCount(g) = Lesser(CountCap, need)
    BY <1>1 DEF ReqCount, need
<1> QED  BY <1>4, <1>5, GlyphAssumption

\* The observations of the generations up to g, one pair for each.
Shares(g) == {p \in (1 .. g) \X (1 .. CountCap) : p[2] <= ReqCount(p[1])}

LEMMA SharesAreFinite ==
    ASSUME NEW g \in Nat
    PROVE  IsFiniteSet(Shares(g)) /\ Needed(g) \in Nat
<1>1. IsFiniteSet(1 .. g) /\ IsFiniteSet(1 .. CountCap)
    BY FS_Interval, GlyphAssumption
<1>2. IsFiniteSet((1 .. g) \X (1 .. CountCap))
    BY <1>1, FS_Product
<1>3. IsFiniteSet(Shares(g))
    BY <1>2, FS_Subset DEF Shares
<1> QED  BY <1>3, FS_CardinalityType DEF Needed, Shares

LEMMA NeededZero == Needed(0) = 0
<1>1. Shares(0) = {}
    BY DEF Shares
<1> QED  BY <1>1, FS_EmptySet DEF Needed, Shares

(* A generation takes its own observations on top of those before it.      *)
LEMMA NeededStep ==
    ASSUME NEW g \in Nat \ {0}
    PROVE  /\ Needed(g) = Needed(g - 1) + ReqCount(g)
           /\ Needed(g) \in Nat /\ Needed(g - 1) \in Nat
<1> PICK k \in Nat : k = g - 1
    OBVIOUS
<1> PICK r \in 1 .. CountCap : r = ReqCount(g)
    BY ReqCountIsPositive
<1> DEFINE Own == {g} \X (1 .. r)
<1>1. g = k + 1 /\ r \in Nat /\ CountCap \in Nat
    BY GlyphAssumption
<1>2. Shares(g) = Shares(k) \cup Own
    <2>1. ASSUME NEW p \in Shares(g) PROVE p \in Shares(k) \cup Own
        <3>1. p[1] \in 1 .. g /\ p[2] \in 1 .. CountCap /\ p = <<p[1], p[2]>>
              /\ p[2] <= ReqCount(p[1])
            BY DEF Shares
        <3>2. CASE p[1] = g
            BY <1>1, <3>1, <3>2
        <3>3. CASE p[1] # g
            <4>1. p[1] \in 1 .. k
                BY <1>1, <3>1, <3>3
            <4> QED  BY <3>1, <4>1 DEF Shares
        <3> QED  BY <3>2, <3>3
    <2>2. ASSUME NEW p \in Shares(k) PROVE p \in Shares(g)
        BY <1>1 DEF Shares
    <2>3. ASSUME NEW p \in Own PROVE p \in Shares(g)
        <3>1. p = <<g, p[2]>> /\ p[2] \in 1 .. r
            OBVIOUS
        <3>2. p[2] \in 1 .. CountCap /\ g \in 1 .. g
            BY <1>1, <3>1
        <3> QED  BY <3>1, <3>2 DEF Shares
    <2> QED  BY <2>1, <2>2, <2>3
<1>3. Shares(k) \cap Own = {}
    BY <1>1 DEF Shares
<1>4. IsFiniteSet(Own) /\ Cardinality(Own) = r
    <2>1. IsFiniteSet({g}) /\ Cardinality({g}) = 1
        BY FS_Singleton
    <2>2. 1 \in Int /\ r \in Int
        OBVIOUS
    <2>3. IsFiniteSet(1 .. r) /\ Cardinality(1 .. r) = IF 1 > r THEN 0 ELSE r - 1 + 1
        BY <2>2, FS_Interval
    <2>4. (IF 1 > r THEN 0 ELSE r - 1 + 1) = r
        BY <1>1
    <2>5. IsFiniteSet(Own) /\ Cardinality(Own) = Cardinality({g}) * Cardinality(1 .. r)
        BY <2>1, <2>3, FS_Product, Zenon
    <2>6. 1 * r = r
        BY <1>1
    <2> QED  BY <2>1, <2>3, <2>4, <2>5, <2>6
<1>5. IsFiniteSet(Shares(k)) /\ Needed(k) \in Nat /\ Needed(g) \in Nat
    BY SharesAreFinite
<1> HIDE DEF Own
<1>6. Cardinality(Shares(k) \cup Own)
        = Cardinality(Shares(k)) + Cardinality(Own) - Cardinality(Shares(k) \cap Own)
    BY <1>4, <1>5, FS_Union
<1>7. Needed(g) = Cardinality(Shares(g)) /\ Needed(k) = Cardinality(Shares(k))
    BY DEF Needed, Shares
<1>8. Cardinality(Shares(k) \cap Own) = 0
    BY <1>3, FS_EmptySet
<1>9. Needed(g) = Needed(k) + r - 0
    BY <1>2, <1>4, <1>6, <1>7, <1>8
<1>10. Needed(g) = Needed(k) + r
    BY <1>1, <1>5, <1>9
<1>11. k = g - 1 /\ r = ReqCount(g)
    OBVIOUS
<1> QED  BY <1>5, <1>10, <1>11

(* Every generation takes something, so no generation is out of reach.     *)
LEMMA NeededIsEnough ==
    ASSUME NEW g \in Nat
    PROVE  g <= Needed(g)
<1> DEFINE First == (1 .. g) \X {1}
<1>1. First \subseteq Shares(g)
    <2>1. ASSUME NEW x \in 1 .. g PROVE <<x, 1>> \in Shares(g)
        <3>1. ReqCount(x) \in 1 .. CountCap /\ x \in Nat \ {0}
            BY ReqCountIsPositive
        <3>2. 1 \in 1 .. CountCap /\ 1 <= ReqCount(x)
            BY <3>1, GlyphAssumption
        <3> QED  BY <3>2 DEF Shares
    <2> QED  BY <2>1
<1>2. IsFiniteSet(First) /\ Cardinality(First) = g
    <2>1. IsFiniteSet({1}) /\ Cardinality({1}) = 1
        BY FS_Singleton
    <2>2. 1 \in Int /\ g \in Int
        OBVIOUS
    <2>3. IsFiniteSet(1 .. g) /\ Cardinality(1 .. g) = IF 1 > g THEN 0 ELSE g - 1 + 1
        BY <2>2, FS_Interval
    <2>4. (IF 1 > g THEN 0 ELSE g - 1 + 1) = g
        OBVIOUS
    <2>5. IsFiniteSet(First) /\ Cardinality(First) = Cardinality(1 .. g) * Cardinality({1})
        BY <2>1, <2>3, FS_Product, Zenon
    <2>6. g * 1 = g
        OBVIOUS
    <2> QED  BY <2>1, <2>3, <2>4, <2>5, <2>6
<1>3. IsFiniteSet(Shares(g))
    BY SharesAreFinite
<1> HIDE DEF First
<1>4. Cardinality(First) <= Cardinality(Shares(g))
    BY <1>1, <1>3, FS_Subset
<1> QED  BY <1>2, <1>4 DEF Needed, Shares

(* The rounded mean of numbers up to 100 is one.                           *)
LEMMA CeilingIsPercent ==
    ASSUME NEW n \in Nat \ {0}, NEW sum \in Nat, sum <= 100 * n
    PROVE  (2 * sum + n) \div (2 * n) \in 0 .. 100
<1> DEFINE q == (2 * sum + n) \div (2 * n)
<1>1. 2 * n \in Nat \ {0} /\ 2 * sum + n \in Nat /\ 2 * sum + n <= 201 * n
    OBVIOUS
<1>2. PICK a \in Nat, b \in Nat \ {0} : a = 2 * sum + n /\ b = 2 * n /\ a < 101 * b
    BY <1>1
<1>3. a \div b \in Nat /\ b * (a \div b) <= a
    OBVIOUS
<1>4. ASSUME a \div b >= 101 PROVE FALSE
    <2>1. PICK d \in Nat : a \div b = 101 + d
        <3>1. (a \div b) - 101 \in Nat
            BY <1>3, <1>4
        <3> QED  BY <1>3, <3>1
    <2>2. b * (a \div b) = 101 * b + b * d
        BY <2>1
    <2>3. b * d \in Nat
        OBVIOUS
    <2> QED  BY <1>2, <1>3, <2>2, <2>3
<1> QED  BY <1>2, <1>3, <1>4

-----------------------------------------------------------------------------
(* Rows.                                                                   *)

LEMMA TookIsNumber ==
    ASSUME NEW row \in SeedType
    PROVE  /\ Took(row) \in Nat
           /\ row.generation - 1 <= Took(row)
           /\ row.count <= Took(row)
<1>1. row.generation \in Nat \ {0} /\ row.count \in Nat
    BY DEF SeedType
<1>2. PICK g \in Nat, n \in Nat : g = row.generation - 1 /\ n = row.count
    BY <1>1
<1>3. Needed(g) \in Nat /\ g <= Needed(g)
    BY SharesAreFinite, NeededIsEnough
<1>4. Took(row) = Needed(g) + n
    BY <1>2 DEF Took
<1> QED  BY <1>2, <1>3, <1>4

LEMMA ObservedTakesOne ==
    ASSUME NEW row \in SeedType, NEW adjusted \in 0 .. 100,
           NEW n \in Nat, Honest(row, n)
    PROVE  /\ Observed(row, adjusted) \in SeedType
           /\ Honest(Observed(row, adjusted), n + 1)
           /\ Observed(row, adjusted).id = row.id
           /\ Observed(row, adjusted).spelling = row.spelling
           /\ Observed(row, adjusted).generation = row.generation
           /\ adjusted < Coherent => Observed(row, adjusted).coherent = row.coherent
<1> DEFINE new == Observed(row, adjusted)
<1>1. PICK k \in 0 .. 1 : /\ k = IF adjusted >= Coherent THEN 1 ELSE 0
                          /\ adjusted < Coherent => k = 0
    BY DEF Coherent
<1>2. new = [row EXCEPT !.count = @ + 1, !.sum = @ + adjusted, !.coherent = @ + k]
    BY <1>1 DEF Observed
<1>3. row.count \in Nat /\ row.sum \in Nat /\ row.coherent \in Nat
    BY DEF SeedType
<1>4. /\ new \in SeedType /\ new.id = row.id /\ new.spelling = row.spelling
      /\ new.generation = row.generation /\ new.count = row.count + 1
      /\ new.sum = row.sum + adjusted /\ new.coherent = row.coherent + k
    <2>1. /\ DOMAIN row = {"id", "spelling", "count", "sum", "coherent", "generation"}
          /\ k \in Nat /\ adjusted \in Nat
        BY DEF SeedType
    <2>2. new.id = row.id /\ new.spelling = row.spelling /\ new.generation = row.generation
        BY <1>2
    <2>3. new.count = row.count + 1
        BY <1>2, <2>1
    <2>4. new.sum = row.sum + adjusted
        BY <1>2, <2>1
    <2>5. new.coherent = row.coherent + k
        BY <1>2, <2>1
    <2>6. row.count + 1 \in Nat /\ row.sum + adjusted \in Nat /\ row.coherent + k \in Nat
        BY <1>3, <2>1
    <2>7. new \in SeedType
        BY <1>2, <2>6 DEF SeedType
    <2> QED  BY <2>2, <2>3, <2>4, <2>5, <2>7
<1> HIDE DEF new
<1>5. Took(new) = Took(row) + 1
    <2>1. PICK need \in Nat : need = Needed(row.generation - 1)
        BY SharesAreFinite DEF SeedType
    <2>2. Took(row) = need + row.count /\ Took(new) = need + (row.count + 1)
        BY <1>4, <2>1 DEF Took
    <2> QED  BY <1>3, <2>1, <2>2
<1>6. Took(row) \in Nat /\ Took(row) <= n /\ row.sum <= 100 * row.count
      /\ row.coherent <= row.count
    BY TookIsNumber DEF Honest
<1>7. Took(new) <= n + 1
    BY <1>5, <1>6
<1>8. new.sum <= 100 * new.count /\ new.coherent <= new.count
    BY <1>3, <1>4, <1>6
<1>9. Honest(new, n + 1)
    BY <1>7, <1>8 DEF Honest
<1>10. adjusted < Coherent => new.coherent = row.coherent
    BY <1>1, <1>3, <1>4
<1> QED  BY <1>4, <1>9, <1>10 DEF new

(* A mature row has taken what its generation needs.                       *)
LEMMA MatureTookAll ==
    ASSUME NEW row \in SeedType, Mature(row)
    PROVE  /\ Needed(row.generation) <= Took(row)
           /\ Needed(row.generation) \in Nat
           /\ row.count > 0
           /\ row.coherent > 0
<1>1. row.generation \in Nat \ {0} /\ row.count \in Nat /\ row.coherent \in Nat
    BY DEF SeedType
<1>2. PICK g \in Nat \ {0} : g = row.generation
    BY <1>1
<1>3. PICK need \in 1 .. CountCap : need = ReqCount(g)
    BY ReqCountIsPositive
<1>4. PICK before \in Nat : before = Needed(g - 1)
    BY NeededStep
<1>5. Needed(g) = before + need
    BY <1>3, <1>4, NeededStep
<1>6. Took(row) = before + row.count /\ row.count >= need
    BY <1>2, <1>3, <1>4 DEF Took, Mature
<1>7. need \in Nat /\ need > 0
    BY GlyphAssumption
<1>8. row.coherent > 0
    <2>1. PICK rate \in Nat : rate = ReqCoherence(g) /\ rate >= 65
        <3>1. PICK k \in Nat : k = g - 1
            OBVIOUS
        <3>2. Lesser(90, 65 + 5 * k) \in Nat /\ Lesser(90, 65 + 5 * k) >= 65
            BY DEF Lesser
        <3> QED  BY <3>1, <3>2 DEF ReqCoherence
    <2>2. 100 * row.coherent >= rate * row.count
        BY <1>2, <2>1 DEF Mature
    <2>3. PICK k \in Nat : row.count = k + 1
        <3>1. row.count - 1 \in Nat
            BY <1>1, <1>6, <1>7
        <3> QED  BY <1>1, <3>1
    <2>4. rate * row.count = rate * k + rate /\ rate * k \in Nat
        BY <2>3
    <2>5. PICK m \in Nat : m = rate * k
        BY <2>4
    <2> QED  BY <1>1, <2>1, <2>2, <2>4, <2>5
<1> QED  BY <1>1, <1>2, <1>5, <1>6, <1>7, <1>8

LEMMA ResetKeepsAccount ==
    ASSUME NEW row \in SeedType, NEW n \in Nat, Honest(row, n), Mature(row)
    PROVE  /\ ResetSeed(row) \in SeedType
           /\ Honest(ResetSeed(row), n)
           /\ ResetSeed(row).id = row.id
           /\ ResetSeed(row).spelling = row.spelling
           /\ ResetSeed(row).generation = row.generation + 1
           /\ ResetSeed(row).coherent = 0
<1> DEFINE new == ResetSeed(row)
<1>1. /\ new \in SeedType /\ new.id = row.id /\ new.spelling = row.spelling
      /\ new.generation = row.generation + 1
      /\ new.count = 0 /\ new.sum = 0 /\ new.coherent = 0
    <2>1. /\ DOMAIN row = {"id", "spelling", "count", "sum", "coherent", "generation"}
          /\ row.generation \in Nat
        BY DEF SeedType
    <2>2. new.id = row.id /\ new.spelling = row.spelling
        BY DEF ResetSeed
    <2>3. new.generation = row.generation + 1
        BY <2>1 DEF ResetSeed
    <2>4. new.count = 0 /\ new.sum = 0 /\ new.coherent = 0
        BY <2>1 DEF ResetSeed
    <2>5. row.generation + 1 \in Nat \ {0}
        BY <2>1
    <2>6. new \in SeedType
        BY <2>5 DEF SeedType, ResetSeed
    <2> QED  BY <2>2, <2>3, <2>4, <2>6
<1> HIDE DEF new
<1>2. PICK g \in Nat \ {0} : g = row.generation
    BY DEF SeedType
<1>3. Needed(g) \in Nat /\ Needed(g) <= Took(row) /\ Took(row) \in Nat /\ Took(row) <= n
    BY <1>2, MatureTookAll, TookIsNumber DEF Honest
<1>4. new.generation - 1 = g
    BY <1>1, <1>2
<1>5. Took(new) = Needed(g) + 0
    BY <1>1, <1>4 DEF Took
<1>6. Took(new) <= n
    BY <1>3, <1>5
<1>7. Honest(new, n)
    BY <1>1, <1>6 DEF Honest
<1> QED  BY <1>1, <1>7 DEF new

LEMMA Removing ==
    ASSUME NEW T, NEW s \in Seq(T), NEW k \in 1 .. Len(s)
    PROVE  /\ RemoveAt(s, k) \in Seq(T)
           /\ \A i \in DOMAIN RemoveAt(s, k) : \E j \in DOMAIN s : RemoveAt(s, k)[i] = s[j]
           /\ Len(s) = 1 => RemoveAt(s, k) = <<>>
<1> PICK n \in Nat : n = Len(s)
    OBVIOUS
<1> DEFINE left == SubSeq(s, 1, k - 1)
           right == SubSeq(s, k + 1, n)
<1>1. /\ left \in Seq(T) /\ Len(left) = k - 1
      /\ \A i \in 1 .. k - 1 : left[i] = s[i]
    OBVIOUS
<1>2. /\ right \in Seq(T) /\ Len(right) = n - k
      /\ \A i \in 1 .. n - k : right[i] = s[k + i]
    OBVIOUS
<1>3. RemoveAt(s, k) = left \o right
    BY DEF RemoveAt
<1> HIDE DEF left, right
<1>4. left \o right \in Seq(T) /\ DOMAIN (left \o right) = 1 .. n - 1
    BY <1>1, <1>2
<1>5. ASSUME NEW i \in 1 .. n - 1
      PROVE  \E j \in DOMAIN s : (left \o right)[i] = s[j]
    <2>1. CASE i <= k - 1
        <3>1. (left \o right)[i] = left[i]
            BY <1>1, <1>2, <2>1
        <3>2. left[i] = s[i] /\ i \in DOMAIN s
            BY <1>1, <2>1
        <3> QED  BY <3>1, <3>2
    <2>2. CASE i > k - 1
        <3>1. PICK m \in 1 .. n - k : m = i - (k - 1)
            BY <2>2
        <3>2. (left \o right)[i] = right[m]
            BY <1>1, <1>2, <2>2, <3>1
        <3>3. right[m] = s[k + m] /\ k + m \in DOMAIN s
            BY <1>2, <3>1
        <3> QED  BY <3>2, <3>3
    <2>3. i <= k - 1 \/ i > k - 1
        OBVIOUS
    <2> QED  BY <2>1, <2>2, <2>3, Zenon
<1>6. ASSUME n = 1 PROVE left \o right = <<>>
    <2>1. k = 1 /\ Len(left \o right) = 0
        BY <1>1, <1>2, <1>6
    <2> QED  BY <1>4, <2>1, EmptySeq
<1> QED  BY <1>3, <1>4, <1>5, <1>6

(* A written row goes to the end of the table, in place of the row it had. *)
LEMMA Replacing ==
    ASSUME seeds \in Seq(SeedType), NEW row \in SeedType
    PROVE  /\ Replaced(row) \in Seq(SeedType)
           /\ Replaced(row) # <<>>
           /\ \A i \in DOMAIN Replaced(row) :
                 \/ Replaced(row)[i] = row
                 \/ \E j \in DOMAIN seeds : Replaced(row)[i] = seeds[j]
           /\ /\ Len(seeds) <= 1
              /\ \A i \in DOMAIN seeds : seeds[i].id = row.id
              => Replaced(row) = <<row>>
<1> DEFINE old == {i \in DOMAIN seeds : seeds[i].id = row.id}
           rest == IF old = {} THEN seeds ELSE RemoveAt(seeds, Min(old))
<1>1. Replaced(row) = Append(rest, row)
    BY DEF Replaced
<1>2. /\ rest \in Seq(SeedType)
      /\ \A i \in DOMAIN rest : \E j \in DOMAIN seeds : rest[i] = seeds[j]
    <2>1. CASE old = {}
        BY <2>1
    <2>2. CASE old # {}
        <3>1. old \in SUBSET Nat /\ old \subseteq 1 .. Len(seeds)
            OBVIOUS
        <3>2. Min(old) \in 1 .. Len(seeds)
            <4> HIDE DEF old
            <4> QED  BY <2>2, <3>1, MinIsLeast
        <3>3. PICK k \in 1 .. Len(seeds) : k = Min(old)
            BY <3>2
        <3>4. rest = RemoveAt(seeds, k)
            BY <2>2, <3>3
        <3> HIDE DEF rest, old
        <3>5. /\ RemoveAt(seeds, k) \in Seq(SeedType)
              /\ \A i \in DOMAIN RemoveAt(seeds, k) :
                    \E j \in DOMAIN seeds : RemoveAt(seeds, k)[i] = seeds[j]
            BY Removing
        <3> QED  BY <3>4, <3>5
    <2> QED  BY <2>1, <2>2
<1>3. ASSUME Len(seeds) <= 1, \A i \in DOMAIN seeds : seeds[i].id = row.id
      PROVE  rest = <<>>
    <2>1. CASE Len(seeds) = 0
        <3>1. seeds = <<>>
            BY <2>1, EmptySeq
        <3>2. old = {}
            BY <3>1
        <3> QED  BY <3>1, <3>2
    <2>2. CASE Len(seeds) = 1
        <3>1. old = {1}
            BY <1>3, <2>2
        <3>2. Min(old) \in old
            <4> HIDE DEF old
            <4>1. old \in SUBSET Nat /\ old # {}
                BY <3>1
            <4> QED  BY <4>1, MinIsLeast
        <3>3. Min(old) = 1 /\ 1 \in 1 .. Len(seeds)
            BY <2>2, <3>1, <3>2
        <3>4. rest = RemoveAt(seeds, 1)
            BY <3>1, <3>3
        <3> HIDE DEF rest, old
        <3>5. RemoveAt(seeds, 1) = <<>>
            BY <2>2, <3>3, Removing
        <3> QED  BY <3>4, <3>5
    <2>3. Len(seeds) = 0 \/ Len(seeds) = 1
        <3>1. PICK m \in Nat : m = Len(seeds)
            OBVIOUS
        <3>2. Len(seeds) <= 1
            BY <1>3
        <3>3. m <= 1
            BY <3>1, <3>2
        <3>4. m = 0 \/ m = 1
            BY <3>3
        <3> QED  BY <3>1, <3>4, Zenon
    <2> QED  BY <2>1, <2>2, <2>3, Zenon
<1> HIDE DEF rest
<1>4. /\ Append(rest, row) \in Seq(SeedType)
      /\ DOMAIN Append(rest, row) = 1 .. Len(rest) + 1
      /\ Append(rest, row)[Len(rest) + 1] = row
      /\ \A i \in 1 .. Len(rest) : Append(rest, row)[i] = rest[i]
      /\ Append(rest, row) # <<>>
    BY <1>2
<1>5. ASSUME NEW i \in 1 .. Len(rest) + 1
      PROVE  \/ Append(rest, row)[i] = row
             \/ \E j \in DOMAIN seeds : Append(rest, row)[i] = seeds[j]
    <2>1. CASE i = Len(rest) + 1
        BY <1>4, <2>1
    <2>2. CASE i # Len(rest) + 1
        <3>1. i \in 1 .. Len(rest) /\ i \in DOMAIN rest
            BY <1>2, <2>2
        <3> QED  BY <1>2, <1>4, <3>1
    <2> QED  BY <2>1, <2>2
<1>6. rest = <<>> => Append(rest, row) = <<row>>
    OBVIOUS
<1> QED  BY <1>1, <1>3, <1>4, <1>5, <1>6

-----------------------------------------------------------------------------
(* What is spent.                                                          *)

LEMMA Counting ==
    ASSUME Typed
    PROVE  /\ IsFiniteSet(Querying) /\ Cardinality(Querying) \in Nat
           /\ Spent \in Int /\ Spent <= evaluated
           /\ \A c \in Querying : Spent <= evaluated - 1
<1>1. IsFiniteSet(Querying) /\ Cardinality(Querying) \in Nat
    <2>1. Querying \subseteq Caller
        BY DEF Querying
    <2> QED  BY <2>1, GlyphAssumption, FS_Subset, FS_CardinalityType
<1>2. evaluated \in Nat
    BY GlyphAssumption DEF Typed
<1>3. Spent \in Int /\ Spent <= evaluated
    BY <1>1, <1>2 DEF Spent
<1>4. ASSUME NEW c \in Querying PROVE Spent <= evaluated - 1
    <2>1. Querying # {}
        OBVIOUS
    <2>2. Cardinality(Querying) # 0
        BY <1>1, <2>1, FS_EmptySet
    <2> QED  BY <1>1, <1>2, <2>2 DEF Spent
<1> QED  BY <1>1, <1>3, <1>4

(* What is evaluated stays so; a cast that leaves the query is spent.      *)
LEMMA SpentGrows ==
    ASSUME Typed, Typed', Spent \in Nat,
           evaluated' = evaluated, Querying' \subseteq Querying
    PROVE  /\ Spent' \in Nat /\ Spent <= Spent'
           /\ \A c \in Querying : c \notin Querying' => Spent + 1 <= Spent'
<1>1. IsFiniteSet(Querying) /\ Cardinality(Querying) \in Nat
    BY Counting
<1>2. IsFiniteSet(Querying')
    BY <1>1, FS_Subset
<1>3. Cardinality(Querying') \in Nat /\ Cardinality(Querying') <= Cardinality(Querying)
    BY <1>1, <1>2, FS_Subset, FS_CardinalityType
<1>4. evaluated \in Nat
    BY GlyphAssumption DEF Typed
<1>5. Spent = evaluated - Cardinality(Querying) /\ Spent' = evaluated - Cardinality(Querying')
    BY DEF Spent
<1>6. ASSUME NEW c \in Querying, c \notin Querying' PROVE Spent + 1 <= Spent'
    <2>1. Cardinality(Querying') < Cardinality(Querying)
        BY <1>1, <1>3, <1>6, FS_Subset
    <2> QED  BY <1>1, <1>3, <1>4, <1>5, <2>1
<1>7. Spent' \in Nat /\ Spent <= Spent'
    BY <1>1, <1>3, <1>4, <1>5
<1> QED  BY <1>6, <1>7

LEMMA BeginSpendsNothing ==
    ASSUME Typed, NEW c \in Caller, pc[c] = "idle",
           evaluated' = evaluated + 1, Querying' = Querying \cup {c}
    PROVE  Spent' = Spent
<1>1. IsFiniteSet(Querying) /\ Cardinality(Querying) \in Nat
    BY Counting
<1>2. c \notin Querying
    BY DEF Querying
<1>3. Cardinality(Querying \cup {c}) = Cardinality(Querying) + 1
    BY <1>1, <1>2, FS_AddElement
<1>4. evaluated \in Nat
    BY GlyphAssumption DEF Typed
<1> QED  BY <1>1, <1>3, <1>4 DEF Spent


-----------------------------------------------------------------------------
(* The seed a cast is accumulated into.                                    *)

LEMMA SeedIdsAreFew ==
    ASSUME Typed
    PROVE  SeedIds \subseteq 1 .. MaxCasts /\ IsFiniteSet(SeedIds)
           /\ Cardinality(SeedIds) \in Nat
<1>1. ASSUME NEW i \in DOMAIN seeds PROVE seeds[i].id \in 1 .. MaxCasts
    <2>1. seeds[i] \in SeedType
        BY DEF Typed
    <2> QED  BY <2>1 DEF SeedType
<1>2. ASSUME NEW c \in Caller, work[c].seed # NoSeed
      PROVE  work[c].seed.id \in 1 .. MaxCasts
    <2>1. work[c].seed \in SeedType
        BY <1>2 DEF Typed, WorkType
    <2> QED  BY <2>1 DEF SeedType
<1>3. SeedIds \subseteq 1 .. MaxCasts
    BY <1>1, <1>2 DEF SeedIds
<1>4. IsFiniteSet(1 .. MaxCasts)
    BY GlyphAssumption, FS_Interval
<1> QED  BY <1>3, <1>4, FS_Subset, FS_CardinalityType

LEMMA FreshIdIsLeft ==
    ASSUME Typed, SpentIsEnough, Spent < MaxCasts
    PROVE  Min((1 .. MaxCasts) \ SeedIds) \in 1 .. MaxCasts
<1> DEFINE Left == (1 .. MaxCasts) \ SeedIds
<1>1. SeedIds \subseteq 1 .. MaxCasts /\ Cardinality(SeedIds) \in Nat
    BY SeedIdsAreFew
<1>2. Cardinality(1 .. MaxCasts) = MaxCasts
    <2>1. 1 \in Int /\ MaxCasts \in Int
        BY GlyphAssumption
    <2>2. Cardinality(1 .. MaxCasts) = IF 1 > MaxCasts THEN 0 ELSE MaxCasts - 1 + 1
        BY <2>1, FS_Interval
    <2> QED  BY <2>2, GlyphAssumption
<1>3. Left # {}
    <2>1. SUFFICES ASSUME Left = {} PROVE FALSE
        OBVIOUS
    <2>2. SeedIds = 1 .. MaxCasts
        BY <1>1, <2>1
    <2>3. Cardinality(SeedIds) = MaxCasts
        BY <1>2, <2>2
    <2> QED  BY <2>3, GlyphAssumption DEF SpentIsEnough
<1>4. Left \in SUBSET Nat /\ Left \subseteq 1 .. MaxCasts
    OBVIOUS
<1> HIDE DEF Left
<1>5. Min(Left) \in 1 .. MaxCasts
    BY <1>3, <1>4, MinIsLeast
<1> QED  BY <1>5 DEF Left

LEMMA RowsAreRows ==
    ASSUME Typed, NEW s, Rows(s) # {}
    PROVE  /\ Min(Rows(s)) \in Rows(s) /\ Max(Rows(s)) \in Rows(s)
           /\ \A i \in Rows(s) : /\ i \in DOMAIN seeds /\ seeds[i] \in SeedType
                                 /\ seeds[i].spelling = s
<1>1. PICK n \in Nat : DOMAIN seeds = 1 .. n
    <2>1. Len(seeds) \in Nat /\ DOMAIN seeds = 1 .. Len(seeds)
        BY DEF Typed
    <2> QED  BY <2>1
<1>2. Rows(s) \subseteq 1 .. n
    BY <1>1 DEF Rows
<1>3. Rows(s) \in SUBSET Nat /\ Rows(s) \in SUBSET (1 .. n)
    BY <1>2
<1>4. Min(Rows(s)) \in Rows(s) /\ Max(Rows(s)) \in Rows(s)
    BY <1>3, MinIsLeast, MaxIsGreatest
<1>5. ASSUME NEW i \in Rows(s)
      PROVE  i \in DOMAIN seeds /\ seeds[i] \in SeedType /\ seeds[i].spelling = s
    BY DEF Rows, Typed
<1> QED  BY <1>4, <1>5

LEMMA SeedOfIsHonest ==
    ASSUME Typed, SeedsAreHonest, SpentIsEnough, Spent < MaxCasts,
           NEW w \in WorkType, w.spelling \in Spelling
    PROVE  /\ SeedOf(w) \in SeedType
           /\ Honest(SeedOf(w), Spent)
           /\ SeedOf(w).spelling = w.spelling
<1>1. CASE Rows(w.spelling) = {}
    <2> DEFINE new == FreshSeed(w)
    <2>1. /\ new \in SeedType /\ new.spelling = w.spelling
          /\ new.generation = 1 /\ new.count = 0 /\ new.sum = 0 /\ new.coherent = 0
        BY FreshIdIsLeft DEF FreshSeed, SeedType
    <2>2. SeedOf(w) = new
        BY <1>1 DEF SeedOf
    <2> HIDE DEF new
    <2>3. Took(new) = Needed(0) + 0
        <3>1. new.generation - 1 = 0
            BY <2>1
        <3> QED  BY <2>1, <3>1 DEF Took
    <2>4. Took(new) <= Spent
        BY <2>3, NeededZero DEF SpentIsEnough
    <2>5. Honest(new, Spent)
        BY <2>1, <2>4 DEF Honest
    <2> QED  BY <2>1, <2>2, <2>5
<1>2. CASE Rows(w.spelling) # {}
    <2>1. PICK i \in DOMAIN seeds, j \in DOMAIN seeds :
            /\ i = Min(Rows(w.spelling)) /\ j = Max(Rows(w.spelling))
            /\ seeds[i] \in SeedType /\ seeds[j] \in SeedType
            /\ seeds[i].spelling = w.spelling
        BY <1>2, RowsAreRows
    <2>2. PICK row \in SeedType, id \in 1 .. MaxCasts : row = seeds[i] /\ id = seeds[j].id
        BY <2>1 DEF SeedType
    <2>3. SeedOf(w) = [row EXCEPT !.id = id]
        BY <1>2, <2>1, <2>2 DEF SeedOf
    <2> DEFINE new == [row EXCEPT !.id = id]
    <2>4. /\ new.spelling = row.spelling /\ new.generation = row.generation
          /\ new.count = row.count /\ new.sum = row.sum /\ new.coherent = row.coherent
        OBVIOUS
    <2>5. new \in SeedType
        BY DEF SeedType
    <2> HIDE DEF new
    <2>6. Honest(row, Spent)
        BY <2>2 DEF SeedsAreHonest
    <2>7. Honest(new, Spent)
        BY <2>4, <2>6 DEF Honest, Took
    <2> QED  BY <2>1, <2>2, <2>3, <2>4, <2>5, <2>7 DEF new
<1> QED  BY <1>1, <1>2

(* With one spelling and one row, the seed is that row.                    *)
LEMMA SeedOfOneRow ==
    ASSUME Typed, Len(seeds) <= 1, NEW w \in WorkType,
           \A i \in DOMAIN seeds : seeds[i].spelling = w.spelling
    PROVE  \/ /\ seeds = <<>>
              /\ SeedOf(w).generation = 1 /\ SeedOf(w).coherent = 0
           \/ /\ DOMAIN seeds = {1} /\ SeedOf(w) = seeds[1]
<1>1. PICK n \in Nat : n = Len(seeds) /\ DOMAIN seeds = 1 .. n /\ n <= 1
    <2>1. Len(seeds) \in Nat /\ DOMAIN seeds = 1 .. Len(seeds)
        BY DEF Typed
    <2> QED  BY <2>1
<1>2. CASE n = 0
    <2>1. seeds = <<>>
        BY <1>1, <1>2, EmptySeq DEF Typed
    <2>2. Rows(w.spelling) = {}
        BY <1>1, <1>2 DEF Rows
    <2>3. SeedOf(w) = FreshSeed(w)
        BY <2>2 DEF SeedOf
    <2> QED  BY <2>1, <2>3 DEF FreshSeed
<1>3. CASE n = 1
    <2>1. DOMAIN seeds = {1}
        BY <1>1, <1>3
    <2>2. Rows(w.spelling) = {1}
        BY <2>1 DEF Rows
    <2>3. Min(Rows(w.spelling)) = 1 /\ Max(Rows(w.spelling)) = 1
        BY <2>2, RowsAreRows
    <2>4. PICK row \in SeedType : row = seeds[1]
        <3>1. seeds \in Seq(SeedType) /\ 1 \in DOMAIN seeds
            BY <2>1 DEF Typed
        <3>2. seeds[1] \in SeedType
            BY <3>1
        <3> QED  BY <3>2
    <2>5. SeedOf(w) = [row EXCEPT !.id = row.id]
        BY <2>2, <2>3, <2>4 DEF SeedOf
    <2>6. [row EXCEPT !.id = row.id] = row
        BY DEF SeedType
    <2> QED  BY <2>1, <2>4, <2>5, <2>6
<1>4. n = 0 \/ n = 1
    BY <1>1
<1> QED  BY <1>2, <1>3, <1>4, Zenon


-----------------------------------------------------------------------------
(* The accounts are kept: what every step has in common.                   *)

Places == {"idle", "query", "seed", "crystal", "reset", "row"}

LEMMA Going ==
    ASSUME Typed, NEW c \in Caller, NEW l \in Places, Goto(c, l)
    PROVE  /\ pc' \in [Caller -> Places]
           /\ pc'[c] = l
           /\ \A d \in Caller \ {c} : pc'[d] = pc[d]
           /\ l # "query" => Querying' = Querying \ {c}
           /\ l = "query" => Querying' = Querying \cup {c}
<1>1. pc \in [Caller -> Places]
    BY DEF Typed, Places
<1>2. pc' = [pc EXCEPT ![c] = l]
    BY DEF Goto
<1>3. pc' \in [Caller -> Places] /\ pc'[c] = l /\ \A d \in Caller \ {c} : pc'[d] = pc[d]
    BY <1>1, <1>2
<1> QED  BY <1>3 DEF Querying

LEMMA Aging ==
    ASSUME NEW row \in SeedType, NEW n \in Nat, NEW m \in Nat, n <= m, Honest(row, n)
    PROVE  Honest(row, m)
<1>1. Took(row) \in Nat /\ Took(row) <= n
    BY TookIsNumber DEF Honest
<1>2. Took(row) <= m
    BY <1>1
<1> QED  BY <1>2 DEF Honest

\* Every row of a table, and what a caller holds, is a row it was before.
SeedsStay == \A i \in DOMAIN seeds' : \E j \in DOMAIN seeds : seeds'[i] = seeds[j]

LEMMA SeedsStayHonest ==
    ASSUME Accounts, Spent' \in Nat, Spent <= Spent', SeedsStay
    PROVE  SeedsAreHonest'
<1> SUFFICES ASSUME NEW i \in DOMAIN seeds' PROVE Honest(seeds'[i], Spent')
    BY DEF SeedsAreHonest
<1>1. PICK j \in DOMAIN seeds : seeds'[i] = seeds[j]
    BY DEF SeedsStay
<1>2. PICK row \in SeedType, n \in Nat :
          row = seeds[j] /\ n = Spent /\ Honest(row, n)
    <2>1. seeds \in Seq(SeedType) /\ Spent \in Nat /\ Honest(seeds[j], Spent)
        BY DEF Accounts, Typed, SpentIsEnough, SeedsAreHonest
    <2>2. seeds[j] \in SeedType
        BY <2>1
    <2> QED  BY <2>1, <2>2
<1>3. Honest(row, Spent')
    BY <1>2, Aging
<1> QED  BY <1>1, <1>2, <1>3

LEMMA WorkStaysHonest ==
    ASSUME Accounts, Spent' \in Nat, Spent <= Spent', NEW d \in Caller,
           work'[d].seed = work[d].seed, work'[d].seed # NoSeed
    PROVE  Honest(work'[d].seed, Spent')
<1>1. PICK row \in SeedType, n \in Nat :
          row = work[d].seed /\ n = Spent /\ Honest(row, n)
    BY DEF Accounts, Typed, WorkType, SpentIsEnough, WorkIsHonest
<1>2. Honest(row, Spent')
    BY <1>1, Aging
<1> QED  BY <1>1, <1>2

LEMMA CrystalStaysHonest ==
    ASSUME Accounts, Spent' \in Nat, Spent <= Spent', crystal' = crystal
    PROVE  CrystalIsHonest'
<1> SUFFICES ASSUME crystal # NoCrystal
             PROVE  Needed(crystal.generation) <= Spent'
    BY DEF CrystalIsHonest
<1>1. PICK g \in Nat \ {0} : g = crystal.generation
    BY DEF Accounts, Typed, CrystalType
<1>2. Needed(g) \in Nat
    BY SharesAreFinite
<1>3. Needed(g) <= Spent /\ Spent \in Nat
    BY <1>1 DEF Accounts, CrystalIsHonest, SpentIsEnough
<1> QED  BY <1>1, <1>2, <1>3

LEMMA IdsStayFew ==
    ASSUME Accounts, Spent' \in Nat, Spent <= Spent', SeedIds' \subseteq SeedIds
    PROVE  SpentIsEnough'
<1>1. IsFiniteSet(SeedIds) /\ Cardinality(SeedIds) \in Nat /\ Cardinality(SeedIds) <= Spent
      /\ Spent \in Nat
    BY SeedIdsAreFew DEF Accounts, SpentIsEnough
<1>2. IsFiniteSet(SeedIds') /\ Cardinality(SeedIds') <= Cardinality(SeedIds)
    BY <1>1, FS_Subset
<1>3. Cardinality(SeedIds') \in Nat
    BY <1>2, FS_CardinalityType
<1>4. Cardinality(SeedIds') <= Spent'
    BY <1>1, <1>2, <1>3
<1> QED  BY <1>4 DEF SpentIsEnough

(* What a caller does not change, it keeps.                                *)
LEMMA OthersKeepSeeds ==
    ASSUME Accounts, NEW d \in Caller, pc'[d] = pc[d], work'[d] = work[d]
    PROVE  /\ pc'[d] = "query" => work'[d].spelling \in Spelling
           /\ Writing(d)' => work'[d].seed # NoSeed
           /\ pc'[d] \in {"crystal", "reset"} => Mature(work'[d].seed)
BY DEF Accounts, WritersHaveSeeds, Writing

LEMMA SameIds ==
    ASSUME SeedsStay, \A d \in Caller : work'[d].seed \in {work[d].seed, NoSeed}
    PROVE  SeedIds' \subseteq SeedIds
<1> SUFFICES ASSUME NEW x \in SeedIds' PROVE x \in SeedIds
    OBVIOUS
<1>1. CASE \E i \in DOMAIN seeds' : x = seeds'[i].id
    BY <1>1 DEF SeedIds, SeedsStay
<1>2. CASE \E d \in Caller : work'[d].seed # NoSeed /\ x = work'[d].seed.id
    <2>1. PICK d \in Caller : work'[d].seed # NoSeed /\ x = work'[d].seed.id
        BY <1>2
    <2>2. work[d].seed # NoSeed /\ x = work[d].seed.id
        BY <2>1
    <2> QED  BY <2>2 DEF SeedIds
<1> QED  BY <1>1, <1>2 DEF SeedIds


-----------------------------------------------------------------------------
(* The accounts are kept: each action.                                     *)

(* Penalised resonances stay percentages.                                  *)
LEMMA EvaluationsArePercents ==
    ASSUME NEW ceiling \in 0 .. 100
    PROVE  /\ Evaluations(ceiling) \subseteq 0 .. 100
           /\ \A a \in Evaluations(ceiling) : a <= ceiling
<1>1. Penalty \in {0, 18, 40}
    BY GlyphAssumption DEF Penalty
<1>2. ASSUME NEW raw \in Level
      PROVE  Resonance(raw, ceiling) \in 0 .. 100 /\ Resonance(raw, ceiling) <= ceiling
    <2>1. raw \in 0 .. 100
        BY GlyphAssumption
    <2>2. Penalized(raw) \in 0 .. 100
        BY <1>1, <2>1 DEF Penalized
    <2> QED  BY <2>2 DEF Resonance, Lesser
<1> QED  BY <1>2 DEF Evaluations

LEMMA BeginWork ==
    ASSUME Typed, NEW c \in Caller, NEW s, NEW adjusted \in 0 .. 100, Begin(c, s, adjusted)
    PROVE  /\ pc[c] = "idle" /\ Goto(c, "query")
           /\ s \in spellings /\ s \in Spelling
           /\ work' \in [Caller -> WorkType]
           /\ work'[c].seed = NoSeed
           /\ work'[c].spelling = s
           /\ work'[c].adjusted = adjusted
           /\ \A d \in Caller \ {c} : work'[d] = work[d]
           /\ evaluated' = evaluated + 1 /\ evaluated' \in 0 .. MaxCasts
           /\ UNCHANGED <<seeds, crystal, spellings, used>>
           /\ overlapped' = (overlapped \/ \E d \in Caller : pc[d] # "idle")
           /\ overlapped' \in BOOLEAN
<1>1. s \in spellings /\ s \in Spelling
    BY DEF Begin, Typed
<1>2. PICK w \in WorkType : /\ w = [NoWork EXCEPT !.spelling = s, !.adjusted = adjusted]
                            /\ w.seed = NoSeed /\ w.spelling = s /\ w.adjusted = adjusted
    <2> DEFINE v == [NoWork EXCEPT !.spelling = s, !.adjusted = adjusted]
    <2>1. NoWork \in [spelling : {<<>>}, adjusted : {0}, seed : {NoSeed}]
        BY DEF NoWork
    <2> HIDE DEF NoWork
    <2>2. v \in WorkType
        BY <1>1, <2>1 DEF WorkType
    <2>3. v.seed = NoSeed /\ v.spelling = s /\ v.adjusted = adjusted
        BY <2>1
    <2> QED  BY <2>2, <2>3
<1>3. work' = [work EXCEPT ![c] = w] /\ work \in [Caller -> WorkType]
    BY <1>2 DEF Begin, Typed
<1>4. /\ work' \in [Caller -> WorkType] /\ work'[c] = w
      /\ \A d \in Caller \ {c} : work'[d] = work[d]
    BY <1>3
<1>5. evaluated' = evaluated + 1 /\ evaluated' \in 0 .. MaxCasts
    BY GlyphAssumption DEF Begin, Typed
<1>6. /\ overlapped' = (overlapped \/ \E d \in Caller : pc[d] # "idle")
      /\ overlapped' \in BOOLEAN
    BY DEF Begin, Typed
<1>7. /\ pc[c] = "idle" /\ Goto(c, "query")
      /\ UNCHANGED <<seeds, crystal, spellings, used>>
    BY DEF Begin, tables
<1> QED  BY <1>1, <1>2, <1>4, <1>5, <1>6, <1>7

LEMMA BeginKeepsAccounts ==
    ASSUME Accounts, NEW c \in Caller, NEW s, NEW adjusted \in 0 .. 100,
           Begin(c, s, adjusted), bypassed' \in BOOLEAN
    PROVE  Accounts'
<1>1. Typed
    BY DEF Accounts
<1>2. /\ pc[c] = "idle" /\ Goto(c, "query") /\ s \in Spelling
      /\ work' \in [Caller -> WorkType] /\ work'[c].seed = NoSeed /\ work'[c].spelling = s
      /\ \A d \in Caller \ {c} : work'[d] = work[d]
      /\ evaluated' = evaluated + 1 /\ evaluated' \in 0 .. MaxCasts
      /\ UNCHANGED <<seeds, crystal, spellings, used>> /\ overlapped' \in BOOLEAN
    BY <1>1, BeginWork
<1>3. /\ pc' \in [Caller -> Places] /\ pc'[c] = "query"
      /\ \A d \in Caller \ {c} : pc'[d] = pc[d]
      /\ Querying' = Querying \cup {c}
    BY <1>1, <1>2, Going DEF Places
<1>4. Typed'
    BY <1>1, <1>2, <1>3 DEF Typed, Places
<1>5. Spent' = Spent /\ Spent \in Nat /\ Spent' \in Nat /\ Spent <= Spent'
    <2>1. Spent' = Spent
        BY <1>1, <1>2, <1>3, BeginSpendsNothing
    <2>2. Spent \in Nat
        BY DEF Accounts, SpentIsEnough
    <2> QED  BY <2>1, <2>2
<1>6. SeedsStay /\ crystal' = crystal
    BY <1>2 DEF SeedsStay
<1>7. SeedsAreHonest' /\ CrystalIsHonest'
    BY <1>5, <1>6, SeedsStayHonest, CrystalStaysHonest
<1>8. \A d \in Caller : work'[d].seed \in {work[d].seed, NoSeed}
    BY <1>2
<1>9. WorkIsHonest'
    <2>1. ASSUME NEW d \in Caller, work'[d].seed # NoSeed PROVE Honest(work'[d].seed, Spent')
        BY <1>5, <1>8, <2>1, WorkStaysHonest
    <2> QED  BY <2>1 DEF WorkIsHonest
<1>10. SpentIsEnough'
    BY <1>5, <1>6, <1>8, SameIds, IdsStayFew
<1>11. WritersHaveSeeds'
    <2>1. ASSUME NEW d \in Caller
          PROVE  /\ pc'[d] = "query" => work'[d].spelling \in Spelling
                 /\ Writing(d)' => work'[d].seed # NoSeed
                 /\ pc'[d] \in {"crystal", "reset"} => Mature(work'[d].seed)
        <3>1. CASE d = c
            BY <1>2, <1>3, <3>1 DEF Writing
        <3>2. CASE d # c
            BY <1>2, <1>3, <3>2, OthersKeepSeeds
        <3> QED  BY <3>1, <3>2
    <2> QED  BY <2>1 DEF WritersHaveSeeds, Writing
<1> QED  BY <1>4, <1>7, <1>9, <1>10, <1>11 DEF Accounts

(* A call gives up, or ends: what it held is forgotten.                    *)
Forget(c) ==
    /\ pc[c] # "idle"
    /\ work' = [work EXCEPT ![c] = NoWork]
    /\ Goto(c, "idle")
    /\ UNCHANGED <<tables, spellings, used, evaluated, overlapped, bypassed>>

LEMMA ForgetKeepsAccounts ==
    ASSUME Accounts, NEW c \in Caller, Forget(c)
    PROVE  Accounts'
<1>1. Typed
    BY DEF Accounts
<1>2. UNCHANGED <<seeds, crystal, spellings, used, evaluated, overlapped, bypassed>>
    BY DEF Forget, tables
<1>3. /\ work' \in [Caller -> WorkType] /\ work'[c].seed = NoSeed
      /\ \A d \in Caller \ {c} : work'[d] = work[d]
    <2>1. NoWork \in WorkType /\ NoWork.seed = NoSeed
        BY DEF NoWork, WorkType
    <2>2. work' = [work EXCEPT ![c] = NoWork] /\ work \in [Caller -> WorkType]
        BY <1>1 DEF Forget, Typed
    <2> HIDE DEF NoWork
    <2> QED  BY <2>1, <2>2
<1>4. /\ pc' \in [Caller -> Places] /\ pc'[c] = "idle"
      /\ \A d \in Caller \ {c} : pc'[d] = pc[d]
      /\ Querying' = Querying \ {c}
    BY <1>1, Going DEF Places, Forget
<1>5. Typed'
    BY <1>1, <1>2, <1>3, <1>4 DEF Typed, Places
<1>6. Spent' \in Nat /\ Spent <= Spent'
    <2>1. Spent \in Nat
        BY DEF Accounts, SpentIsEnough
    <2>2. Querying' \subseteq Querying
        BY <1>4
    <2> QED  BY <1>1, <1>2, <1>5, <2>1, <2>2, SpentGrows
<1>7. SeedsStay /\ crystal' = crystal
    BY <1>2 DEF SeedsStay
<1>8. SeedsAreHonest' /\ CrystalIsHonest'
    BY <1>6, <1>7, SeedsStayHonest, CrystalStaysHonest
<1>9. \A d \in Caller : work'[d].seed \in {work[d].seed, NoSeed}
    BY <1>3
<1>10. WorkIsHonest'
    <2>1. ASSUME NEW d \in Caller, work'[d].seed # NoSeed PROVE Honest(work'[d].seed, Spent')
        BY <1>6, <1>9, <2>1, WorkStaysHonest
    <2> QED  BY <2>1 DEF WorkIsHonest
<1>11. SpentIsEnough'
    BY <1>6, <1>7, <1>9, SameIds, IdsStayFew
<1>12. WritersHaveSeeds'
    <2>1. ASSUME NEW d \in Caller
          PROVE  /\ pc'[d] = "query" => work'[d].spelling \in Spelling
                 /\ Writing(d)' => work'[d].seed # NoSeed
                 /\ pc'[d] \in {"crystal", "reset"} => Mature(work'[d].seed)
        <3>1. CASE d = c
            BY <1>4, <3>1 DEF Writing
        <3>2. CASE d # c
            BY <1>3, <1>4, <3>2, OthersKeepSeeds
        <3> QED  BY <3>1, <3>2
    <2> QED  BY <2>1 DEF WritersHaveSeeds, Writing
<1> QED  BY <1>5, <1>8, <1>10, <1>11, <1>12 DEF Accounts


LEMMA RestartKeepsAccounts ==
    ASSUME Accounts, Restart
    PROVE  Accounts'
<1>1. Typed
    BY DEF Accounts
<1>2. /\ UNCHANGED <<seeds, crystal, evaluated, overlapped, bypassed>>
      /\ spellings' \in (SUBSET Spelling) \ {{}} /\ used' = used \cup spellings'
    BY DEF Restart, tables
<1>3. /\ work' \in [Caller -> WorkType]
      /\ \A d \in Caller : work'[d].seed = NoSeed
    <2>1. NoWork \in WorkType /\ NoWork.seed = NoSeed
        BY DEF NoWork, WorkType
    <2>2. work' = [d \in Caller |-> NoWork]
        BY DEF Restart
    <2> HIDE DEF NoWork
    <2> QED  BY <2>1, <2>2
<1>4. pc' = [d \in Caller |-> "idle"]
    BY DEF Restart
<1>5. Typed'
    BY <1>1, <1>2, <1>3, <1>4 DEF Typed
<1>6. Spent' \in Nat /\ Spent <= Spent'
    <2>1. Spent \in Nat
        BY DEF Accounts, SpentIsEnough
    <2>2. Querying' \subseteq Querying
        BY <1>4 DEF Querying
    <2> QED  BY <1>1, <1>2, <1>5, <2>1, <2>2, SpentGrows
<1>7. SeedsStay /\ crystal' = crystal
    BY <1>2 DEF SeedsStay
<1>8. SeedsAreHonest' /\ CrystalIsHonest'
    BY <1>6, <1>7, SeedsStayHonest, CrystalStaysHonest
<1>9. \A d \in Caller : work'[d].seed \in {work[d].seed, NoSeed}
    BY <1>3
<1>10. WorkIsHonest'
    BY <1>3 DEF WorkIsHonest
<1>11. SpentIsEnough'
    BY <1>6, <1>7, <1>9, SameIds, IdsStayFew
<1>12. WritersHaveSeeds'
    BY <1>4 DEF WritersHaveSeeds, Writing
<1> QED  BY <1>5, <1>8, <1>10, <1>11, <1>12 DEF Accounts

(* What accumulate leaves in the hands of the caller.                      *)
LEMMA AccumulateWork ==
    ASSUME Accounts, NEW c \in Caller, Accumulate(c)
    PROVE  /\ pc[c] = "query"
           /\ \/ Goto(c, "row") /\ work' = work
              \/ \E new \in SeedType :
                    /\ Goto(c, "seed")
                    /\ new = Observed(SeedOf(work[c]), work[c].adjusted)
                    /\ new.spelling = work[c].spelling
                    /\ new.id = SeedOf(work[c]).id
                    /\ new.generation = SeedOf(work[c]).generation
                    /\ work[c].adjusted < Coherent
                       => new.coherent = SeedOf(work[c]).coherent
                    /\ Honest(new, Spent + 1)
                    /\ work'[c].seed = new
                    /\ work' \in [Caller -> WorkType]
                    /\ \A d \in Caller \ {c} : work'[d] = work[d]
<1>1. Typed /\ SeedsAreHonest /\ SpentIsEnough /\ Spent \in Nat
    BY DEF Accounts, SpentIsEnough
<1>2. pc[c] = "query" /\ work[c].spelling \in Spelling
    BY DEF Accumulate, Accounts, WritersHaveSeeds
<1>3. Spent < MaxCasts
    <2>1. c \in Querying
        BY <1>2 DEF Querying
    <2>2. Spent <= evaluated - 1 /\ evaluated \in 0 .. MaxCasts
        BY <1>1, <2>1, Counting DEF Typed
    <2> QED  BY <1>1, <2>2, GlyphAssumption
<1>4. PICK w \in WorkType : w = work[c]
    BY <1>1 DEF Typed
<1>5. PICK old \in SeedType : /\ old = SeedOf(w) /\ Honest(old, Spent)
                              /\ old.spelling = w.spelling
    BY <1>1, <1>2, <1>3, <1>4, SeedOfIsHonest
<1>6. w.adjusted \in 0 .. 100
    BY DEF WorkType
<1>7. PICK new \in SeedType :
        /\ new = Observed(old, w.adjusted) /\ Honest(new, Spent + 1)
        /\ new.spelling = old.spelling /\ new.id = old.id /\ new.generation = old.generation
        /\ w.adjusted < Coherent => new.coherent = old.coherent
    BY <1>1, <1>5, <1>6, ObservedTakesOne
<1>8. CASE Goto(c, "row") /\ work' = work
    BY <1>2, <1>8
<1>9. CASE Goto(c, "seed") /\ work' = [work EXCEPT ![c].seed = new]
    <2>1. work \in [Caller -> WorkType]
        BY <1>1 DEF Typed
    <2>2. PICK v \in WorkType : v = [w EXCEPT !.seed = new] /\ v.seed = new
        <3> DEFINE u == [w EXCEPT !.seed = new]
        <3>1. u \in WorkType
            BY DEF WorkType
        <3>2. u.seed = new
            BY DEF WorkType
        <3> QED  BY <3>1, <3>2
    <2>3. work' = [work EXCEPT ![c] = v]
        BY <1>4, <1>9, <2>2
    <2>4. /\ work' \in [Caller -> WorkType] /\ work'[c] = v
          /\ \A d \in Caller \ {c} : work'[d] = work[d]
        BY <2>1, <2>3
    <2> QED  BY <1>2, <1>4, <1>5, <1>7, <1>9, <2>2, <2>4
<1>10. \/ Goto(c, "row") /\ work' = work
       \/ Goto(c, "seed") /\ work' = [work EXCEPT ![c].seed = new]
    BY <1>4, <1>5, <1>7 DEF Accumulate
<1> QED  BY <1>8, <1>9, <1>10

LEMMA AccumulateKeepsAccounts ==
    ASSUME Accounts, NEW c \in Caller, Accumulate(c)
    PROVE  Accounts'
<1>1. Typed /\ Spent \in Nat
    BY DEF Accounts, SpentIsEnough
<1>2. UNCHANGED <<seeds, crystal, spellings, used, evaluated, overlapped, bypassed>>
    BY DEF Accumulate, tables
<1>3. PICK l \in {"row", "seed"} : Goto(c, l)
    BY AccumulateWork
<1>4. /\ pc' \in [Caller -> Places] /\ pc'[c] \in {"row", "seed"}
      /\ \A d \in Caller \ {c} : pc'[d] = pc[d]
      /\ Querying' = Querying \ {c}
    BY <1>1, <1>3, Going DEF Places
<1>5. /\ work' \in [Caller -> WorkType]
      /\ \A d \in Caller \ {c} : work'[d] = work[d]
    <2>1. work' = work => work' \in [Caller -> WorkType]
        BY <1>1 DEF Typed
    <2> QED  BY <2>1, AccumulateWork
<1>6. Typed'
    BY <1>1, <1>2, <1>4, <1>5 DEF Typed, Places
<1>7. Spent' \in Nat /\ Spent <= Spent' /\ Spent + 1 <= Spent'
    <2>1. Querying' \subseteq Querying /\ c \in Querying /\ c \notin Querying'
        BY <1>4, AccumulateWork DEF Querying
    <2> QED  BY <1>1, <1>2, <1>6, <2>1, SpentGrows
<1>8. SeedsStay /\ crystal' = crystal
    BY <1>2 DEF SeedsStay
<1>9. SeedsAreHonest' /\ CrystalIsHonest'
    BY <1>7, <1>8, SeedsStayHonest, CrystalStaysHonest
<1>10. CASE work' = work /\ Goto(c, "row")
    <2>1. WorkIsHonest'
        <3>1. ASSUME NEW d \in Caller, work'[d].seed # NoSeed
              PROVE  Honest(work'[d].seed, Spent')
            BY <1>7, <1>10, <3>1, WorkStaysHonest
        <3> QED  BY <3>1 DEF WorkIsHonest
    <2>2. SpentIsEnough'
        BY <1>7, <1>8, <1>10, SameIds, IdsStayFew
    <2>3. pc'[c] = "row"
        BY <1>1, <1>10, Going DEF Places
    <2>4. WritersHaveSeeds'
        <3>1. ASSUME NEW d \in Caller
              PROVE  /\ pc'[d] = "query" => work'[d].spelling \in Spelling
                     /\ Writing(d)' => work'[d].seed # NoSeed
                     /\ pc'[d] \in {"crystal", "reset"} => Mature(work'[d].seed)
            <4>1. CASE d = c
                BY <2>3, <4>1 DEF Writing
            <4>2. CASE d # c
                BY <1>4, <1>5, <4>2, OthersKeepSeeds
            <4> QED  BY <4>1, <4>2
        <3> QED  BY <3>1 DEF WritersHaveSeeds, Writing
    <2> QED  BY <1>6, <1>9, <2>1, <2>2, <2>4 DEF Accounts
<1>11. CASE \E new \in SeedType : /\ Goto(c, "seed") /\ Honest(new, Spent + 1)
                                  /\ work'[c].seed = new
    <2>1. PICK new \in SeedType : /\ Goto(c, "seed") /\ Honest(new, Spent + 1)
                                  /\ work'[c].seed = new
        BY <1>11
    <2>2. PICK n \in Nat, m \in Nat : n = Spent + 1 /\ m = Spent' /\ n <= m
        BY <1>1, <1>7
    <2>3. Honest(new, Spent')
        <3>1. Honest(new, n)
            BY <2>1, <2>2
        <3>2. Honest(new, m)
            BY <2>2, <3>1, Aging
        <3> QED  BY <2>2, <3>2
    <2>4. WorkIsHonest'
        <3>1. ASSUME NEW d \in Caller, work'[d].seed # NoSeed
              PROVE  Honest(work'[d].seed, Spent')
            <4>1. CASE d = c
                BY <2>1, <2>3, <4>1
            <4>2. CASE d # c
                BY <1>5, <1>7, <3>1, <4>2, WorkStaysHonest
            <4> QED  BY <4>1, <4>2
        <3> QED  BY <3>1 DEF WorkIsHonest
    <2>5. SpentIsEnough'
        <3>1. SeedIds' \subseteq SeedIds \cup {new.id}
            <4>1. ASSUME NEW d \in Caller, work'[d].seed # NoSeed
                  PROVE  work'[d].seed.id \in SeedIds \cup {new.id}
                <5>1. CASE d = c
                    BY <2>1, <5>1
                <5>2. CASE d # c
                    BY <1>5, <4>1, <5>2 DEF SeedIds
                <5> QED  BY <5>1, <5>2
            <4>2. ASSUME NEW i \in DOMAIN seeds' PROVE seeds'[i].id \in SeedIds
                BY <1>2 DEF SeedIds
            <4> QED  BY <4>1, <4>2 DEF SeedIds
        <3>2. /\ IsFiniteSet(SeedIds) /\ Cardinality(SeedIds) \in Nat
              /\ Cardinality(SeedIds) <= Spent
            BY <1>1, SeedIdsAreFew DEF Accounts, SpentIsEnough
        <3>3. /\ IsFiniteSet(SeedIds \cup {new.id})
              /\ Cardinality(SeedIds \cup {new.id}) <= Cardinality(SeedIds) + 1
            <4>1. CASE new.id \in SeedIds
                <5>1. SeedIds \cup {new.id} = SeedIds
                    BY <4>1, Zenon
                <5>2. Cardinality(SeedIds) <= Cardinality(SeedIds) + 1
                    BY <3>2
                <5> QED  BY <3>2, <5>1, <5>2, Zenon
            <4>2. CASE new.id \notin SeedIds
                <5>1. /\ IsFiniteSet(SeedIds \cup {new.id})
                      /\ Cardinality(SeedIds \cup {new.id}) = Cardinality(SeedIds) + 1
                    BY <3>2, <4>2, FS_AddElement
                <5> QED  BY <3>2, <5>1
            <4> QED  BY <4>1, <4>2
        <3>4. /\ Cardinality(SeedIds') <= Cardinality(SeedIds \cup {new.id})
              /\ Cardinality(SeedIds') \in Nat
              /\ Cardinality(SeedIds \cup {new.id}) \in Nat
            <4>1. /\ IsFiniteSet(SeedIds')
                  /\ Cardinality(SeedIds') <= Cardinality(SeedIds \cup {new.id})
                BY <3>1, <3>3, FS_Subset
            <4> QED  BY <3>3, <4>1, FS_CardinalityType
        <3>5. Cardinality(SeedIds') <= Spent'
            BY <1>1, <1>7, <3>2, <3>3, <3>4
        <3> QED  BY <1>7, <3>5 DEF SpentIsEnough
    <2>6. pc'[c] = "seed"
        BY <1>1, <2>1, Going DEF Places
    <2>7. new # NoSeed
        <3>1. "id" \in DOMAIN new
            BY DEF SeedType
        <3>2. DOMAIN NoSeed = {}
            BY DEF NoSeed
        <3> QED  BY <3>1, <3>2
    <2>8. WritersHaveSeeds'
        <3>1. ASSUME NEW d \in Caller
              PROVE  /\ pc'[d] = "query" => work'[d].spelling \in Spelling
                     /\ Writing(d)' => work'[d].seed # NoSeed
                     /\ pc'[d] \in {"crystal", "reset"} => Mature(work'[d].seed)
            <4>1. CASE d = c
                BY <2>1, <2>6, <2>7, <4>1
            <4>2. CASE d # c
                BY <1>4, <1>5, <4>2, OthersKeepSeeds
            <4> QED  BY <4>1, <4>2
        <3> QED  BY <3>1 DEF WritersHaveSeeds, Writing
    <2> QED  BY <1>6, <1>9, <2>4, <2>5, <2>8 DEF Accounts
<1> QED  BY <1>10, <1>11, AccumulateWork


(* A caller that writes has a seed to write.                               *)
LEMMA WriterHasRow ==
    ASSUME Accounts, NEW c \in Caller, Writing(c)
    PROVE  \E row \in SeedType :
              /\ row = work[c].seed /\ work[c].seed # NoSeed
              /\ Honest(row, Spent)
              /\ pc[c] \in {"crystal", "reset"} => Mature(row)
<1>1. work[c].seed # NoSeed /\ work[c].seed \in SeedType \cup {NoSeed}
    BY DEF Accounts, WritersHaveSeeds, Typed, WorkType
<1>2. Honest(work[c].seed, Spent)
    BY <1>1 DEF Accounts, WorkIsHonest
<1>3. pc[c] \in {"crystal", "reset"} => Mature(work[c].seed)
    BY DEF Accounts, WritersHaveSeeds
<1> QED  BY <1>1, <1>2, <1>3

LEMMA WrittenRowIsHonest ==
    ASSUME Accounts, NEW c \in Caller, NEW row \in SeedType, Honest(row, Spent),
           work[c].seed # NoSeed, row.id = work[c].seed.id,
           seeds' = Replaced(row), work' = work, Spent' \in Nat, Spent <= Spent'
    PROVE  SeedsAreHonest' /\ SpentIsEnough' /\ seeds' \in Seq(SeedType)
<1>1. seeds \in Seq(SeedType) /\ Spent \in Nat
    BY DEF Accounts, Typed, SpentIsEnough
<1>2. /\ seeds' \in Seq(SeedType)
      /\ \A i \in DOMAIN seeds' : \/ seeds'[i] = row
                                  \/ \E j \in DOMAIN seeds : seeds'[i] = seeds[j]
    BY <1>1, Replacing
<1>3. SeedsAreHonest'
    <2>1. ASSUME NEW i \in DOMAIN seeds' PROVE Honest(seeds'[i], Spent')
        <3>1. PICK old \in SeedType : old = seeds'[i] /\ Honest(old, Spent)
            <4>1. CASE seeds'[i] = row
                BY <4>1
            <4>2. CASE \E j \in DOMAIN seeds : seeds'[i] = seeds[j]
                <5>1. PICK j \in DOMAIN seeds : seeds'[i] = seeds[j]
                    BY <4>2
                <5>2. seeds[j] \in SeedType
                    BY <1>1
                <5>3. Honest(seeds[j], Spent)
                    BY DEF Accounts, SeedsAreHonest
                <5> QED  BY <5>1, <5>2, <5>3
            <4> QED  BY <1>2, <4>1, <4>2
        <3>2. PICK n \in Nat, m \in Nat : n = Spent /\ m = Spent' /\ n <= m
            BY <1>1
        <3>3. Honest(old, m)
            BY <3>1, <3>2, Aging
        <3> QED  BY <3>1, <3>2, <3>3
    <2> QED  BY <2>1 DEF SeedsAreHonest
<1>4. SpentIsEnough'
    <2>1. row.id \in SeedIds
        BY DEF SeedIds
    <2>2. ASSUME NEW i \in DOMAIN seeds' PROVE seeds'[i].id \in SeedIds
        BY <1>2, <2>1 DEF SeedIds
    <2>3. SeedIds' \subseteq SeedIds
        BY <2>2 DEF SeedIds
    <2> QED  BY <2>3, IdsStayFew
<1> QED  BY <1>2, <1>3, <1>4

(* A caller that moves on from one write to the next spends nothing.       *)
LEMMA MovingOn ==
    ASSUME Accounts, NEW c \in Caller, NEW l \in Places \ {"query"}, pc[c] # "query",
           Goto(c, l), work' = work, seeds' \in Seq(SeedType),
           crystal' \in CrystalType \cup {NoCrystal},
           UNCHANGED <<spellings, used, evaluated, overlapped, bypassed>>
    PROVE  /\ Typed' /\ Spent' \in Nat /\ Spent <= Spent' /\ WorkIsHonest'
           /\ (Writing(c) /\ (l \in {"crystal", "reset"} => Mature(work[c].seed)))
              => WritersHaveSeeds'
<1>1. Typed /\ Spent \in Nat
    BY DEF Accounts, SpentIsEnough
<1>2. /\ pc' \in [Caller -> Places] /\ pc'[c] = l
      /\ \A d \in Caller \ {c} : pc'[d] = pc[d]
      /\ Querying' = Querying \ {c}
    BY <1>1, Going
<1>3. Typed'
    BY <1>1, <1>2 DEF Typed, Places
<1>4. Spent' \in Nat /\ Spent <= Spent'
    <2>1. Querying' \subseteq Querying
        BY <1>2
    <2> QED  BY <1>1, <1>3, <2>1, SpentGrows
<1>5. WorkIsHonest'
    <2>1. ASSUME NEW d \in Caller, work'[d].seed # NoSeed PROVE Honest(work'[d].seed, Spent')
        BY <1>4, <2>1, WorkStaysHonest
    <2> QED  BY <2>1 DEF WorkIsHonest
<1>6. ASSUME Writing(c), l \in {"crystal", "reset"} => Mature(work[c].seed)
      PROVE  WritersHaveSeeds'
    <2>1. ASSUME NEW d \in Caller
          PROVE  /\ pc'[d] = "query" => work'[d].spelling \in Spelling
                 /\ Writing(d)' => work'[d].seed # NoSeed
                 /\ pc'[d] \in {"crystal", "reset"} => Mature(work'[d].seed)
        <3>1. CASE d = c
            BY <1>2, <1>6, <3>1, WriterHasRow
        <3>2. CASE d # c
            BY <1>2, <3>2, OthersKeepSeeds
        <3> QED  BY <3>1, <3>2
    <2> QED  BY <2>1 DEF WritersHaveSeeds, Writing
<1> QED  BY <1>3, <1>4, <1>5, <1>6

LEMMA WriteSeedKeepsAccounts ==
    ASSUME Accounts, NEW c \in Caller, WriteSeed(c)
    PROVE  Accounts'
<1>1. /\ pc[c] = "seed" /\ Writing(c) /\ seeds' = Replaced(work[c].seed)
      /\ UNCHANGED <<crystal, spellings, used, evaluated, overlapped, bypassed, work>>
    BY DEF WriteSeed, Writing
<1>2. PICK row \in SeedType : row = work[c].seed /\ work[c].seed # NoSeed /\ Honest(row, Spent)
    BY <1>1, WriterHasRow
<1>3. PICK l \in {"crystal", "row"} : Goto(c, l) /\ (l = "crystal" => Mature(work[c].seed))
    BY DEF WriteSeed
<1>4. /\ seeds \in Seq(SeedType) /\ seeds' = Replaced(row)
      /\ crystal' \in CrystalType \cup {NoCrystal}
    BY <1>1, <1>2 DEF Accounts, Typed
<1>5. seeds' \in Seq(SeedType)
    BY <1>4, Replacing
<1>6. /\ Typed' /\ Spent' \in Nat /\ Spent <= Spent' /\ WorkIsHonest'
      /\ WritersHaveSeeds'
    <2>1. l \in Places \ {"query"} /\ (l \in {"crystal", "reset"} => Mature(work[c].seed))
        BY <1>3 DEF Places
    <2> QED  BY <1>1, <1>3, <1>4, <1>5, <2>1, MovingOn
<1>7. SeedsAreHonest' /\ SpentIsEnough'
    <2>1. row.id = work[c].seed.id
        BY <1>2
    <2> QED  BY <1>1, <1>2, <1>4, <1>6, <2>1, WrittenRowIsHonest
<1>8. CrystalIsHonest'
    BY <1>1, <1>6, CrystalStaysHonest
<1> QED  BY <1>6, <1>7, <1>8 DEF Accounts

LEMMA ResetKeepsAccounts ==
    ASSUME Accounts, NEW c \in Caller, Reset(c)
    PROVE  Accounts'
<1>1. /\ pc[c] = "reset" /\ Writing(c) /\ seeds' = Replaced(ResetSeed(work[c].seed))
      /\ UNCHANGED <<crystal, spellings, used, evaluated, overlapped, bypassed, work>>
      /\ Goto(c, "row")
    BY DEF Reset, Writing
<1>2. PICK row \in SeedType : /\ row = work[c].seed /\ work[c].seed # NoSeed
                              /\ Honest(row, Spent) /\ Mature(row)
    BY <1>1, WriterHasRow
<1>3. Spent \in Nat
    BY DEF Accounts, SpentIsEnough
<1>4. PICK new \in SeedType : /\ new = ResetSeed(row) /\ Honest(new, Spent)
                              /\ new.id = row.id
    BY <1>2, <1>3, ResetKeepsAccount
<1>5. /\ seeds \in Seq(SeedType) /\ seeds' = Replaced(new)
      /\ crystal' \in CrystalType \cup {NoCrystal}
    BY <1>1, <1>2, <1>4 DEF Accounts, Typed
<1>6. seeds' \in Seq(SeedType)
    BY <1>5, Replacing
<1>7. /\ Typed' /\ Spent' \in Nat /\ Spent <= Spent' /\ WorkIsHonest'
      /\ WritersHaveSeeds'
    <2>1. "row" \in Places \ {"query"} /\ "row" \notin {"crystal", "reset"}
        BY DEF Places
    <2> QED  BY <1>1, <1>5, <1>6, <2>1, MovingOn
<1>8. SeedsAreHonest' /\ SpentIsEnough'
    <2>1. new.id = work[c].seed.id
        BY <1>2, <1>4
    <2> QED  BY <1>1, <1>2, <1>4, <1>5, <1>7, <2>1, WrittenRowIsHonest
<1>9. CrystalIsHonest'
    BY <1>1, <1>7, CrystalStaysHonest
<1> QED  BY <1>7, <1>8, <1>9 DEF Accounts

(* The sigil's generation is that of a mature seed, which took enough.     *)
LEMMA WriteCrystalKeepsAccounts ==
    ASSUME Accounts, NEW c \in Caller, WriteCrystal(c)
    PROVE  Accounts'
<1>1. /\ pc[c] = "crystal" /\ Writing(c) /\ Goto(c, "reset")
      /\ UNCHANGED <<seeds, spellings, used, evaluated, overlapped, bypassed, work>>
    BY DEF WriteCrystal, Writing
<1>2. PICK row \in SeedType : /\ row = work[c].seed /\ work[c].seed # NoSeed
                              /\ Honest(row, Spent) /\ Mature(row)
    BY <1>1, WriterHasRow
<1>3. crystal' = [spelling |-> row.spelling, generation |-> row.generation,
                  ceiling |-> CeilingOf(row)]
    BY <1>2 DEF WriteCrystal
<1>4. crystal' \in CrystalType
    <2>1. /\ row.spelling \in Spelling /\ row.generation \in Nat \ {0}
          /\ row.count \in Nat \ {0} /\ row.sum \in Nat /\ row.sum <= 100 * row.count
        BY <1>2, MatureTookAll DEF SeedType, Honest
    <2>2. CeilingOf(row) \in 0 .. 100
        BY <2>1, CeilingIsPercent DEF CeilingOf
    <2> HIDE DEF CeilingOf
    <2> QED  BY <1>3, <2>1, <2>2 DEF CrystalType
<1>5. seeds' \in Seq(SeedType)
    BY <1>1 DEF Accounts, Typed
<1>6. /\ Typed' /\ Spent' \in Nat /\ Spent <= Spent' /\ WorkIsHonest'
      /\ WritersHaveSeeds'
    <2>1. "reset" \in Places \ {"query"} /\ Mature(work[c].seed)
        BY <1>2 DEF Places
    <2> QED  BY <1>1, <1>4, <1>5, <2>1, MovingOn
<1>7. SeedsAreHonest'
    <2>1. SeedsStay
        BY <1>1 DEF SeedsStay
    <2> QED  BY <1>6, <2>1, SeedsStayHonest
<1>8. SpentIsEnough'
    <2>1. SeedIds' \subseteq SeedIds
        BY <1>1 DEF SeedIds
    <2> QED  BY <1>6, <2>1, IdsStayFew
<1>9. CrystalIsHonest'
    <2>1. /\ Needed(row.generation) \in Nat /\ Needed(row.generation) <= Took(row)
          /\ Took(row) \in Nat /\ Took(row) <= Spent /\ Spent \in Nat
        BY <1>2, MatureTookAll, TookIsNumber DEF Honest, Accounts, SpentIsEnough
    <2>2. Needed(row.generation) <= Spent'
        BY <1>6, <2>1
    <2>3. crystal'.generation = row.generation
        BY <1>3
    <2> QED  BY <2>2, <2>3 DEF CrystalIsHonest
<1> QED  BY <1>6, <1>7, <1>8, <1>9 DEF Accounts


-----------------------------------------------------------------------------

LEMMA InitAccounts == Init => Accounts
<1> SUFFICES ASSUME Init PROVE Accounts
    OBVIOUS
<1>1. Typed
    <2>1. NoWork \in WorkType
        BY DEF NoWork, WorkType
    <2>2. work \in [Caller -> WorkType]
        <3> HIDE DEF NoWork
        <3> QED  BY <2>1 DEF Init
    <2>3. pc \in [Caller -> {"idle", "query", "seed", "crystal", "reset", "row"}]
        BY DEF Init
    <2>4. seeds \in Seq(SeedType)
        BY EmptySeq DEF Init
    <2>5. /\ crystal \in CrystalType \cup {NoCrystal} /\ evaluated \in 0 .. MaxCasts
          /\ overlapped \in BOOLEAN /\ bypassed \in BOOLEAN
        <3>1. 0 \in 0 .. MaxCasts
            BY GlyphAssumption
        <3> QED  BY <3>1 DEF Init
    <2>6. spellings \in (SUBSET Spelling) \ {{}} /\ used \subseteq Spelling
        BY DEF Init
    <2> QED  BY <2>2, <2>3, <2>4, <2>5, <2>6 DEF Typed
<1>2. \A c \in Caller : pc[c] = "idle" /\ work[c].seed = NoSeed
    BY DEF Init, NoWork
<1>3. DOMAIN seeds = {}
    BY DEF Init
<1>4. SpentIsEnough
    <2>1. Querying = {} /\ SeedIds = {}
        BY <1>2, <1>3 DEF Querying, SeedIds
    <2>2. Cardinality(Querying) = 0 /\ Cardinality(SeedIds) = 0
        BY <2>1, FS_EmptySet
    <2> QED  BY <2>2 DEF Spent, SpentIsEnough, Init
<1>5. SeedsAreHonest /\ WorkIsHonest /\ WritersHaveSeeds
    BY <1>2, <1>3 DEF SeedsAreHonest, WorkIsHonest, WritersHaveSeeds, Writing
<1>6. CrystalIsHonest
    BY DEF Init, CrystalIsHonest
<1> QED  BY <1>1, <1>4, <1>5, <1>6 DEF Accounts

LEMMA CeilingIsInRange ==
    ASSUME Typed, NEW s
    PROVE  CeilingInForce(s) \in 0 .. 100
BY GlyphAssumption DEF CeilingInForce, Found, Typed, CrystalType

LEMMA NextKeepsAccounts == Accounts /\ [Next]_vars => Accounts'
<1> SUFFICES ASSUME Accounts, [Next]_vars PROVE Accounts'
    OBVIOUS
<1>1. Typed
    BY DEF Accounts
<1>2. ASSUME NEW c \in Caller, NEW s, Evaluate(c, s) PROVE Accounts'
    <2>1. PICK adjusted \in 0 .. 100 : Begin(c, s, adjusted)
        BY <1>1, <1>2, CeilingIsInRange, EvaluationsArePercents DEF Evaluate
    <2>2. bypassed' \in BOOLEAN
        BY <1>1, <1>2 DEF Evaluate, Typed
    <2> QED  BY <2>1, <2>2, BeginKeepsAccounts
<1>3. ASSUME NEW c \in Caller, NEW s, EvaluateAnew(c, s) PROVE Accounts'
    <2>1. PICK adjusted \in 0 .. 100 : Begin(c, s, adjusted)
        BY <1>3, GlyphAssumption, EvaluationsArePercents DEF EvaluateAnew
    <2>2. bypassed' \in BOOLEAN
        BY <1>1, <1>3 DEF EvaluateAnew, Typed
    <2> QED  BY <2>1, <2>2, BeginKeepsAccounts
<1>4. ASSUME NEW c \in Caller, WriteCast(c) \/ Fail(c) PROVE Accounts'
    <2>1. Forget(c)
        BY <1>4 DEF WriteCast, Fail, Forget
    <2> QED  BY <2>1, ForgetKeepsAccounts
<1>5. ASSUME UNCHANGED vars PROVE Accounts'
    <2>1. UNCHANGED <<seeds, crystal, spellings, used, evaluated, overlapped, bypassed, pc, work>>
        BY <1>5 DEF vars, tables
    <2>2. Querying' = Querying /\ SeedIds' = SeedIds
        BY <2>1 DEF Querying, SeedIds
    <2>3. Spent' = Spent
        BY <2>1, <2>2 DEF Spent
    <2>4. Typed'
        BY <1>1, <2>1 DEF Typed
    <2>5. SeedsAreHonest' /\ WorkIsHonest' /\ CrystalIsHonest' /\ SpentIsEnough'
        BY <2>1, <2>2, <2>3
           DEF Accounts, SeedsAreHonest, WorkIsHonest, CrystalIsHonest, SpentIsEnough
    <2>6. WritersHaveSeeds'
        BY <2>1 DEF Accounts, WritersHaveSeeds, Writing
    <2> QED  BY <2>4, <2>5, <2>6 DEF Accounts
<1>6. CASE Next
    <2>1. CASE Restart
        BY <2>1, RestartKeepsAccounts
    <2>2. ASSUME NEW c \in Caller, Step(c) PROVE Accounts'
        BY <1>2, <1>3, <1>4, <2>2, AccumulateKeepsAccounts, WriteSeedKeepsAccounts,
           WriteCrystalKeepsAccounts, ResetKeepsAccounts DEF Step
    <2> QED  BY <1>6, <2>1, <2>2 DEF Next
<1> QED  BY <1>5, <1>6

LEMMA AccountsAlways == Spec => []Accounts
BY InitAccounts, NextKeepsAccounts, PTL DEF Spec

(* No row has observed more than was evaluated, so none is out of bounds.  *)
LEMMA HonestRowIsBounded ==
    ASSUME NEW row \in SeedType, NEW n \in Nat, n <= MaxCasts, Honest(row, n)
    PROVE  row \in SeedRow
<1>1. PICK took \in Nat : took = Took(row) /\ took <= MaxCasts
    <2>1. Took(row) \in Nat /\ Took(row) <= n
        BY TookIsNumber DEF Honest
    <2> QED  BY <2>1, GlyphAssumption
<1>2. /\ row.id \in 1 .. MaxCasts /\ row.spelling \in Spelling
      /\ row.count \in Nat /\ row.sum \in Nat /\ row.coherent \in Nat
      /\ row.generation \in Nat \ {0}
      /\ row = [id |-> row.id, spelling |-> row.spelling, count |-> row.count,
                sum |-> row.sum, coherent |-> row.coherent, generation |-> row.generation]
    BY DEF SeedType
<1>3. row.count <= took /\ row.generation - 1 <= took
    BY <1>1, TookIsNumber
<1>4. row.sum <= 100 * row.count /\ row.coherent <= row.count
    BY DEF Honest
<1>5. row.count \in 0 .. MaxCasts /\ row.generation \in 1 .. MaxCasts + 1
    BY <1>1, <1>2, <1>3, GlyphAssumption
<1>6. row.coherent \in 0 .. MaxCasts /\ row.sum \in 0 .. 100 * MaxCasts
    BY <1>2, <1>4, <1>5, GlyphAssumption
<1> QED  BY <1>2, <1>5, <1>6 DEF SeedRow

(* Every table and every value a call holds is of its type: no count, sum  *)
(* or generation of a seed outgrows the casts that were evaluated.         *)
THEOREM TypeCorrect == Spec => []TypeOK
<1>1. Accounts => TypeOK
    <2> SUFFICES ASSUME Accounts PROVE TypeOK
        OBVIOUS
    <2>1. Typed /\ SeedsAreHonest /\ WorkIsHonest /\ CrystalIsHonest
        BY DEF Accounts
    <2>2. Spent \in Nat /\ Spent <= MaxCasts
        <3>1. Spent \in Nat /\ Spent <= evaluated /\ evaluated \in 0 .. MaxCasts
            BY <2>1, Counting DEF Accounts, SpentIsEnough, Typed
        <3> QED  BY <3>1, GlyphAssumption
    <2>3. seeds \in Seq(SeedRow)
        <3>1. seeds \in Seq(SeedType)
            BY <2>1 DEF Typed
        <3>2. ASSUME NEW i \in DOMAIN seeds PROVE seeds[i] \in SeedRow
            <4>1. PICK row \in SeedType : row = seeds[i]
                BY <3>1
            <4>2. Honest(row, Spent)
                BY <2>1, <4>1 DEF SeedsAreHonest
            <4> QED  BY <2>2, <4>1, <4>2, HonestRowIsBounded
        <3>3. Len(seeds) \in Nat /\ DOMAIN seeds = 1 .. Len(seeds)
              /\ seeds = [i \in 1 .. Len(seeds) |-> seeds[i]]
            BY <3>1
        <3> QED  BY <3>2, <3>3, SeqDef
    <2>4. crystal \in CrystalRow \cup {NoCrystal}
        <3>1. CASE crystal = NoCrystal
            BY <3>1
        <3>2. CASE crystal # NoCrystal
            <4>1. PICK sigil \in CrystalType : sigil = crystal
                BY <2>1, <3>2 DEF Typed
            <4>2. PICK g \in Nat \ {0} : g = sigil.generation
                BY DEF CrystalType
            <4>3. Needed(g) \in Nat /\ g <= Needed(g) /\ Needed(g) <= Spent
                BY <2>1, <3>2, <4>1, <4>2, SharesAreFinite, NeededIsEnough DEF CrystalIsHonest
            <4>4. g \in 1 .. MaxCasts
                BY <2>2, <4>3, GlyphAssumption
            <4> QED  BY <4>1, <4>2, <4>4 DEF CrystalType, CrystalRow
        <3> QED  BY <3>1, <3>2
    <2>5. work \in [Caller -> Work]
        <3>1. work \in [Caller -> WorkType]
            BY <2>1 DEF Typed
        <3>2. ASSUME NEW c \in Caller PROVE work[c] \in Work
            <4>1. PICK w \in WorkType : w = work[c]
                BY <3>1
            <4>2. w.seed \in SeedRow \cup {NoSeed}
                <5>1. CASE w.seed = NoSeed
                    BY <5>1
                <5>2. CASE w.seed # NoSeed
                    <6>1. PICK row \in SeedType : row = w.seed
                        BY <5>2 DEF WorkType
                    <6>2. Honest(row, Spent)
                        BY <2>1, <4>1, <5>2, <6>1 DEF WorkIsHonest
                    <6> QED  BY <2>2, <6>1, <6>2, HonestRowIsBounded
                <5> QED  BY <5>1, <5>2
            <4> QED  BY <4>1, <4>2 DEF WorkType, Work
        <3> QED  BY <3>1, <3>2
    <2> QED  BY <2>1, <2>3, <2>4, <2>5 DEF Typed, TypeOK
<1> QED  BY <1>1, AccountsAlways, PTL

(* A crystallized sigil of generation g is paid for by as many casts as    *)
(* its generations take together, whatever calls overlapped, died before a *)
(* reset, wrote a stale seed or spelt the pattern another way.             *)
THEOREM Earned == Spec => []CrystalIsEarned
<1>1. Accounts => CrystalIsEarned
    <2> SUFFICES ASSUME Accounts, crystal # NoCrystal
                 PROVE  evaluated >= Needed(crystal.generation)
        BY DEF CrystalIsEarned
    <2>1. Typed /\ Needed(crystal.generation) <= Spent
        BY DEF Accounts, CrystalIsHonest
    <2>2. Spent \in Int /\ Spent <= evaluated /\ evaluated \in Nat
        BY <2>1, Counting, GlyphAssumption DEF Typed
    <2>3. PICK g \in Nat \ {0} : g = crystal.generation
        BY <2>1 DEF Typed, CrystalType
    <2>4. Needed(g) \in Nat
        BY SharesAreFinite
    <2> QED  BY <2>1, <2>2, <2>3, <2>4
<1> QED  BY <1>1, AccountsAlways, PTL


-----------------------------------------------------------------------------
(* Calm is kept: what every step has in common.                            *)

\* Calm once lost is never found again, and neither is a missed lookup undone.
Calmer ==
    /\ overlapped => overlapped'
    /\ bypassed => bypassed'
    /\ used \subseteq used'

LEMMA CalmBefore ==
    ASSUME Calmer, Calm'
    PROVE  Calm
BY DEF Calmer, Calm

LEMMA LowBefore ==
    ASSUME Calmer, crystal' = crystal, Low'
    PROVE  Low
BY DEF Calmer, Low

(* The call that takes a step is the only one in flight.                   *)
LEMMA Alone ==
    ASSUME CalmInv, Calm, NEW c \in Caller, pc[c] # "idle",
           NEW d \in Caller \ {c}
    PROVE  pc[d] = "idle"
BY DEF CalmInv, OneAtATime, Calm

LEMMA IdleFits ==
    ASSUME NEW d \in Caller, pc'[d] = "idle"
    PROVE  CallFits(d)'
BY DEF CallFits

LEMMA StaysAlone ==
    ASSUME Typed, CalmInv, NEW c \in Caller, NEW l \in Places, Goto(c, l),
           pc[c] # "idle", overlapped' = overlapped
    PROVE  OneAtATime'
<1>1. \A d \in Caller \ {c} : pc'[d] = pc[d]
    BY Going
<1>2. ASSUME ~overlapped', NEW d \in Caller, pc'[d] # "idle" PROVE d = c
    BY <1>1, <1>2 DEF CalmInv, OneAtATime
<1> QED  BY <1>2 DEF OneAtATime

LEMMA SameSeedFits ==
    ASSUME OneSeed, Calmer, seeds' = seeds, crystal' = crystal
    PROVE  OneSeed'
<1>1. Low' => Low
    BY LowBefore
<1> QED  BY <1>1 DEF OneSeed

(* The table holds the one row it was given.                               *)
LEMMA OneRowFits ==
    ASSUME NEW row, seeds' = <<row>>, Follows(row, crystal'), Low' => Dull(row, crystal')
    PROVE  OneSeed'
<1>1. Len(<<row>>) = 1 /\ DOMAIN <<row>> = {1} /\ <<row>>[1] = row /\ <<row>> # <<>>
    OBVIOUS
<1>2. Len(seeds') <= 1 /\ seeds' # <<>>
    BY <1>1
<1>3. ASSUME NEW i \in DOMAIN seeds' PROVE seeds'[i] = row
    BY <1>1
<1> QED  BY <1>2, <1>3 DEF OneSeed

(* All spellings are one.                                                  *)
LEMMA OneSpelling ==
    ASSUME Calm, NEW s \in used, NEW t \in used
    PROVE  s = t
BY DEF Calm

(* The call that took the step fits; the others are idle.                  *)
LEMMA CallsFit ==
    ASSUME Typed, CalmInv, Calm, NEW c \in Caller, NEW l \in Places, Goto(c, l),
           pc[c] # "idle", CallFits(c)'
    PROVE  \A d \in Caller : CallFits(d)'
<1> SUFFICES ASSUME NEW d \in Caller PROVE CallFits(d)'
    OBVIOUS
<1>1. CASE d = c
    BY <1>1
<1>2. CASE d # c
    <2>1. pc'[d] = "idle"
        BY <1>2, Going, Alone
    <2> QED  BY <2>1, IdleFits
<1> QED  BY <1>1, <1>2

-----------------------------------------------------------------------------
(* Calm is kept: each action.                                              *)

\* A cast evaluated under a low ceiling is looked up, and not coherent.
Lookup(s, adjusted) ==
    bypassed' \/ crystal = NoCrystal \/ (bypassed' = bypassed /\ adjusted <= CeilingInForce(s))

LEMMA BeginKeepsCalm ==
    ASSUME Typed, CalmInv, NEW c \in Caller, NEW s, NEW adjusted \in 0 .. 100,
           Begin(c, s, adjusted), bypassed => bypassed', Lookup(s, adjusted)
    PROVE  CalmInv'
<1>1. /\ pc[c] = "idle" /\ Goto(c, "query") /\ s \in spellings
      /\ work'[c].seed = NoSeed /\ work'[c].spelling = s /\ work'[c].adjusted = adjusted
      /\ \A d \in Caller \ {c} : work'[d] = work[d]
      /\ UNCHANGED <<seeds, crystal, spellings, used>>
      /\ overlapped' = (overlapped \/ \E d \in Caller : pc[d] # "idle")
    BY BeginWork
<1>2. pc'[c] = "query" /\ \A d \in Caller \ {c} : pc'[d] = pc[d]
    BY <1>1, Going DEF Places
<1>3. ASSUME ~overlapped', NEW d \in Caller \ {c} PROVE pc'[d] = "idle"
    BY <1>1, <1>2, <1>3
<1>4. OneAtATime'
    BY <1>3 DEF OneAtATime
<1>5. Spelt'
    <2>1. Spelt
        BY DEF CalmInv
    <2>2. s \in used
        BY <1>1, <2>1 DEF Spelt
    <2>3. ASSUME NEW d \in Caller
          PROVE  /\ pc'[d] = "query" => work'[d].spelling \in used
                 /\ Writing(d)' => work'[d].seed.spelling \in used
        <3>1. CASE d = c
            BY <1>1, <1>2, <2>2, <3>1 DEF Writing
        <3>2. CASE d # c
            BY <1>1, <1>2, <2>1, <3>2 DEF Writing, Spelt
        <3> QED  BY <3>1, <3>2
    <2> QED  BY <1>1, <2>1, <2>3 DEF Spelt, Writing
<1>6. Calmer
    BY <1>1 DEF Calmer
<1>7. ASSUME Calm' PROVE OneSeed' /\ \A d \in Caller : CallFits(d)'
    <2>1. Calm
        BY <1>6, <1>7, CalmBefore
    <2>2. OneSeed'
        BY <1>1, <1>6, <2>1, SameSeedFits DEF CalmInv
    <2>3. ASSUME Low' PROVE adjusted < Coherent
        <3>1. Low
            BY <1>1, <1>6, <2>3, LowBefore
        <3>2. adjusted <= CeilingInForce(s)
            BY <1>1, <2>3 DEF Low, Lookup
        <3>3. s \in used /\ crystal.spelling \in used
            BY <1>1, <3>1 DEF CalmInv, Spelt, Low
        <3>4. crystal.spelling = s
            BY <2>1, <3>3, OneSpelling
        <3>5. CeilingInForce(s) = crystal.ceiling
            BY <3>1, <3>4 DEF CeilingInForce, Found, Low
        <3>6. crystal.ceiling \in 0 .. 100 /\ crystal.ceiling < Coherent
            BY <3>1 DEF Typed, CrystalType, Low
        <3> QED  BY <3>2, <3>5, <3>6 DEF Coherent
    <2>4. CallFits(c)'
        BY <1>1, <1>2, <2>3 DEF CallFits
    <2>5. ASSUME NEW d \in Caller PROVE CallFits(d)'
        <3>1. CASE d = c
            BY <2>4, <3>1
        <3>2. CASE d # c
            <4>1. pc'[d] = "idle"
                BY <1>3, <1>7, <3>2 DEF Calm
            <4> QED  BY <4>1, IdleFits
        <3> QED  BY <3>1, <3>2
    <2> QED  BY <2>2, <2>5
<1> QED  BY <1>4, <1>5, <1>7 DEF CalmInv

LEMMA ForgetKeepsCalm ==
    ASSUME Typed, CalmInv, NEW c \in Caller, Forget(c)
    PROVE  CalmInv'
<1>1. /\ UNCHANGED <<seeds, crystal, spellings, used, evaluated, overlapped, bypassed>>
      /\ pc[c] # "idle" /\ Goto(c, "idle") /\ work' = [work EXCEPT ![c] = NoWork]
    BY DEF Forget, tables
<1>2. /\ pc'[c] = "idle" /\ \A d \in Caller \ {c} : pc'[d] = pc[d]
      /\ \A d \in Caller \ {c} : work'[d] = work[d]
    <2>1. work \in [Caller -> WorkType]
        BY DEF Typed
    <2> QED  BY <1>1, <2>1, Going DEF Places
<1>3. OneAtATime'
    BY <1>1, StaysAlone DEF Places
<1>4. Spelt'
    <2>1. Spelt
        BY DEF CalmInv
    <2>2. ASSUME NEW d \in Caller
          PROVE  /\ pc'[d] = "query" => work'[d].spelling \in used
                 /\ Writing(d)' => work'[d].seed.spelling \in used
        <3>1. CASE d = c
            BY <1>2, <3>1 DEF Writing
        <3>2. CASE d # c
            BY <1>2, <2>1, <3>2 DEF Writing, Spelt
        <3> QED  BY <3>1, <3>2
    <2> QED  BY <1>1, <2>1, <2>2 DEF Spelt, Writing
<1>5. Calmer
    BY <1>1 DEF Calmer
<1>6. ASSUME Calm' PROVE OneSeed' /\ \A d \in Caller : CallFits(d)'
    <2>1. Calm
        BY <1>5, <1>6, CalmBefore
    <2>2. OneSeed'
        BY <1>1, <1>5, <2>1, SameSeedFits DEF CalmInv
    <2>3. CallFits(c)'
        BY <1>2, IdleFits
    <2> QED  BY <1>1, <2>1, <2>2, <2>3, CallsFit DEF Places
<1> QED  BY <1>3, <1>4, <1>6 DEF CalmInv

LEMMA RestartKeepsCalm ==
    ASSUME Typed, CalmInv, Restart
    PROVE  CalmInv'
<1>1. /\ UNCHANGED <<seeds, crystal, evaluated, overlapped, bypassed>>
      /\ used' = used \cup spellings' /\ \A d \in Caller : pc'[d] = "idle"
    BY DEF Restart, tables
<1>2. OneAtATime'
    BY <1>1 DEF OneAtATime
<1>3. Spelt'
    BY <1>1 DEF CalmInv, Spelt, Writing
<1>4. Calmer
    BY <1>1 DEF Calmer
<1>5. ASSUME Calm' PROVE OneSeed' /\ \A d \in Caller : CallFits(d)'
    <2>1. Calm
        BY <1>4, <1>5, CalmBefore
    <2>2. OneSeed'
        BY <1>1, <1>4, <2>1, SameSeedFits DEF CalmInv
    <2> QED  BY <1>1, <2>2, IdleFits
<1> QED  BY <1>2, <1>3, <1>5 DEF CalmInv


(* The one row of the pattern is what the cast is accumulated into.        *)
LEMMA AccumulateKeepsCalm ==
    ASSUME Accounts, CalmInv, NEW c \in Caller, Accumulate(c)
    PROVE  CalmInv'
<1>1. Typed /\ Spelt
    BY DEF Accounts, CalmInv
<1>2. /\ UNCHANGED <<seeds, crystal, spellings, used, evaluated, overlapped, bypassed>>
      /\ pc[c] = "query" /\ pc[c] # "idle"
    BY DEF Accumulate, tables
<1>3. PICK l \in {"row", "seed"} : Goto(c, l)
    BY AccumulateWork
<1>4. /\ l \in Places /\ pc'[c] = l /\ \A d \in Caller \ {c} : pc'[d] = pc[d]
      /\ \A d \in Caller \ {c} : work'[d] = work[d]
    <2>1. l \in Places
        BY DEF Places
    <2>2. \A d \in Caller \ {c} : work'[d] = work[d]
        BY AccumulateWork
    <2> QED  BY <1>1, <1>3, <2>1, <2>2, Going
<1>5. OneAtATime'
    BY <1>1, <1>2, <1>3, <1>4, StaysAlone
<1>6. work[c].spelling \in used
    BY <1>1, <1>2 DEF Spelt
<1>7. Goto(c, "row") => pc'[c] = "row"
    BY <1>1, Going DEF Places
<1>8. Goto(c, "seed") => pc'[c] = "seed"
    BY <1>1, Going DEF Places
<1>9. pc'[c] = "seed" =>
        \E new \in SeedType :
            /\ work'[c].seed = new
            /\ new.spelling = work[c].spelling
            /\ new.id = SeedOf(work[c]).id
            /\ new.generation = SeedOf(work[c]).generation
            /\ work[c].adjusted < Coherent => new.coherent = SeedOf(work[c]).coherent
    BY <1>7, AccumulateWork
<1>10. Spelt'
    <2>1. ASSUME NEW d \in Caller
          PROVE  /\ pc'[d] = "query" => work'[d].spelling \in used
                 /\ Writing(d)' => work'[d].seed.spelling \in used
        <3>1. CASE d = c
            BY <1>4, <1>6, <1>9, <3>1 DEF Writing
        <3>2. CASE d # c
            BY <1>1, <1>4, <3>2 DEF Writing, Spelt
        <3> QED  BY <3>1, <3>2
    <2> QED  BY <1>1, <1>2, <2>1 DEF Spelt, Writing
<1>11. Calmer
    BY <1>2 DEF Calmer
<1>12. ASSUME Calm' PROVE OneSeed' /\ \A d \in Caller : CallFits(d)'
    <2>1. Calm
        BY <1>11, <1>12, CalmBefore
    <2>2. OneSeed /\ OneSeed' /\ (Low' => Low)
        BY <1>2, <1>11, <2>1, SameSeedFits, LowBefore DEF CalmInv
    <2>3. CASE l = "row"
        <3>1. CallFits(c)'
            BY <1>4, <2>3 DEF CallFits
        <3> QED  BY <1>1, <1>2, <1>3, <1>4, <2>1, <2>2, <3>1, CallsFit
    <2>4. CASE l = "seed"
        <3>1. PICK w \in WorkType : w = work[c]
            BY <1>1 DEF Typed
        <3>2. PICK new \in SeedType :
                 /\ work'[c].seed = new
                 /\ new.id = SeedOf(w).id
                 /\ new.generation = SeedOf(w).generation
                 /\ w.adjusted < Coherent => new.coherent = SeedOf(w).coherent
            BY <1>4, <1>9, <2>4, <3>1
        <3>3. Low => w.adjusted < Coherent
            BY <1>2, <2>1, <3>1 DEF CalmInv, CallFits
        <3>4. ASSUME NEW i \in DOMAIN seeds PROVE seeds[i].spelling = w.spelling
            <4>1. seeds[i].spelling \in used
                BY <1>1 DEF Spelt
            <4> QED  BY <1>6, <2>1, <3>1, <4>1, OneSpelling
        <3>5. Len(seeds) <= 1
            BY <2>2 DEF OneSeed
        <3>6. CASE seeds = <<>> /\ SeedOf(w).generation = 1 /\ SeedOf(w).coherent = 0
            <4>1. crystal = NoCrystal /\ ~Low
                BY <2>2, <3>6 DEF OneSeed, Low
            <4>2. DOMAIN seeds = {}
                BY <3>6
            <4>3. Follows(new, crystal)
                BY <3>2, <3>6, <4>1 DEF Follows
            <4>4. CallFits(c)'
                BY <1>2, <1>4, <2>2, <2>4, <3>2, <4>1, <4>2, <4>3 DEF CallFits
            <4> QED  BY <1>1, <1>2, <1>3, <1>4, <2>1, <2>2, <4>4, CallsFit
        <3>7. CASE DOMAIN seeds = {1} /\ SeedOf(w) = seeds[1]
            <4>1. Follows(seeds[1], crystal) /\ (Low => Dull(seeds[1], crystal))
                <5>1. 1 \in DOMAIN seeds
                    BY <3>7
                <5>2. \A i \in DOMAIN seeds : /\ Follows(seeds[i], crystal)
                                              /\ Low => Dull(seeds[i], crystal)
                    BY <2>2 DEF OneSeed
                <5> QED  BY <5>1, <5>2, Zenon
            <4>2. Follows(new, crystal)
                BY <3>2, <3>7, <4>1 DEF Follows
            <4>3. Low => Dull(new, crystal)
                BY <3>2, <3>3, <3>7, <4>1 DEF Dull
            <4>4. \A i \in DOMAIN seeds : seeds[i].id = new.id
                BY <3>2, <3>7
            <4>5. CallFits(c)'
                BY <1>2, <1>4, <2>2, <2>4, <3>2, <4>2, <4>3, <4>4 DEF CallFits
            <4> QED  BY <1>1, <1>2, <1>3, <1>4, <2>1, <2>2, <4>5, CallsFit
        <3> QED  BY <1>1, <3>4, <3>5, <3>6, <3>7, SeedOfOneRow
    <2> QED  BY <2>3, <2>4
<1> QED  BY <1>5, <1>10, <1>12 DEF CalmInv

(* What is written is spelt as the seed in hand.                           *)
LEMMA WritingKeepsSpelling ==
    ASSUME Typed, Spelt, NEW c \in Caller, NEW l \in Places \ {"query"}, Goto(c, l), Writing(c),
           UNCHANGED <<spellings, used, work>>,
           \A i \in DOMAIN seeds' : seeds'[i].spelling \in used,
           crystal' # NoCrystal => crystal'.spelling \in used
    PROVE  Spelt'
<1>1. pc'[c] = l /\ \A d \in Caller \ {c} : pc'[d] = pc[d]
    BY Going
<1>2. ASSUME NEW d \in Caller
      PROVE  /\ pc'[d] = "query" => work'[d].spelling \in used
             /\ Writing(d)' => work'[d].seed.spelling \in used
    <2>1. CASE d = c
        BY <1>1, <2>1 DEF Writing, Spelt
    <2>2. CASE d # c
        BY <1>1, <2>2 DEF Writing, Spelt
    <2> QED  BY <2>1, <2>2
<1> QED  BY <1>2 DEF Spelt, Writing

LEMMA WriteSeedKeepsCalm ==
    ASSUME Accounts, CalmInv, NEW c \in Caller, WriteSeed(c)
    PROVE  CalmInv'
<1>1. Typed /\ Spelt
    BY DEF Accounts, CalmInv
<1>2. /\ pc[c] = "seed" /\ pc[c] # "idle" /\ Writing(c) /\ seeds' = Replaced(work[c].seed)
      /\ UNCHANGED <<crystal, spellings, used, evaluated, overlapped, bypassed, work>>
    BY DEF WriteSeed, Writing
<1>3. PICK l \in {"crystal", "row"} : Goto(c, l)
    BY DEF WriteSeed
<1>4. l \in Places /\ l \in Places \ {"query"} /\ pc'[c] = l
    <2>1. l \in Places /\ l \in Places \ {"query"}
        BY DEF Places
    <2> QED  BY <1>1, <1>3, <2>1, Going
<1>5. PICK row \in SeedType : row = work[c].seed
    BY <1>2, WriterHasRow
<1>6. /\ seeds \in Seq(SeedType) /\ seeds' = Replaced(row)
      /\ \A i \in DOMAIN seeds' : \/ seeds'[i] = row
                                  \/ \E j \in DOMAIN seeds : seeds'[i] = seeds[j]
    <2>1. seeds \in Seq(SeedType) /\ seeds' = Replaced(row)
        BY <1>1, <1>2, <1>5 DEF Typed
    <2> QED  BY <2>1, Replacing
<1>7. OneAtATime'
    BY <1>1, <1>2, <1>3, <1>4, StaysAlone
<1>8. Spelt'
    <2>1. row.spelling \in used
        BY <1>1, <1>2, <1>5 DEF Spelt
    <2>2. \A i \in DOMAIN seeds' : seeds'[i].spelling \in used
        BY <1>1, <1>6, <2>1 DEF Spelt
    <2>3. crystal' # NoCrystal => crystal'.spelling \in used
        BY <1>1, <1>2 DEF Spelt
    <2> QED  BY <1>1, <1>2, <1>3, <1>4, <2>2, <2>3, WritingKeepsSpelling
<1>9. Calmer
    BY <1>2 DEF Calmer
<1>10. ASSUME Calm' PROVE OneSeed' /\ \A d \in Caller : CallFits(d)'
    <2>1. Calm /\ (Low' => Low)
        BY <1>2, <1>9, <1>10, CalmBefore, LowBefore
    <2>2. /\ Follows(row, crystal) /\ (Low => Dull(row, crystal))
          /\ \A i \in DOMAIN seeds : seeds[i].id = row.id
        BY <1>2, <1>5, <2>1 DEF CalmInv, CallFits
    <2>3. Len(seeds) <= 1
        BY <2>1 DEF CalmInv, OneSeed
    <2>4. seeds' = <<row>>
        BY <1>6, <2>2, <2>3, Replacing
    <2>5. OneSeed'
        BY <1>2, <2>1, <2>2, <2>4, OneRowFits
    <2>6. CallFits(c)'
        BY <1>2, <1>4, <1>5, <2>4 DEF CallFits
    <2> QED  BY <1>1, <1>2, <1>3, <1>4, <2>1, <2>5, <2>6, CallsFit
<1> QED  BY <1>7, <1>8, <1>10 DEF CalmInv

(* The seed in the table is the one in hand, and gives the sigil its       *)
(* generation.                                                             *)
LEMMA WriteCrystalKeepsCalm ==
    ASSUME Accounts, CalmInv, NEW c \in Caller, WriteCrystal(c)
    PROVE  CalmInv'
<1>1. Typed /\ Spelt
    BY DEF Accounts, CalmInv
<1>2. /\ pc[c] = "crystal" /\ pc[c] # "idle" /\ Writing(c) /\ Goto(c, "reset")
      /\ UNCHANGED <<seeds, spellings, used, evaluated, overlapped, bypassed, work>>
    BY DEF WriteCrystal, Writing
<1>3. /\ "reset" \in Places /\ "reset" \in Places \ {"query"} /\ pc'[c] = "reset"
    <2>1. "reset" \in Places /\ "reset" \in Places \ {"query"}
        BY DEF Places
    <2> QED  BY <1>1, <1>2, <2>1, Going
<1>4. PICK row \in SeedType : row = work[c].seed
    BY <1>2, WriterHasRow
<1>5. /\ crystal'.spelling = row.spelling /\ crystal'.generation = row.generation
      /\ crystal' # NoCrystal
    <2>1. crystal' = [spelling |-> row.spelling, generation |-> row.generation,
                      ceiling |-> CeilingOf(row)]
        BY <1>4 DEF WriteCrystal
    <2>2. "generation" \in DOMAIN crystal'
        BY <2>1
    <2>3. DOMAIN NoCrystal = {}
        BY DEF NoCrystal
    <2> QED  BY <2>1, <2>2, <2>3
<1>6. OneAtATime'
    BY <1>1, <1>2, <1>3, StaysAlone
<1>7. Spelt'
    <2>1. row.spelling \in used
        BY <1>1, <1>2, <1>4 DEF Spelt
    <2>2. \A i \in DOMAIN seeds' : seeds'[i].spelling \in used
        BY <1>1, <1>2 DEF Spelt
    <2> QED  BY <1>1, <1>2, <1>3, <1>5, <2>1, <2>2, WritingKeepsSpelling
<1>8. Calmer
    BY <1>2 DEF Calmer
<1>9. ASSUME Calm' PROVE OneSeed' /\ \A d \in Caller : CallFits(d)'
    <2>1. Calm
        BY <1>8, <1>9, CalmBefore
    <2>2. seeds' = <<row>>
        BY <1>2, <1>4, <2>1 DEF CalmInv, CallFits
    <2>3. Follows(row, crystal')
        BY <1>5 DEF Follows
    <2>4. Dull(row, crystal')
        <3>1. row.generation # row.generation + 1
            BY DEF SeedType
        <3> QED  BY <1>5, <3>1 DEF Dull
    <2>5. OneSeed'
        BY <2>2, <2>3, <2>4, OneRowFits
    <2>6. CallFits(c)'
        BY <1>2, <1>3, <1>4, <1>5, <2>2 DEF CallFits
    <2> QED  BY <1>1, <1>2, <1>3, <2>1, <2>5, <2>6, CallsFit
<1> QED  BY <1>6, <1>7, <1>9 DEF CalmInv

LEMMA ResetKeepsCalm ==
    ASSUME Accounts, CalmInv, NEW c \in Caller, Reset(c)
    PROVE  CalmInv'
<1>1. Typed /\ Spelt /\ Spent \in Nat
    BY DEF Accounts, CalmInv, SpentIsEnough
<1>2. /\ pc[c] = "reset" /\ pc[c] # "idle" /\ Writing(c) /\ Goto(c, "row")
      /\ seeds' = Replaced(ResetSeed(work[c].seed))
      /\ UNCHANGED <<crystal, spellings, used, evaluated, overlapped, bypassed, work>>
    BY DEF Reset, Writing
<1>3. "row" \in Places /\ "row" \in Places \ {"query"} /\ pc'[c] = "row"
    <2>1. "row" \in Places /\ "row" \in Places \ {"query"}
        BY DEF Places
    <2> QED  BY <1>1, <1>2, <2>1, Going
<1>4. PICK row \in SeedType : row = work[c].seed /\ Honest(row, Spent) /\ Mature(row)
    BY <1>2, WriterHasRow
<1>5. PICK new \in SeedType :
        /\ new = ResetSeed(row) /\ new.id = row.id /\ new.spelling = row.spelling
        /\ new.generation = row.generation + 1 /\ new.coherent = 0
    BY <1>1, <1>4, ResetKeepsAccount
<1>6. /\ seeds \in Seq(SeedType) /\ seeds' = Replaced(new)
      /\ \A i \in DOMAIN seeds' : \/ seeds'[i] = new
                                  \/ \E j \in DOMAIN seeds : seeds'[i] = seeds[j]
    <2>1. seeds \in Seq(SeedType) /\ seeds' = Replaced(new)
        BY <1>1, <1>2, <1>4, <1>5 DEF Typed
    <2> QED  BY <2>1, Replacing
<1>7. OneAtATime'
    BY <1>1, <1>2, <1>3, StaysAlone
<1>8. Spelt'
    <2>1. new.spelling \in used
        BY <1>1, <1>2, <1>4, <1>5 DEF Spelt
    <2>2. \A i \in DOMAIN seeds' : seeds'[i].spelling \in used
        BY <1>1, <1>6, <2>1 DEF Spelt
    <2>3. crystal' # NoCrystal => crystal'.spelling \in used
        BY <1>1, <1>2 DEF Spelt
    <2> QED  BY <1>1, <1>2, <1>3, <2>2, <2>3, WritingKeepsSpelling
<1>9. Calmer
    BY <1>2 DEF Calmer
<1>10. ASSUME Calm' PROVE OneSeed' /\ \A d \in Caller : CallFits(d)'
    <2>1. Calm
        BY <1>9, <1>10, CalmBefore
    <2>2. /\ seeds = <<row>> /\ crystal # NoCrystal
          /\ row.generation = crystal.generation
        BY <1>2, <1>4, <2>1 DEF CalmInv, CallFits
    <2>3. Len(seeds) <= 1 /\ \A i \in DOMAIN seeds : seeds[i].id = new.id
        BY <1>5, <2>2
    <2>4. seeds' = <<new>>
        BY <1>6, <2>3, Replacing
    <2>5. Follows(new, crystal') /\ Dull(new, crystal')
        BY <1>2, <1>5, <2>2 DEF Follows, Dull
    <2>6. OneSeed'
        BY <2>4, <2>5, OneRowFits
    <2>7. CallFits(c)'
        BY <1>3 DEF CallFits
    <2> QED  BY <1>1, <1>2, <1>3, <2>1, <2>6, <2>7, CallsFit
<1> QED  BY <1>7, <1>8, <1>10 DEF CalmInv


-----------------------------------------------------------------------------

LEMMA InitCalm == Init => CalmInv
<1> SUFFICES ASSUME Init PROVE CalmInv
    OBVIOUS
<1>1. \A c \in Caller : pc[c] = "idle"
    BY DEF Init
<1>2. seeds = <<>> /\ DOMAIN seeds = {} /\ Len(seeds) = 0
    BY DEF Init
<1>3. crystal = NoCrystal /\ spellings \subseteq used
    BY DEF Init
<1>4. OneAtATime /\ Spelt
    BY <1>1, <1>2, <1>3 DEF OneAtATime, Spelt, Writing
<1>5. OneSeed
    <2>1. Len(seeds) <= 1
        BY <1>2
    <2> QED  BY <1>2, <1>3, <2>1 DEF OneSeed
<1>6. \A c \in Caller : CallFits(c)
    BY <1>1 DEF CallFits
<1> QED  BY <1>4, <1>5, <1>6 DEF CalmInv

(* A plain cast is evaluated under the ceiling it finds.                   *)
LEMMA EvaluateBegins ==
    ASSUME Typed, NEW c \in Caller, NEW s, Evaluate(c, s)
    PROVE  \E adjusted \in 0 .. 100 :
              Begin(c, s, adjusted) /\ Lookup(s, adjusted) /\ bypassed' = bypassed
<1>1. CeilingInForce(s) \in 0 .. 100
    BY CeilingIsInRange
<1>2. PICK adjusted \in Evaluations(CeilingInForce(s)) : Begin(c, s, adjusted)
    BY DEF Evaluate
<1>3. adjusted \in 0 .. 100 /\ adjusted <= CeilingInForce(s)
    BY <1>1, EvaluationsArePercents
<1>4. bypassed' = bypassed
    BY DEF Evaluate
<1> QED  BY <1>2, <1>3, <1>4 DEF Lookup

(* A chained or a fluid cast of a crystallized pattern is noted.           *)
LEMMA EvaluateAnewBegins ==
    ASSUME Typed, NEW c \in Caller, NEW s, EvaluateAnew(c, s)
    PROVE  \E adjusted \in 0 .. 100 :
              Begin(c, s, adjusted) /\ Lookup(s, adjusted) /\ (bypassed => bypassed')
<1>1. PICK adjusted \in Evaluations(BaseCeiling) : Begin(c, s, adjusted)
    BY DEF EvaluateAnew
<1>2. adjusted \in 0 .. 100
    BY GlyphAssumption, EvaluationsArePercents
<1>3. bypassed' = (bypassed \/ crystal # NoCrystal)
    BY DEF EvaluateAnew
<1> QED  BY <1>1, <1>2, <1>3 DEF Lookup

LEMMA NextKeepsCalm == Accounts /\ CalmInv /\ [Next]_vars => CalmInv'
<1> SUFFICES ASSUME Accounts, CalmInv, [Next]_vars PROVE CalmInv'
    OBVIOUS
<1>1. Typed
    BY DEF Accounts
<1>2. ASSUME NEW c \in Caller, NEW s, Evaluate(c, s) \/ EvaluateAnew(c, s) PROVE CalmInv'
    <2>1. PICK adjusted \in 0 .. 100 :
              Begin(c, s, adjusted) /\ Lookup(s, adjusted) /\ (bypassed => bypassed')
        BY <1>1, <1>2, EvaluateBegins, EvaluateAnewBegins
    <2> QED  BY <1>1, <2>1, BeginKeepsCalm
<1>3. ASSUME NEW c \in Caller, WriteCast(c) \/ Fail(c) PROVE CalmInv'
    <2>1. Forget(c)
        BY <1>3 DEF WriteCast, Fail, Forget
    <2> QED  BY <1>1, <2>1, ForgetKeepsCalm
<1>4. ASSUME UNCHANGED vars PROVE CalmInv'
    <2>1. UNCHANGED <<seeds, crystal, spellings, used, evaluated, overlapped, bypassed, pc, work>>
        BY <1>4 DEF vars, tables
    <2>2. OneAtATime'
        BY <2>1 DEF CalmInv, OneAtATime
    <2>3. Spelt'
        BY <2>1 DEF CalmInv, Spelt, Writing
    <2>4. Calm' = Calm /\ Low' = Low
        BY <2>1 DEF Calm, Low
    <2>5. OneSeed => OneSeed'
        BY <2>1, <2>4 DEF OneSeed
    <2>6. \A c \in Caller : CallFits(c) => CallFits(c)'
        BY <2>1, <2>4 DEF CallFits
    <2> QED  BY <2>2, <2>3, <2>4, <2>5, <2>6 DEF CalmInv
<1>5. CASE Next
    <2>1. CASE Restart
        BY <1>1, <2>1, RestartKeepsCalm
    <2>2. ASSUME NEW c \in Caller, Step(c) PROVE CalmInv'
        BY <1>2, <1>3, <2>2, AccumulateKeepsCalm, WriteSeedKeepsCalm,
           WriteCrystalKeepsCalm, ResetKeepsCalm DEF Step
    <2> QED  BY <1>5, <2>1, <2>2 DEF Next
<1> QED  BY <1>4, <1>5

LEMMA CalmAlways == Spec => [](Accounts /\ CalmInv)
<1>1. Init => Accounts /\ CalmInv
    BY InitAccounts, InitCalm
<1>2. Accounts /\ CalmInv /\ [Next]_vars => (Accounts /\ CalmInv)'
    BY NextKeepsAccounts, NextKeepsCalm
<1> QED  BY <1>1, <1>2, PTL DEF Spec

(* While calls come one at a time and no process spells the pattern        *)
(* another way, there is one seed, and its generation is the sigil's or    *)
(* the next: also after calls and processes that died between two writes.  *)
THEOREM OneSeedFollows == Spec => []SeedFollowsCrystal
<1>1. CalmInv => SeedFollowsCrystal
    <2> SUFFICES ASSUME CalmInv, Calm
                 PROVE  /\ Len(seeds) <= 1
                        /\ \A i \in DOMAIN seeds : Follows(seeds[i], crystal)
        BY DEF SeedFollowsCrystal, Follows
    <2>1. OneSeed
        BY DEF CalmInv
    <2>2. \A i \in DOMAIN seeds : /\ Follows(seeds[i], crystal)
                                  /\ Low => Dull(seeds[i], crystal)
        BY <2>1 DEF OneSeed
    <2> QED  BY <2>1, <2>2 DEF OneSeed
<1> QED  BY <1>1, CalmAlways, PTL

LEMMA StepIsCalmer ==
    ASSUME Typed, [Next]_vars
    PROVE  Calmer
<1>1. ASSUME NEW c \in Caller, NEW s, NEW adjusted, Begin(c, s, adjusted),
             bypassed => bypassed'
      PROVE  Calmer
    BY <1>1 DEF Begin, Calmer
<1>2. ASSUME NEW c \in Caller, NEW s, Evaluate(c, s) \/ EvaluateAnew(c, s) PROVE Calmer
    <2>1. PICK adjusted \in 0 .. 100 : Begin(c, s, adjusted) /\ (bypassed => bypassed')
        BY <1>2, EvaluateBegins, EvaluateAnewBegins
    <2> QED  BY <1>1, <2>1
<1>3. ASSUME UNCHANGED <<used, overlapped, bypassed>> PROVE Calmer
    BY <1>3 DEF Calmer
<1>4. CASE Next
    <2>1. CASE Restart
        BY <2>1 DEF Restart, Calmer
    <2>2. ASSUME NEW c \in Caller, Step(c) PROVE Calmer
        BY <1>2, <1>3, <2>2
           DEF Step, Accumulate, WriteSeed, WriteCrystal, Reset, WriteCast, Fail
    <2> QED  BY <1>4, <2>1, <2>2 DEF Next
<1> QED  BY <1>3, <1>4 DEF vars, tables

(* A sigil that is written over a low one is of the same generation.       *)
LEMMA LowKeepsGeneration ==
    ASSUME Accounts, CalmInv, Calm, Low, NEW c \in Caller, WriteCrystal(c)
    PROVE  crystal'.generation = crystal.generation
<1>1. pc[c] = "crystal" /\ Writing(c)
    BY DEF WriteCrystal, Writing
<1>2. PICK row \in SeedType : row = work[c].seed /\ Mature(row)
    BY <1>1, WriterHasRow
<1>3. seeds = <<row>> /\ OneSeed
    BY <1>1, <1>2 DEF CalmInv, CallFits
<1>4. Follows(row, crystal) /\ Dull(row, crystal)
    <2>1. 1 \in DOMAIN seeds /\ seeds[1] = row
        BY <1>3
    <2>2. \A i \in DOMAIN seeds : Follows(seeds[i], crystal) /\ (Low => Dull(seeds[i], crystal))
        BY <1>3 DEF OneSeed
    <2>3. Follows(seeds[1], crystal) /\ (Low => Dull(seeds[1], crystal))
        BY <2>1, <2>2, Zenon
    <2> QED  BY <2>1, <2>3, Zenon
<1>5. row.generation \in {crystal.generation, crystal.generation + 1}
    BY <1>4 DEF Follows, Low
<1>6. row.coherent # 0
    <2>1. row.coherent > 0 /\ row.coherent \in Nat
        BY <1>2, MatureTookAll DEF SeedType
    <2> QED  BY <2>1
<1>7. row.generation = crystal.generation
    BY <1>4, <1>5, <1>6 DEF Dull
<1>8. crystal'.generation = row.generation
    BY <1>2 DEF WriteCrystal
<1> QED  BY <1>7, <1>8

(* Only a sigil's own write changes it.                                    *)
LEMMA SigilStays ==
    ASSUME [Next]_vars, \A c \in Caller : ~WriteCrystal(c)
    PROVE  crystal' = crystal
<1>1. CASE Next
    <2>1. ASSUME NEW c \in Caller, Step(c) PROVE crystal' = crystal
        BY <2>1 DEF Step, Evaluate, EvaluateAnew, Begin, Accumulate, WriteSeed, Reset,
                    WriteCast, Fail, tables
    <2> QED  BY <1>1, <2>1 DEF Next, Restart, tables
<1> QED  BY <1>1 DEF vars, tables

(* In calm, and while every cast is looked up, a sigil below the coherent  *)
(* threshold is never followed by a next generation, since no cast of the  *)
(* pattern is coherent again.                                              *)
THEOREM LowIsFinal == Spec => LowCeilingIsFinal
<1>1. ASSUME Accounts, CalmInv, CalmInv', [Next]_vars,
             Calm', ~bypassed', crystal # NoCrystal, crystal.ceiling < Coherent
      PROVE  /\ crystal'.generation = crystal.generation
             /\ \A c \in Caller : pc[c] = "idle" /\ pc'[c] = "query"
                                 => work'[c].adjusted < Coherent
    <2> DEFINE Stays == crystal'.generation = crystal.generation
               Dim == \A c \in Caller : pc[c] = "idle" /\ pc'[c] = "query"
                                        => work'[c].adjusted < Coherent
    <2>1. Typed
        BY <1>1 DEF Accounts
    <2>2. Calmer
        BY <1>1, <2>1, StepIsCalmer
    <2>3. Calm
        BY <1>1, <2>2, CalmBefore
    <2>4. Low
        BY <1>1, <2>2 DEF Calmer, Low
    <2>5. CASE \E c \in Caller : WriteCrystal(c)
        <3>1. PICK c \in Caller : WriteCrystal(c)
            BY <2>5
        <3>2. Stays
            BY <1>1, <2>3, <2>4, <3>1, LowKeepsGeneration
        <3>3. \A d \in Caller \ {c} : pc'[d] = pc[d]
            BY <2>1, <3>1, Going DEF WriteCrystal, Places
        <3>4. pc[c] = "crystal"
            BY <3>1 DEF WriteCrystal
        <3>5. Dim
            BY <3>3, <3>4
        <3> QED  BY <3>2, <3>5
    <2>6. CASE \A c \in Caller : ~WriteCrystal(c)
        <3>1. crystal' = crystal
            BY <1>1, <2>6, SigilStays
        <3>2. Low'
            BY <1>1, <3>1 DEF Low
        <3>3. ASSUME NEW c \in Caller, pc'[c] = "query"
              PROVE  work'[c].adjusted < Coherent
            <4>1. CallFits(c)'
                BY <1>1 DEF CalmInv
            <4> QED  BY <3>2, <3>3, <4>1 DEF CallFits
        <3> QED  BY <3>1, <3>3
    <2> QED  BY <2>5, <2>6
<1>2. Accounts /\ CalmInv /\ (Accounts /\ CalmInv)' /\ [Next]_vars => [LowStaysLow]_vars
    <2> SUFFICES ASSUME Accounts, CalmInv, CalmInv', [Next]_vars PROVE LowStaysLow
        OBVIOUS
    <2> QED  BY <1>1 DEF LowStaysLow
<1> QED  BY <1>2, CalmAlways, PTL DEF Spec, LowCeilingIsFinal
=============================================================================
