------------------------- MODULE TaskServiceProofs -------------------------
(***************************************************************************)
(* Theorems about TaskService, for any threads, ids, models and keys, any  *)
(* payloads behind the keys and any number of restarts.                    *)
(*                                                                         *)
(* Each tool is safe as long as its calls come one at a time, and mixed,   *)
(* crossed and troubled record that they did not; the invariants say what  *)
(* a frame is worth until then, and what it is worth in any case.          *)
(***************************************************************************)
EXTENDS TaskService, FiniteSetTheorems, TLAPS

-----------------------------------------------------------------------------
(* The decide tool.                                                        *)

\* The model a call that asks for m is to be decided by.
Wanted(m) == IF m = NoModel THEN Base ELSE m

Deciding(c) == deciding[c].at # "idle"
InWindow(c) == deciding[c].at \in {"swap", "evaluate", "name", "restore"}

\* What a frame has come to, whatever other calls do.
DecideFrame(c) ==
    /\ Deciding(c) => deciding[c].id \in Id
    /\ deciding[c].at = "swap" => deciding[c].asked # NoModel
    /\ deciding[c].at \in {"swap", "evaluate", "name"} => deciding[c].named = NoModel
    /\ deciding[c].at \in {"evaluate", "name"} => deciding[c].asked # Unknown
    /\ deciding[c].at = "name" => deciding[c].by \in Model
    /\ \/ deciding[c].at = "restore" /\ deciding[c].named # NoModel
       \/ deciding[c].at \in {"writecast", "writedecision"}
       => /\ deciding[c].asked # Unknown
          /\ deciding[c].by \in Model /\ deciding[c].named \in Model
    /\ deciding[c].at \in {"writedecision", "returned"} => deciding[c].id \in casts
    /\ deciding[c].at = "returned" => \E d \in decisions : d.id = deciding[c].id

\* What it is worth while no call that asks for a model has overlapped another.
DecideCalm(c) ==
    /\ InWindow(c) => deciding[c].previous = Base
    /\ deciding[c].at = "swap" \/ (InWindow(c) /\ deciding[c].asked = NoModel)
          => model = Base
    /\ deciding[c].at \in {"evaluate", "name"} => model = Wanted(deciding[c].asked)
    /\ deciding[c].at = "name" => deciding[c].by = Wanted(deciding[c].asked)
    /\ \/ deciding[c].at = "restore" /\ deciding[c].named # NoModel
       \/ deciding[c].at \in {"writecast", "writedecision"}
       => /\ deciding[c].by = Wanted(deciding[c].asked)
          /\ deciding[c].named = deciding[c].by

\* Then calls in the window together all go by the base model.
Windows ==
    /\ \A c, d \in Caller : InWindow(c) /\ InWindow(d) /\ c # d
          => deciding[c].asked = NoModel /\ deciding[d].asked = NoModel
    /\ (\A c \in Caller : ~InWindow(c)) => model = Base

DecideInv ==
    /\ D!TypeOK
    /\ \A c \in Caller : DecideFrame(c)
    /\ ~mixed => Windows /\ \A c \in Caller : DecideCalm(c)
    /\ DecidedAsAsked

-----------------------------------------------------------------------------
(* The execute tool.                                                       *)

Executing(c) == executing[c].at # "idle"
InFlight(c) == executing[c].at \notin {"idle", "returned", "raised"}

ProgramFrame(c) ==
    /\ Executing(c) => executing[c].id \in used
    /\ executing[c].at \in {"readreceipt", "writereceipt", "returned"}
          => executing[c].id \in executions
    /\ executing[c].at = "writereceipt" /\ executing[c].id \in lastReceipt
          => executing[c].id \in executing[c].receipt
    /\ executing[c].at = "returned" /\ executing[c].id \in lastReceipt
          => executing[c].id \in receipts

\* What a frame is worth while no two calls have been in flight together.
ProgramCalm(c) ==
    /\ executing[c].at \in {"writeexecution", "readreceipt"}
          => executing[c].id \in lastReceipt
    /\ executing[c].at = "writereceipt" => executing[c].id \in executing[c].receipt
    /\ executing[c].at = "returned" => executing[c].id \in receipts

ProgramInv ==
    /\ P!TypeOK
    /\ \A c \in Caller : ProgramFrame(c)
    /\ \A c, d \in Caller : Executing(c) /\ Executing(d) /\ c # d
          => executing[c].id # executing[d].id
    /\ ~crossed => /\ \A c, d \in Caller : InFlight(c) /\ InFlight(d) => c = d
                   /\ \A c \in Caller : ProgramCalm(c)

-----------------------------------------------------------------------------
(* The gateway.                                                            *)

\* What the answer i to a request for the skill refers to.
Backed(skill, i) ==
    IF skill = "decide"
    THEN i \in casts /\ \E d \in decisions : d.id = i
    ELSE i \in executions

Serves(c) ==
    /\ At(c, "idle") => request[c].key = NoKey
    /\ request[c].key # NoKey => request[c].skill = SkillOf(request[c].key)
    /\ At(c, "handler") =>
          /\ request[c].id \in used
          /\ request[c].skill = "decide" => /\ Deciding(c) /\ ~Executing(c)
                                            /\ deciding[c].id = request[c].id
          /\ request[c].skill # "decide" => /\ Executing(c) /\ ~Deciding(c)
                                            /\ executing[c].id = request[c].id
    /\ ~At(c, "handler") => ~Deciding(c) /\ ~Executing(c)
    /\ At(c, "store") => /\ request[c].id \in Id
                         /\ Backed(request[c].skill, request[c].id)

\* The attempts at a key come one at a time, and the first starts its handler.
OneAttempt(k) ==
    /\ \A c, d \in Caller : request[c].key = k /\ request[d].key = k => c = d
    /\ \A c \in Caller : request[c].key = k /\ At(c, "checked") => runs[k] = {}
    /\ store[k] = NoAnswer /\ (\A c \in Caller : request[c].key # k) => runs[k] = {}
    /\ \A i, j \in runs[k] : i = j

GatewayTyped ==
    /\ store \in [Key -> Id \cup {NoAnswer}]
    /\ request \in [Caller -> Request]
    /\ used \subseteq Id
    /\ runs \in [Key -> SUBSET Id]
    /\ troubled \subseteq Key
    /\ restarts \in 0 .. MaxRestarts

GatewayInv ==
    /\ GatewayTyped
    /\ \A c \in Caller : Serves(c)
    /\ StoredAnswersAreBacked
    /\ \A k \in Key \ troubled : OneAttempt(k)

IInv == DecideInv /\ ProgramInv /\ GatewayInv

-----------------------------------------------------------------------------
(* A step of one decide call.                                              *)

\* The frames of the other calls stay.
OnlyDecides(c) ==
    /\ deciding' \in [Caller -> D!Frame]
    /\ \A d \in Caller \ {c} : deciding'[d] = deciding[d]

LEMMA DecideBecomes ==
    ASSUME D!TypeOK, NEW c \in Caller, NEW f \in D!Frame, deciding' = [deciding EXCEPT ![c] = f]
    PROVE  OnlyDecides(c) /\ deciding'[c] = f
BY DEF D!TypeOK, OnlyDecides

LEMMA FramesAreRecords ==
    ASSUME D!TypeOK, NEW c \in Caller
    PROVE  /\ deciding[c] \in D!Frame
           /\ deciding[c].id \in Id \cup {0}
           /\ deciding[c].asked \in Model \cup {NoModel, Unknown}
           /\ deciding[c].previous \in Model
           /\ deciding[c].by \in Model \cup {NoModel}
           /\ deciding[c].named \in Model \cup {NoModel}
BY DEF D!TypeOK, D!Frame, D!Asked, D!NoId

LEMMA DecideMoves ==
    ASSUME D!TypeOK, NEW c \in Caller, NEW l \in D!Location, D!Move(c, l)
    PROVE  /\ OnlyDecides(c)
           /\ deciding'[c] = [deciding[c] EXCEPT !.at = l]
           /\ deciding'[c].at = l /\ deciding'[c].id = deciding[c].id
           /\ deciding'[c].asked = deciding[c].asked
           /\ deciding'[c].previous = deciding[c].previous
           /\ deciding'[c].by = deciding[c].by /\ deciding'[c].named = deciding[c].named
<1> DEFINE f == [deciding[c] EXCEPT !.at = l]
<1>1. deciding[c] \in D!Frame
    BY FramesAreRecords
<1>2. /\ f \in D!Frame /\ f.at = l /\ f.id = deciding[c].id /\ f.asked = deciding[c].asked
      /\ f.previous = deciding[c].previous /\ f.by = deciding[c].by
      /\ f.named = deciding[c].named
    BY <1>1 DEF D!Frame
<1>3. deciding' = [deciding EXCEPT ![c] = f]
    BY DEF D!Move
<1> HIDE DEF f
<1>4. OnlyDecides(c) /\ deciding'[c] = f
    BY <1>2, <1>3, DecideBecomes
<1> QED BY <1>2, <1>4 DEF f

\* What the tables of the others are worth can only grow.
LEMMA OtherFramesHold ==
    ASSUME DecideInv, NEW c \in Caller, OnlyDecides(c),
           casts \subseteq casts', decisions \subseteq decisions'
    PROVE  \A d \in Caller \ {c} : DecideFrame(d)'
<1> TAKE d \in Caller \ {c}
<1>1. deciding'[d] = deciding[d] /\ DecideFrame(d)
    BY DEF DecideInv, OnlyDecides
<1> QED BY <1>1 DEF DecideFrame, Deciding

\* A step other than Begin, while calls are calm: it may change the model only
\* when it leaves the other calls in the window, if any, the base model, and
\* it leaves the window with the base model in force.
LEMMA OthersStayCalm ==
    ASSUME DecideInv, ~mixed, NEW c \in Caller, OnlyDecides(c),
           InWindow(c)' => InWindow(c) /\ deciding'[c].asked = deciding[c].asked,
           \/ model' = model
           \/ InWindow(c) /\ \A d \in Caller \ {c} : InWindow(d) => model' = Base,
           InWindow(c) /\ ~InWindow(c)' => model' = Base
    PROVE  Windows' /\ \A d \in Caller \ {c} : DecideCalm(d)'
<1>0. Windows /\ \A d \in Caller : DecideCalm(d) /\ DecideFrame(d)
    BY DEF DecideInv
<1>1. \A d \in Caller : d # c => deciding'[d] = deciding[d]
    BY DEF OnlyDecides
<1>2. \A d \in Caller : d # c => (InWindow(d)' <=> InWindow(d))
    BY <1>1 DEF InWindow
<1>3. ASSUME NEW d \in Caller \ {c}
      PROVE  DecideCalm(d)'
    <2>1. deciding'[d] = deciding[d] /\ DecideCalm(d) /\ DecideFrame(d)
        BY <1>0, <1>1
    <2>2. CASE model' = model \/ ~InWindow(d)
        BY <2>1, <2>2 DEF DecideCalm, InWindow, Wanted
    <2>3. CASE InWindow(c) /\ model' = Base /\ InWindow(d)
        <3>1. deciding[d].asked = NoModel
            BY <1>0, <2>3 DEF Windows
        <3> QED BY <2>1, <2>3, <3>1 DEF DecideCalm, DecideFrame, InWindow, Wanted
    <2> QED BY <2>2, <2>3
<1>4. ASSUME NEW a \in Caller, NEW b \in Caller, InWindow(a)', InWindow(b)', a # b
      PROVE  deciding'[a].asked = NoModel /\ deciding'[b].asked = NoModel
    <2>1. InWindow(a) /\ deciding'[a].asked = deciding[a].asked
        BY <1>1, <1>2, <1>4
    <2>2. InWindow(b) /\ deciding'[b].asked = deciding[b].asked
        BY <1>1, <1>2, <1>4
    <2> QED BY <1>0, <1>4, <2>1, <2>2 DEF Windows
<1>5. ASSUME \A d \in Caller : ~InWindow(d)'
      PROVE  model' = Base
    <2>1. CASE InWindow(c)
        BY <1>5, <2>1
    <2>2. CASE ~InWindow(c)
        <3>1. \A d \in Caller : ~InWindow(d)
            BY <1>2, <1>5, <2>2
        <3> QED BY <1>0, <2>2, <3>1 DEF Windows
    <2> QED BY <2>1, <2>2
<1>6. Windows'
    BY <1>4, <1>5 DEF Windows
<1> QED BY <1>3, <1>6

\* What is left to show of a step is its own frame.
LEMMA DecideStepHolds ==
    ASSUME DecideInv, NEW c \in Caller, OnlyDecides(c), mixed' = mixed,
           model' \in Model, casts' \subseteq Id, decisions' \subseteq D!Decision,
           casts \subseteq casts', decisions \subseteq decisions',
           InWindow(c)' => InWindow(c) /\ deciding'[c].asked = deciding[c].asked,
           ~mixed => \/ model' = model
                     \/ InWindow(c) /\ \A d \in Caller \ {c} : InWindow(d) => model' = Base,
           ~mixed /\ InWindow(c) /\ ~InWindow(c)' => model' = Base,
           DecideFrame(c)', ~mixed => DecideCalm(c)', DecidedAsAsked'
    PROVE  DecideInv'
<1>1. D!TypeOK'
    BY DEF DecideInv, D!TypeOK, OnlyDecides
<1>2. \A d \in Caller : DecideFrame(d)'
    BY OtherFramesHold
<1>3. ASSUME ~mixed'
      PROVE  Windows' /\ \A d \in Caller : DecideCalm(d)'
    BY <1>3, OthersStayCalm
<1> QED BY <1>1, <1>2, <1>3 DEF DecideInv

-----------------------------------------------------------------------------
(* The steps of decide.                                                    *)

LEMMA CallIsFramed ==
    ASSUME DecideInv, NEW c \in Caller
    PROVE  /\ D!TypeOK /\ model \in Model /\ casts \subseteq Id /\ decisions \subseteq D!Decision
           /\ deciding[c].id \in Id \cup {0}
           /\ deciding[c].asked \in Model \cup {NoModel, Unknown}
           /\ deciding[c].previous \in Model
           /\ deciding[c].by \in Model \cup {NoModel}
           /\ deciding[c].named \in Model \cup {NoModel}
           /\ DecideFrame(c)
           /\ ~mixed => Windows /\ DecideCalm(c)
           /\ DecidedAsAsked
<1>1. D!TypeOK
    BY DEF DecideInv
<1>2. model \in Model /\ casts \subseteq Id /\ decisions \subseteq D!Decision
    BY <1>1 DEF D!TypeOK
<1> QED BY <1>1, <1>2, FramesAreRecords DEF DecideInv

LEMMA SwapDecides ==
    ASSUME DecideInv, NEW c \in Caller, D!Swap(c)
    PROVE  DecideInv'
<1> USE ServiceAssumption
<1>0. deciding[c].at = "swap" /\ InWindow(c) /\ Deciding(c)
    BY DEF D!Swap, D!At, InWindow, Deciding
<1>1. /\ deciding[c].asked \in Model \cup {Unknown} /\ deciding[c].named = NoModel
      /\ deciding[c].id \in Id /\ DecidedAsAsked /\ model \in Model
      /\ casts \subseteq Id /\ decisions \subseteq D!Decision /\ D!TypeOK
      /\ ~mixed => Windows /\ DecideCalm(c)
    BY <1>0, CallIsFramed DEF DecideFrame
<1>2. casts' = casts /\ decisions' = decisions /\ mixed' = mixed
    BY DEF D!Swap
<1>3. DecidedAsAsked'
    BY <1>1, <1>2 DEF DecidedAsAsked, D!DecidedAsAsked
<1>4. ~mixed => \A d \in Caller \ {c} : ~InWindow(d)
    BY <1>0, <1>1 DEF Windows
<1>5. CASE deciding[c].asked \in Model
    <2>1. model' = deciding[c].asked /\ D!Move(c, "evaluate")
        BY <1>5 DEF D!Swap
    <2>2. /\ OnlyDecides(c) /\ deciding'[c].at = "evaluate" /\ deciding'[c].id = deciding[c].id
          /\ deciding'[c].asked = deciding[c].asked
          /\ deciding'[c].previous = deciding[c].previous
          /\ deciding'[c].by = deciding[c].by /\ deciding'[c].named = deciding[c].named
        BY <1>1, <2>1, DecideMoves DEF D!Location
    <2>3. DecideFrame(c)'
        BY <1>1, <1>5, <2>2 DEF DecideFrame, Deciding
    <2>4. ~mixed => DecideCalm(c)'
        BY <1>0, <1>1, <1>5, <2>1, <2>2 DEF DecideCalm, InWindow, Wanted
    <2>5. InWindow(c)'
        BY <2>2 DEF InWindow
    <2> QED
        BY <1>0, <1>1, <1>2, <1>3, <1>4, <1>5, <2>1, <2>2, <2>3, <2>4, <2>5, DecideStepHolds
<1>6. CASE deciding[c].asked \notin Model
    <2>1. model' = model /\ D!Move(c, "restore")
        BY <1>6 DEF D!Swap
    <2>2. /\ OnlyDecides(c) /\ deciding'[c].at = "restore" /\ deciding'[c].id = deciding[c].id
          /\ deciding'[c].asked = deciding[c].asked
          /\ deciding'[c].previous = deciding[c].previous
          /\ deciding'[c].by = deciding[c].by /\ deciding'[c].named = deciding[c].named
        BY <1>1, <2>1, DecideMoves DEF D!Location
    <2>3. DecideFrame(c)'
        BY <1>1, <2>2 DEF DecideFrame, Deciding
    <2>4. ~mixed => DecideCalm(c)'
        BY <1>0, <1>1, <2>1, <2>2 DEF DecideCalm, InWindow, Wanted
    <2>5. InWindow(c)'
        BY <2>2 DEF InWindow
    <2> QED
        BY <1>0, <1>1, <1>2, <1>3, <2>1, <2>2, <2>3, <2>4, <2>5, DecideStepHolds
<1> QED BY <1>5, <1>6

LEMMA EvaluateDecides ==
    ASSUME DecideInv, NEW c \in Caller, D!Evaluate(c)
    PROVE  DecideInv'
<1> USE ServiceAssumption
<1>0. deciding[c].at = "evaluate" /\ InWindow(c) /\ Deciding(c)
    BY DEF D!Evaluate, D!At, InWindow, Deciding
<1>1. /\ deciding[c].asked \in Model \cup {NoModel} /\ deciding[c].named = NoModel
      /\ deciding[c].id \in Id /\ DecidedAsAsked /\ model \in Model
      /\ casts \subseteq Id /\ decisions \subseteq D!Decision /\ D!TypeOK
      /\ ~mixed => Windows /\ DecideCalm(c)
    BY <1>0, CallIsFramed DEF DecideFrame
<1>2. casts' = casts /\ decisions' = decisions /\ mixed' = mixed /\ model' = model
    BY DEF D!Evaluate
<1>3. DecidedAsAsked'
    BY <1>1, <1>2 DEF DecidedAsAsked, D!DecidedAsAsked
<1>4. CASE deciding' = [deciding EXCEPT ![c].by = model, ![c].at = "name"]
    <2> DEFINE f == [deciding[c] EXCEPT !.by = model, !.at = "name"]
    <2>1. /\ f \in D!Frame /\ f.at = "name" /\ f.id = deciding[c].id
          /\ f.asked = deciding[c].asked /\ f.previous = deciding[c].previous
          /\ f.by = model /\ f.named = deciding[c].named
        BY <1>1, FramesAreRecords DEF D!Frame, D!Location
    <2>2. deciding' = [deciding EXCEPT ![c] = f]
        BY <1>1, <1>4 DEF D!TypeOK
    <2> HIDE DEF f
    <2>3. OnlyDecides(c) /\ deciding'[c] = f
        BY <1>1, <2>1, <2>2, DecideBecomes
    <2>4. DecideFrame(c)'
        BY <1>1, <2>1, <2>3 DEF DecideFrame, Deciding
    <2>5. ~mixed => DecideCalm(c)'
        BY <1>0, <1>1, <1>2, <2>1, <2>3 DEF DecideCalm, InWindow, Wanted
    <2>6. InWindow(c)'
        BY <2>1, <2>3 DEF InWindow
    <2> QED
        BY <1>0, <1>1, <1>2, <1>3, <2>1, <2>3, <2>4, <2>5, <2>6, DecideStepHolds
<1>5. CASE D!Move(c, "restore")
    <2>2. /\ OnlyDecides(c) /\ deciding'[c].at = "restore" /\ deciding'[c].id = deciding[c].id
          /\ deciding'[c].asked = deciding[c].asked
          /\ deciding'[c].previous = deciding[c].previous
          /\ deciding'[c].by = deciding[c].by /\ deciding'[c].named = deciding[c].named
        BY <1>1, <1>5, DecideMoves DEF D!Location
    <2>3. DecideFrame(c)'
        BY <1>1, <2>2 DEF DecideFrame, Deciding
    <2>4. ~mixed => DecideCalm(c)'
        BY <1>0, <1>1, <1>2, <2>2 DEF DecideCalm, InWindow, Wanted
    <2>5. InWindow(c)'
        BY <2>2 DEF InWindow
    <2> QED
        BY <1>0, <1>1, <1>2, <1>3, <2>2, <2>3, <2>4, <2>5, DecideStepHolds
<1> QED BY <1>4, <1>5 DEF D!Evaluate

LEMMA NameModelDecides ==
    ASSUME DecideInv, NEW c \in Caller, D!NameModel(c)
    PROVE  DecideInv'
<1> USE ServiceAssumption
<1>0. deciding[c].at = "name" /\ InWindow(c) /\ Deciding(c)
    BY DEF D!NameModel, D!At, InWindow, Deciding
<1>1. /\ deciding[c].asked \in Model \cup {NoModel} /\ deciding[c].by \in Model
      /\ deciding[c].id \in Id /\ DecidedAsAsked /\ model \in Model
      /\ casts \subseteq Id /\ decisions \subseteq D!Decision /\ D!TypeOK
      /\ ~mixed => Windows /\ DecideCalm(c)
    BY <1>0, CallIsFramed DEF DecideFrame
<1>2. casts' = casts /\ decisions' = decisions /\ mixed' = mixed /\ model' = model
    BY DEF D!NameModel
<1>3. DecidedAsAsked'
    BY <1>1, <1>2 DEF DecidedAsAsked, D!DecidedAsAsked
<1> DEFINE f == [deciding[c] EXCEPT !.named = model, !.at = "restore"]
<1>4. /\ f \in D!Frame /\ f.at = "restore" /\ f.id = deciding[c].id
      /\ f.asked = deciding[c].asked /\ f.previous = deciding[c].previous
      /\ f.by = deciding[c].by /\ f.named = model
    BY <1>1, FramesAreRecords DEF D!Frame, D!Location
<1>5. deciding' = [deciding EXCEPT ![c] = f]
    BY <1>1 DEF D!TypeOK, D!NameModel
<1> HIDE DEF f
<1>6. OnlyDecides(c) /\ deciding'[c] = f
    BY <1>1, <1>4, <1>5, DecideBecomes
<1>7. DecideFrame(c)'
    BY <1>1, <1>4, <1>6 DEF DecideFrame, Deciding
<1>8. ~mixed => DecideCalm(c)'
    BY <1>0, <1>1, <1>2, <1>4, <1>6 DEF DecideCalm, InWindow, Wanted
<1>9. InWindow(c)'
    BY <1>4, <1>6 DEF InWindow
<1> QED
    BY <1>0, <1>1, <1>2, <1>3, <1>4, <1>6, <1>7, <1>8, <1>9, DecideStepHolds

LEMMA RestoreDecides ==
    ASSUME DecideInv, NEW c \in Caller, D!Restore(c)
    PROVE  DecideInv'
<1> USE ServiceAssumption
<1> DEFINE l == IF deciding[c].named # NoModel THEN "writecast" ELSE "raised"
<1>0. deciding[c].at = "restore" /\ InWindow(c) /\ Deciding(c)
    BY DEF D!Restore, D!At, InWindow, Deciding
<1>1. /\ deciding[c].previous \in Model /\ DecideFrame(c)
      /\ deciding[c].id \in Id /\ DecidedAsAsked /\ model \in Model
      /\ casts \subseteq Id /\ decisions \subseteq D!Decision /\ D!TypeOK
      /\ ~mixed => Windows /\ DecideCalm(c)
    BY <1>0, CallIsFramed DEF DecideFrame
<1>2. /\ casts' = casts /\ decisions' = decisions /\ mixed' = mixed
      /\ model' = deciding[c].previous /\ D!Move(c, l)
    BY DEF D!Restore
<1>3. DecidedAsAsked'
    BY <1>1, <1>2 DEF DecidedAsAsked, D!DecidedAsAsked
<1>4. /\ OnlyDecides(c) /\ deciding'[c].at = l /\ deciding'[c].id = deciding[c].id
      /\ deciding'[c].asked = deciding[c].asked
      /\ deciding'[c].previous = deciding[c].previous
      /\ deciding'[c].by = deciding[c].by /\ deciding'[c].named = deciding[c].named
    BY <1>1, <1>2, DecideMoves DEF D!Location
<1>5. DecideFrame(c)'
    BY <1>0, <1>1, <1>4 DEF DecideFrame, Deciding
<1>6. ~mixed => DecideCalm(c)' /\ model' = Base
    BY <1>0, <1>1, <1>2, <1>4 DEF DecideCalm, InWindow, Wanted
<1>7. ~InWindow(c)'
    BY <1>4 DEF InWindow
<1> HIDE DEF l
<1> QED BY <1>0, <1>1, <1>2, <1>3, <1>4, <1>5, <1>6, <1>7, DecideStepHolds

LEMMA WriteCastDecides ==
    ASSUME DecideInv, NEW c \in Caller, D!WriteCast(c)
    PROVE  DecideInv'
<1> USE ServiceAssumption
<1>0. deciding[c].at = "writecast" /\ ~InWindow(c) /\ Deciding(c)
    BY DEF D!WriteCast, D!At, InWindow, Deciding
<1>1. /\ DecideFrame(c) /\ deciding[c].id \in Id /\ DecidedAsAsked /\ model \in Model
      /\ casts \subseteq Id /\ decisions \subseteq D!Decision /\ D!TypeOK
      /\ ~mixed => Windows /\ DecideCalm(c)
    BY <1>0, CallIsFramed DEF DecideFrame
<1>2. decisions' = decisions /\ mixed' = mixed /\ model' = model
    BY DEF D!WriteCast
<1>3. DecidedAsAsked'
    BY <1>1, <1>2 DEF DecidedAsAsked, D!DecidedAsAsked
<1>4. PICK l \in {"writedecision", "raised"} :
          /\ D!Move(c, l)
          /\ casts' = IF l = "raised" THEN casts ELSE casts \cup {deciding[c].id}
    BY DEF D!WriteCast
<1>5. /\ OnlyDecides(c) /\ deciding'[c].at = l /\ deciding'[c].id = deciding[c].id
      /\ deciding'[c].asked = deciding[c].asked
      /\ deciding'[c].previous = deciding[c].previous
      /\ deciding'[c].by = deciding[c].by /\ deciding'[c].named = deciding[c].named
    BY <1>1, <1>4, DecideMoves DEF D!Location
<1>6. DecideFrame(c)'
    BY <1>0, <1>1, <1>4, <1>5 DEF DecideFrame, Deciding
<1>7. ~mixed => DecideCalm(c)'
    BY <1>0, <1>1, <1>4, <1>5 DEF DecideCalm, InWindow, Wanted
<1>8. ~InWindow(c)' /\ casts \subseteq casts' /\ casts' \subseteq Id
    BY <1>1, <1>4, <1>5 DEF InWindow
<1> QED BY <1>0, <1>1, <1>2, <1>3, <1>5, <1>6, <1>7, <1>8, DecideStepHolds

LEMMA WriteDecisionDecides ==
    ASSUME DecideInv, NEW c \in Caller, D!WriteDecision(c)
    PROVE  DecideInv'
<1> USE ServiceAssumption
<1>0. deciding[c].at = "writedecision" /\ ~InWindow(c) /\ Deciding(c)
    BY DEF D!WriteDecision, D!At, InWindow, Deciding
<1>1. /\ DecideFrame(c) /\ deciding[c].id \in Id /\ DecidedAsAsked /\ model \in Model
      /\ deciding[c].asked \in Model \cup {NoModel}
      /\ deciding[c].by \in Model /\ deciding[c].named \in Model
      /\ casts \subseteq Id /\ decisions \subseteq D!Decision /\ D!TypeOK
      /\ ~mixed => Windows /\ DecideCalm(c)
    BY <1>0, CallIsFramed DEF DecideFrame
<1>2. casts' = casts /\ mixed' = mixed /\ model' = model
    BY DEF D!WriteDecision
<1>3. PICK l \in {"returned", "raised"} :
          /\ D!Move(c, l)
          /\ decisions' = IF l = "raised" THEN decisions ELSE decisions \cup {D!Row(c)}
    BY DEF D!WriteDecision
<1> DEFINE r == D!Row(c)
<1>4. /\ r \in D!Decision /\ r.id = deciding[c].id /\ r.asked = deciding[c].asked
      /\ r.by = deciding[c].by /\ r.named = deciding[c].named /\ r.calm = ~mixed
    BY <1>1 DEF D!Row, D!Decision, D!TypeOK
<1> HIDE DEF r
<1>5. /\ OnlyDecides(c) /\ deciding'[c].at = l /\ deciding'[c].id = deciding[c].id
      /\ deciding'[c].asked = deciding[c].asked
      /\ deciding'[c].previous = deciding[c].previous
      /\ deciding'[c].by = deciding[c].by /\ deciding'[c].named = deciding[c].named
    BY <1>1, <1>3, DecideMoves DEF D!Location
<1>6. r.calm => r.by = Wanted(r.asked) /\ r.named = r.by
    BY <1>0, <1>1, <1>4 DEF DecideCalm
<1>7. DecidedAsAsked'
    BY <1>1, <1>3, <1>6 DEF DecidedAsAsked, D!DecidedAsAsked, Wanted, r
<1>8. DecideFrame(c)'
    <2>1. l = "returned" => r \in decisions'
        BY <1>3 DEF r
    <2>2. l = "returned" => \E d \in decisions' : d.id = deciding'[c].id
        BY <1>4, <1>5, <2>1
    <2> QED BY <1>0, <1>1, <1>2, <1>3, <1>5, <2>2 DEF DecideFrame, Deciding
<1>9. ~mixed => DecideCalm(c)'
    BY <1>3, <1>5 DEF DecideCalm, InWindow
<1>10. /\ ~InWindow(c)' /\ decisions \subseteq decisions'
       /\ decisions' \subseteq D!Decision
    BY <1>1, <1>3, <1>4, <1>5 DEF InWindow, r
<1> QED BY <1>0, <1>1, <1>2, <1>5, <1>7, <1>8, <1>9, <1>10, DecideStepHolds

LEMMA CollectDecides ==
    ASSUME DecideInv, NEW c \in Caller, D!Collect(c)
    PROVE  DecideInv' /\ OnlyDecides(c) /\ ~Deciding(c)'
<1> USE ServiceAssumption
<1>0. ~InWindow(c)
    BY DEF D!Collect, InWindow
<1>1. /\ D!TypeOK /\ DecidedAsAsked /\ model \in Model
      /\ casts \subseteq Id /\ decisions \subseteq D!Decision
    BY CallIsFramed
<1>2. /\ casts' = casts /\ decisions' = decisions /\ mixed' = mixed /\ model' = model
      /\ deciding' = [deciding EXCEPT ![c] = D!Idle]
    BY DEF D!Collect
<1>3. DecidedAsAsked'
    BY <1>1, <1>2 DEF DecidedAsAsked, D!DecidedAsAsked
<1>4. D!Idle \in D!Frame /\ D!Idle.at = "idle"
    BY DEF D!Idle, D!Frame, D!Location, D!Asked, D!NoId
<1>5. OnlyDecides(c) /\ deciding'[c].at = "idle"
    BY <1>1, <1>2, <1>4, DecideBecomes
<1>6. DecideFrame(c)' /\ DecideCalm(c)' /\ ~InWindow(c)' /\ ~Deciding(c)'
    BY <1>5 DEF DecideFrame, DecideCalm, InWindow, Deciding
<1> QED BY <1>0, <1>1, <1>2, <1>3, <1>5, <1>6, DecideStepHolds

LEMMA BeginDecides ==
    ASSUME DecideInv, NEW c \in Caller, NEW i \in Id,
           NEW asked \in Model \cup {NoModel, Unknown}, D!Begin(c, i, asked)
    PROVE  DecideInv' /\ OnlyDecides(c) /\ Deciding(c)' /\ deciding'[c].id = i
<1> USE ServiceAssumption
<1> DEFINE f == [D!Idle EXCEPT !.at = IF asked = NoModel THEN "evaluate" ELSE "swap",
                               !.id = i, !.asked = asked, !.previous = model]
<1>0. deciding[c].at = "idle" /\ ~InWindow(c)
    BY DEF D!Begin, D!At, InWindow
<1>1. /\ D!TypeOK /\ DecidedAsAsked /\ model \in Model
      /\ casts \subseteq Id /\ decisions \subseteq D!Decision
    BY CallIsFramed
<1>2. /\ casts' = casts /\ decisions' = decisions /\ model' = model
      /\ deciding' = [deciding EXCEPT ![c] = f]
      /\ mixed' = (mixed \/ \E d \in D!InWindow : {asked, deciding[d].asked} # {NoModel})
    BY DEF D!Begin
<1>3. DecidedAsAsked'
    BY <1>1, <1>2 DEF DecidedAsAsked, D!DecidedAsAsked
<1>4. /\ f \in D!Frame /\ f.at = (IF asked = NoModel THEN "evaluate" ELSE "swap")
      /\ f.id = i /\ f.asked = asked /\ f.previous = model
      /\ f.by = NoModel /\ f.named = NoModel
    BY <1>1 DEF D!Idle, D!Frame, D!Location, D!Asked, D!NoId
<1> HIDE DEF f
<1>5. OnlyDecides(c) /\ deciding'[c] = f
    BY <1>1, <1>2, <1>4, DecideBecomes
<1>6. \A d \in Caller \ {c} : DecideFrame(d)'
    BY <1>2, <1>5, OtherFramesHold
<1>7. DecideFrame(c)' /\ Deciding(c)' /\ InWindow(c)'
    BY <1>4, <1>5 DEF DecideFrame, Deciding, InWindow
<1>8. D!TypeOK'
    BY <1>1, <1>2, <1>5 DEF D!TypeOK, OnlyDecides
<1>9. ASSUME ~mixed'
      PROVE  Windows' /\ \A d \in Caller : DecideCalm(d)'
    <2>1. ~mixed /\ \A d \in Caller : InWindow(d) => asked = NoModel /\ deciding[d].asked = NoModel
        BY <1>2, <1>9 DEF D!InWindow, InWindow
    <2>2. Windows /\ \A d \in Caller : DecideCalm(d)
        BY <2>1 DEF DecideInv
    <2>3. model = Base
        <3>1. CASE \E d \in Caller : InWindow(d)
            BY <2>1, <2>2, <3>1 DEF DecideCalm
        <3>2. CASE \A d \in Caller : ~InWindow(d)
            BY <2>2, <3>2 DEF Windows
        <3> QED BY <3>1, <3>2
    <2>4. \A d \in Caller \ {c} : deciding'[d] = deciding[d]
        BY <1>5 DEF OnlyDecides
    <2>5. \A d \in Caller \ {c} : DecideCalm(d)'
        BY <1>2, <2>2, <2>4 DEF DecideCalm, InWindow
    <2>6. DecideCalm(c)'
        BY <1>2, <1>4, <1>5, <2>3 DEF DecideCalm, InWindow, Wanted
    <2>7. ASSUME NEW a \in Caller, NEW b \in Caller, InWindow(a)', InWindow(b)', a # b
          PROVE  deciding'[a].asked = NoModel
        <3>1. CASE a # c /\ b # c
            BY <2>2, <2>4, <2>7, <3>1 DEF Windows, InWindow
        <3>2. CASE a = c
            BY <1>4, <1>5, <2>1, <2>4, <2>7, <3>2 DEF InWindow
        <3>3. CASE b = c
            BY <2>1, <2>4, <2>7, <3>3 DEF InWindow
        <3> QED BY <3>1, <3>2, <3>3
    <2>8. Windows'
        BY <1>7, <2>7 DEF Windows
    <2> QED BY <2>5, <2>6, <2>8
<1>10. DecideInv'
    BY <1>3, <1>6, <1>7, <1>8, <1>9 DEF DecideInv
<1> QED BY <1>4, <1>5, <1>7, <1>10

LEMMA RestartDecides ==
    ASSUME DecideInv, D!Restart
    PROVE  DecideInv' /\ \A c \in Caller : ~Deciding(c)'
<1> USE ServiceAssumption
<1>1. D!Idle \in D!Frame /\ D!Idle.at = "idle"
    BY DEF D!Idle, D!Frame, D!Location, D!Asked, D!NoId
<1>2. deciding' \in [Caller -> D!Frame] /\ \A c \in Caller : deciding'[c].at = "idle"
    BY <1>1 DEF D!Restart
<1>3. /\ model' = Base /\ mixed' = FALSE /\ casts' = casts /\ decisions' = decisions
    BY DEF D!Restart
<1>4. D!TypeOK'
    BY <1>2, <1>3 DEF DecideInv, D!TypeOK
<1>5. DecidedAsAsked'
    BY <1>3 DEF DecideInv, DecidedAsAsked, D!DecidedAsAsked
<1>6. \A c \in Caller : DecideFrame(c)' /\ DecideCalm(c)' /\ ~InWindow(c)' /\ ~Deciding(c)'
    BY <1>2 DEF DecideFrame, DecideCalm, InWindow, Deciding
<1>7. Windows'
    BY <1>3, <1>6 DEF Windows
<1> QED BY <1>4, <1>5, <1>6, <1>7 DEF DecideInv

-----------------------------------------------------------------------------
(* The steps of execute_program.                                           *)

OnlyExecutes(c) ==
    /\ executing' \in [Caller -> P!Frame]
    /\ \A d \in Caller \ {c} : executing'[d] = executing[d]

LEMMA ExecuteBecomes ==
    ASSUME P!TypeOK, NEW c \in Caller, NEW f \in P!Frame,
           executing' = [executing EXCEPT ![c] = f]
    PROVE  OnlyExecutes(c) /\ executing'[c] = f
BY DEF P!TypeOK, OnlyExecutes

LEMMA ExecuteMoves ==
    ASSUME P!TypeOK, NEW c \in Caller, NEW l \in P!Location, P!Move(c, l)
    PROVE  /\ OnlyExecutes(c)
           /\ executing'[c].at = l /\ executing'[c].id = executing[c].id
           /\ executing'[c].receipt = executing[c].receipt
<1> DEFINE f == [executing[c] EXCEPT !.at = l]
<1>1. executing[c] \in P!Frame
    BY DEF P!TypeOK
<1>2. /\ f \in P!Frame /\ f.at = l /\ f.id = executing[c].id
      /\ f.receipt = executing[c].receipt
    BY <1>1 DEF P!Frame
<1>3. executing' = [executing EXCEPT ![c] = f]
    BY DEF P!Move
<1> HIDE DEF f
<1> QED BY <1>2, <1>3, ExecuteBecomes

LEMMA SameCardinality == \A S : P!Cardinality(S) = Cardinality(S)
BY DEF P!Cardinality, Cardinality

\* A step that keeps the id of its call, or ends the call, keeps ids apart; the
\* frames of the others hold as long as the engine's receipt is not of theirs.
LEMMA ExecuteStepHolds ==
    ASSUME ProgramInv, used \subseteq Id, NEW c \in Caller, OnlyExecutes(c), used' = used,
           crossed' = crossed, executions \subseteq executions', executions' \subseteq Id,
           receipts \subseteq receipts', receipts' \subseteq Id,
           \/ lastReceipt' = lastReceipt
           \/ executing[c].at = "run" /\ lastReceipt' = {executing[c].id},
           \/ executing'[c].at = "idle"
           \/ Executing(c) /\ executing'[c].id = executing[c].id,
           InFlight(c)' => InFlight(c),
           ProgramFrame(c)', ~crossed => ProgramCalm(c)'
    PROVE  ProgramInv'
<1>0. /\ P!TypeOK /\ \A d \in Caller : ProgramFrame(d)
      /\ \A a, b \in Caller : Executing(a) /\ Executing(b) /\ a # b
             => executing[a].id # executing[b].id
      /\ ~crossed => /\ \A a, b \in Caller : InFlight(a) /\ InFlight(b) => a = b
                     /\ \A d \in Caller : ProgramCalm(d)
    BY DEF ProgramInv
<1>1. /\ executing' \in [Caller -> P!Frame]
      /\ \A d \in Caller : d # c => executing'[d] = executing[d]
    BY DEF OnlyExecutes
<1>2. P!TypeOK'
    <2>1. executing[c].at = "run" => executing[c].id \in Id
        BY <1>0 DEF ProgramFrame, Executing
    <2>2. lastReceipt' \in SUBSET Id /\ Cardinality(lastReceipt') <= 1
        <3>1. CASE lastReceipt' = lastReceipt
            BY <1>0, <3>1, SameCardinality DEF P!TypeOK
        <3>2. CASE executing[c].at = "run" /\ lastReceipt' = {executing[c].id}
            <4>1. Cardinality(lastReceipt') = 1
                BY <3>2, FS_Singleton
            <4> QED BY <2>1, <3>2, <4>1
        <3> QED BY <3>1, <3>2
    <2> QED BY <1>0, <1>1, <2>2, SameCardinality DEF P!TypeOK
<1>3. ASSUME NEW d \in Caller, d # c
      PROVE  ProgramFrame(d)' /\ (~crossed => ProgramCalm(d)')
    <2>1. executing'[d] = executing[d] /\ ProgramFrame(d)
        BY <1>0, <1>1, <1>3
    <2>2. CASE lastReceipt' = lastReceipt
        BY <1>0, <2>1, <2>2 DEF ProgramFrame, ProgramCalm, Executing
    <2>3. CASE executing[c].at = "run" /\ lastReceipt' = {executing[c].id}
        <3>1. Executing(c) /\ InFlight(c)
            BY <2>3 DEF Executing, InFlight
        <3>2. Executing(d) => executing[d].id \notin lastReceipt'
            BY <1>0, <1>3, <2>3, <3>1
        <3>3. ProgramFrame(d)'
            BY <2>1, <3>2 DEF ProgramFrame, Executing
        <3>4. ~crossed => ~InFlight(d) /\ ProgramCalm(d)
            BY <1>0, <1>3, <3>1
        <3>5. ~crossed => ProgramCalm(d)'
            BY <2>1, <3>4 DEF ProgramCalm, InFlight
        <3> QED BY <3>3, <3>5
    <2> QED BY <2>2, <2>3
<1>4. ASSUME NEW a \in Caller, NEW b \in Caller, Executing(a)', Executing(b)', a # b
      PROVE  executing'[a].id # executing'[b].id
    <2>1. Executing(a) /\ executing'[a].id = executing[a].id
        BY <1>1, <1>4 DEF Executing
    <2>2. Executing(b) /\ executing'[b].id = executing[b].id
        BY <1>1, <1>4 DEF Executing
    <2> QED BY <1>0, <1>4, <2>1, <2>2
<1>5. ASSUME ~crossed, NEW a \in Caller, NEW b \in Caller, InFlight(a)', InFlight(b)'
      PROVE  a = b
    <2>1. InFlight(a) /\ InFlight(b)
        BY <1>1, <1>5 DEF InFlight
    <2> QED BY <1>0, <1>5, <2>1
<1> QED BY <1>2, <1>3, <1>4, <1>5 DEF ProgramInv

LEMMA ExecutionIsFramed ==
    ASSUME ProgramInv, used \subseteq Id, NEW c \in Caller
    PROVE  /\ P!TypeOK /\ lastReceipt \subseteq Id
           /\ executions \subseteq Id /\ receipts \subseteq Id
           /\ executing[c] \in P!Frame /\ executing[c].receipt \subseteq Id
           /\ ProgramFrame(c) /\ (Executing(c) => executing[c].id \in Id)
           /\ ~crossed => ProgramCalm(c)
BY DEF ProgramInv, P!TypeOK, P!Frame, ProgramFrame

LEMMA RunExecutes ==
    ASSUME ProgramInv, used \subseteq Id, used' = used, NEW c \in Caller, P!Run(c)
    PROVE  ProgramInv'
<1>0. executing[c].at = "run" /\ Executing(c) /\ InFlight(c)
    BY DEF P!Run, P!At, Executing, InFlight
<1>1. /\ P!TypeOK /\ executions \subseteq Id /\ receipts \subseteq Id /\ ProgramFrame(c)
    BY ExecutionIsFramed
<1>2. PICK l \in {"writeexecution", "raised"} :
          /\ P!Move(c, l)
          /\ lastReceipt' = IF l = "raised" THEN lastReceipt ELSE {executing[c].id}
    BY DEF P!Run
<1>3. executions' = executions /\ receipts' = receipts /\ crossed' = crossed
    BY DEF P!Run
<1>4. /\ OnlyExecutes(c) /\ executing'[c].at = l /\ executing'[c].id = executing[c].id
      /\ executing'[c].receipt = executing[c].receipt
    BY <1>1, <1>2, ExecuteMoves DEF P!Location
<1>5. ProgramFrame(c)' /\ ProgramCalm(c)'
    BY <1>0, <1>1, <1>2, <1>4 DEF ProgramFrame, ProgramCalm, Executing
<1>6. lastReceipt' = lastReceipt \/ lastReceipt' = {executing[c].id}
    BY <1>2
<1> QED BY <1>0, <1>1, <1>3, <1>4, <1>5, <1>6, ExecuteStepHolds

LEMMA WriteExecutionExecutes ==
    ASSUME ProgramInv, used \subseteq Id, used' = used, NEW c \in Caller, P!WriteExecution(c)
    PROVE  ProgramInv'
<1>0. executing[c].at = "writeexecution" /\ Executing(c) /\ InFlight(c)
    BY DEF P!WriteExecution, P!At, Executing, InFlight
<1>1. /\ P!TypeOK /\ executions \subseteq Id /\ receipts \subseteq Id /\ ProgramFrame(c)
      /\ executing[c].id \in Id /\ (~crossed => ProgramCalm(c))
    BY <1>0, ExecutionIsFramed
<1>2. PICK l \in {"readreceipt", "raised"} :
          /\ P!Move(c, l)
          /\ executions' = IF l = "raised" THEN executions
                           ELSE executions \cup {executing[c].id}
    BY DEF P!WriteExecution
<1>3. lastReceipt' = lastReceipt /\ receipts' = receipts /\ crossed' = crossed
    BY DEF P!WriteExecution
<1>4. /\ OnlyExecutes(c) /\ executing'[c].at = l /\ executing'[c].id = executing[c].id
      /\ executing'[c].receipt = executing[c].receipt
    BY <1>1, <1>2, ExecuteMoves DEF P!Location
<1>5. ProgramFrame(c)'
    BY <1>0, <1>1, <1>2, <1>4 DEF ProgramFrame, Executing
<1>6. ~crossed => ProgramCalm(c)'
    BY <1>0, <1>1, <1>2, <1>3, <1>4 DEF ProgramCalm
<1>7. executions \subseteq executions' /\ executions' \subseteq Id
    BY <1>1, <1>2
<1> QED BY <1>0, <1>1, <1>3, <1>4, <1>5, <1>6, <1>7, ExecuteStepHolds

LEMMA ReadReceiptExecutes ==
    ASSUME ProgramInv, used \subseteq Id, used' = used, NEW c \in Caller, P!ReadReceipt(c)
    PROVE  ProgramInv'
<1> DEFINE f == [executing[c] EXCEPT !.receipt = lastReceipt, !.at = "writereceipt"]
<1>0. executing[c].at = "readreceipt" /\ Executing(c) /\ InFlight(c)
    BY DEF P!ReadReceipt, P!At, Executing, InFlight
<1>1. /\ P!TypeOK /\ executions \subseteq Id /\ receipts \subseteq Id /\ ProgramFrame(c)
      /\ executing[c] \in P!Frame /\ lastReceipt \subseteq Id
      /\ executing[c].id \in Id /\ (~crossed => ProgramCalm(c))
    BY <1>0, ExecutionIsFramed
<1>2. /\ f \in P!Frame /\ f.at = "writereceipt" /\ f.id = executing[c].id
      /\ f.receipt = lastReceipt
    BY <1>1 DEF P!Frame, P!Location
<1>3. /\ lastReceipt' = lastReceipt /\ receipts' = receipts /\ crossed' = crossed
      /\ executions' = executions /\ executing' = [executing EXCEPT ![c] = f]
    BY <1>1 DEF P!ReadReceipt, P!TypeOK
<1> HIDE DEF f
<1>4. OnlyExecutes(c) /\ executing'[c] = f
    BY <1>1, <1>2, <1>3, ExecuteBecomes
<1>5. ProgramFrame(c)'
    BY <1>0, <1>1, <1>2, <1>3, <1>4 DEF ProgramFrame, Executing
<1>6. ~crossed => ProgramCalm(c)'
    BY <1>0, <1>1, <1>2, <1>3, <1>4 DEF ProgramCalm
<1> QED BY <1>0, <1>1, <1>2, <1>3, <1>4, <1>5, <1>6, ExecuteStepHolds

LEMMA WriteReceiptExecutes ==
    ASSUME ProgramInv, used \subseteq Id, used' = used, NEW c \in Caller, P!WriteReceipt(c)
    PROVE  ProgramInv'
<1>0. executing[c].at = "writereceipt" /\ Executing(c) /\ InFlight(c)
    BY DEF P!WriteReceipt, P!At, Executing, InFlight
<1>1. /\ P!TypeOK /\ executions \subseteq Id /\ receipts \subseteq Id /\ ProgramFrame(c)
      /\ executing[c].receipt \subseteq Id /\ (~crossed => ProgramCalm(c))
    BY <1>0, ExecutionIsFramed
<1>2. PICK l \in {"returned", "raised"} :
          /\ P!Move(c, l)
          /\ receipts' = IF l = "raised" THEN receipts
                         ELSE receipts \cup executing[c].receipt
    BY DEF P!WriteReceipt
<1>3. lastReceipt' = lastReceipt /\ executions' = executions /\ crossed' = crossed
    BY DEF P!WriteReceipt
<1>4. /\ OnlyExecutes(c) /\ executing'[c].at = l /\ executing'[c].id = executing[c].id
      /\ executing'[c].receipt = executing[c].receipt
    BY <1>1, <1>2, ExecuteMoves DEF P!Location
<1>5. ProgramFrame(c)'
    BY <1>0, <1>1, <1>2, <1>3, <1>4 DEF ProgramFrame, Executing
<1>6. ~crossed => ProgramCalm(c)'
    BY <1>0, <1>1, <1>2, <1>3, <1>4 DEF ProgramCalm
<1>7. receipts \subseteq receipts' /\ receipts' \subseteq Id
    BY <1>1, <1>2
<1> QED BY <1>0, <1>1, <1>3, <1>4, <1>5, <1>6, <1>7, ExecuteStepHolds

LEMMA CollectExecutes ==
    ASSUME ProgramInv, used \subseteq Id, used' = used, NEW c \in Caller, P!Collect(c)
    PROVE  ProgramInv' /\ OnlyExecutes(c) /\ ~Executing(c)'
<1>0. ~InFlight(c)
    BY DEF P!Collect, InFlight
<1>1. P!TypeOK /\ executions \subseteq Id /\ receipts \subseteq Id
    BY ExecutionIsFramed
<1>2. P!Idle \in P!Frame /\ P!Idle.at = "idle"
    BY DEF P!Idle, P!Frame, P!Location
<1>3. /\ lastReceipt' = lastReceipt /\ receipts' = receipts /\ crossed' = crossed
      /\ executions' = executions /\ executing' = [executing EXCEPT ![c] = P!Idle]
    BY DEF P!Collect
<1>4. OnlyExecutes(c) /\ executing'[c].at = "idle"
    BY <1>1, <1>2, <1>3, ExecuteBecomes
<1>5. ProgramFrame(c)' /\ ProgramCalm(c)' /\ ~Executing(c)' /\ ~InFlight(c)'
    BY <1>4 DEF ProgramFrame, ProgramCalm, Executing, InFlight
<1> QED BY <1>0, <1>1, <1>3, <1>4, <1>5, ExecuteStepHolds

LEMMA BeginExecutes ==
    ASSUME ProgramInv, used \subseteq Id, NEW c \in Caller, NEW i \in Id \ used,
           used' = used \cup {i}, P!Begin(c, i)
    PROVE  ProgramInv' /\ OnlyExecutes(c) /\ Executing(c)' /\ executing'[c].id = i
<1> DEFINE f == [P!Idle EXCEPT !.at = "run", !.id = i]
<1>0. /\ P!TypeOK /\ \A d \in Caller : ProgramFrame(d)
      /\ \A a, b \in Caller : Executing(a) /\ Executing(b) /\ a # b
             => executing[a].id # executing[b].id
      /\ ~crossed => \A d \in Caller : ProgramCalm(d)
    BY DEF ProgramInv
<1>1. f \in P!Frame /\ f.at = "run" /\ f.id = i
    BY DEF P!Idle, P!Frame, P!Location
<1>2. /\ lastReceipt' = lastReceipt /\ executions' = executions /\ receipts' = receipts
      /\ executing' = [executing EXCEPT ![c] = f]
      /\ crossed' = (crossed \/ P!InFlight # {})
    BY DEF P!Begin
<1> HIDE DEF f
<1>3. OnlyExecutes(c) /\ executing'[c] = f
    BY <1>0, <1>1, <1>2, ExecuteBecomes
<1>4. \A d \in Caller : d # c => executing'[d] = executing[d]
    BY <1>3 DEF OnlyExecutes
<1>5. ProgramFrame(c)' /\ ProgramCalm(c)' /\ Executing(c)'
    BY <1>1, <1>3 DEF ProgramFrame, ProgramCalm, Executing
<1>6. \A d \in Caller : d # c => ProgramFrame(d)'
    BY <1>0, <1>2, <1>4 DEF ProgramFrame, Executing
<1>7. P!TypeOK'
    BY <1>0, <1>2, <1>3 DEF P!TypeOK, OnlyExecutes
<1>8. ASSUME NEW a \in Caller, NEW b \in Caller, Executing(a)', Executing(b)', a # b
      PROVE  executing'[a].id # executing'[b].id
    <2>1. \A d \in Caller : d # c /\ Executing(d)' => /\ Executing(d)
                                                      /\ executing'[d].id = executing[d].id
                                                      /\ executing[d].id \in used
        BY <1>0, <1>4 DEF Executing, ProgramFrame
    <2>2. executing'[c].id = i
        BY <1>1, <1>3
    <2> QED BY <1>0, <1>8, <2>1, <2>2
<1>9. ASSUME ~crossed'
      PROVE  /\ \A a, b \in Caller : InFlight(a)' /\ InFlight(b)' => a = b
             /\ \A d \in Caller : ProgramCalm(d)'
    <2>1. ~crossed /\ \A d \in Caller : ~InFlight(d)
        BY <1>2, <1>9 DEF P!InFlight, InFlight
    <2>2. \A d \in Caller : d # c => ~InFlight(d)'
        BY <1>4, <2>1 DEF InFlight
    <2>3. \A d \in Caller : d # c => ProgramCalm(d)'
        BY <1>0, <1>2, <1>4, <2>1 DEF ProgramCalm
    <2> QED BY <1>5, <2>2, <2>3
<1>10. ProgramInv'
    BY <1>5, <1>6, <1>7, <1>8, <1>9 DEF ProgramInv
<1> QED BY <1>1, <1>3, <1>5, <1>10

LEMMA RestartExecutes ==
    ASSUME ProgramInv, P!Restart
    PROVE  ProgramInv' /\ \A c \in Caller : ~Executing(c)'
<1>1. P!Idle \in P!Frame /\ P!Idle.at = "idle"
    BY DEF P!Idle, P!Frame, P!Location
<1>2. executing' \in [Caller -> P!Frame] /\ \A c \in Caller : executing'[c].at = "idle"
    BY <1>1 DEF P!Restart
<1>3. /\ lastReceipt' = {} /\ crossed' = FALSE
      /\ executions' = executions /\ receipts' = receipts
    BY DEF P!Restart
<1>4. P!TypeOK'
    <2>1. P!Cardinality(lastReceipt') = 0
        BY <1>3, FS_EmptySet, SameCardinality
    <2>2. lastReceipt' \in SUBSET Id /\ P!Cardinality(lastReceipt') <= 1
        BY <1>3, <2>1
    <2>3. executions' \subseteq Id /\ receipts' \subseteq Id /\ crossed' \in BOOLEAN
        BY <1>3 DEF ProgramInv, P!TypeOK
    <2> QED BY <1>2, <2>2, <2>3 DEF P!TypeOK
<1>5. \A c \in Caller : ProgramFrame(c)' /\ ProgramCalm(c)' /\ ~InFlight(c)' /\ ~Executing(c)'
    BY <1>2 DEF ProgramFrame, ProgramCalm, InFlight, Executing
<1>6. \A c \in Caller : ProgramFrame(c)'
    BY <1>5
<1>7. \A c, d \in Caller : Executing(c)' /\ Executing(d)' /\ c # d
          => executing'[c].id # executing'[d].id
    BY <1>5
<1>8. /\ \A c, d \in Caller : InFlight(c)' /\ InFlight(d)' => c = d
      /\ \A c \in Caller : ProgramCalm(c)'
    BY <1>5
<1> QED BY <1>4, <1>5, <1>6, <1>7, <1>8 DEF ProgramInv

-----------------------------------------------------------------------------
(* The steps of the gateway.                                               *)

TablesGrow ==
    /\ casts \subseteq casts' /\ decisions \subseteq decisions'
    /\ executions \subseteq executions'

LEMMA AnswersStayBacked ==
    ASSUME StoredAnswersAreBacked, TablesGrow,
           \A k \in Key : store'[k] # NoAnswer
               => store'[k] = store[k] \/ Backed(SkillOf(k), store[k])'
    PROVE  StoredAnswersAreBacked'
<1>1. ASSUME NEW k \in Key, store'[k] # NoAnswer
      PROVE  Backed(SkillOf(k), store[k])'
    <2>1. CASE store'[k] = store[k]
        <3>1. Backed(SkillOf(k), store[k])
            BY <1>1, <2>1 DEF StoredAnswersAreBacked, Backed, SkillOf
        <3> QED BY <2>1, <3>1 DEF Backed, SkillOf, TablesGrow
    <2> QED BY <1>1, <2>1
<1>2. \A k \in Key : store'[k] # NoAnswer
          => IF k \in DOMAIN AskOf
             THEN store'[k] \in casts' /\ \E d \in decisions' : d.id = store'[k]
             ELSE store'[k] \in executions'
    BY <1>1 DEF Backed, SkillOf
<1> QED BY <1>2 DEF StoredAnswersAreBacked

\* The requests and the calls of the other threads stay.
OnlyServes(c) ==
    \A d \in Caller \ {c} : /\ request'[d] = request[d]
                            /\ deciding'[d] = deciding[d]
                            /\ executing'[d] = executing[d]

LEMMA OthersAreServed ==
    ASSUME NEW c \in Caller, \A d \in Caller : Serves(d), OnlyServes(c), TablesGrow,
           used \subseteq used'
    PROVE  \A d \in Caller \ {c} : Serves(d)'
<1> TAKE d \in Caller \ {c}
<1>1. /\ request'[d] = request[d] /\ deciding'[d] = deciding[d]
      /\ executing'[d] = executing[d] /\ Serves(d)
    BY DEF OnlyServes
<1>2. At(d, "store") => Backed(request[d].skill, request[d].id)'
    BY <1>1 DEF Serves, Backed, TablesGrow
<1> QED BY <1>1, <1>2 DEF Serves, At, Deciding, Executing, Backed, SkillOf

LEMMA RequestBecomes ==
    ASSUME GatewayTyped, NEW c \in Caller, NEW r \in Request,
           request' = [request EXCEPT ![c] = r]
    PROVE  /\ request' \in [Caller -> Request] /\ request'[c] = r
           /\ \A d \in Caller : d # c => request'[d] = request[d]
BY DEF GatewayTyped

LEMMA RequestIsTyped ==
    ASSUME GatewayTyped, NEW c \in Caller
    PROVE  /\ request[c] \in Request /\ request[c].key \in Key \cup {NoKey}
           /\ request[c].skill \in Skill /\ request[c].id \in Id \cup {0}
BY DEF GatewayTyped, Request

\* A thread gives up or finishes its request: the key has no attempt any more.
LEMMA DropBecomes ==
    ASSUME GatewayTyped, NEW c \in Caller, Drop(c)
    PROVE  /\ request' \in [Caller -> Request]
           /\ request'[c].at = "idle" /\ request'[c].key = NoKey
           /\ \A d \in Caller : d # c => request'[d] = request[d]
<1>1. NoRequest \in Request /\ NoRequest.at = "idle" /\ NoRequest.key = NoKey
    BY DEF NoRequest, Request, Skill
<1> QED BY <1>1, RequestBecomes DEF Drop

LEMMA SubmitServes ==
    ASSUME IInv, NEW c \in Caller, NEW k \in Key \cup {NoKey}, NEW skill \in Skill,
           Submit(c, k, skill)
    PROVE  GatewayInv'
<1> USE ServiceAssumption
<1> DEFINE r == [at |-> "checked", key |-> k, skill |-> skill, id |-> 0]
<1>1. /\ GatewayTyped /\ (\A d \in Caller : Serves(d)) /\ StoredAnswersAreBacked
      /\ \A j \in Key \ troubled : OneAttempt(j)
    BY DEF IInv, GatewayInv
<1>2. /\ casts' = casts /\ decisions' = decisions /\ executions' = executions
      /\ deciding' = deciding /\ executing' = executing /\ store' = store
      /\ used' = used /\ runs' = runs /\ restarts' = restarts /\ TablesGrow
    BY DEF Submit, decideVars, programVars, TablesGrow
<1>3. StoredAnswersAreBacked'
    BY <1>1, <1>2, AnswersStayBacked
<1>4. CASE request' = request /\ troubled' = troubled
    <2>1. GatewayTyped'
        BY <1>1, <1>2, <1>4 DEF GatewayTyped
    <2>2. OnlyServes(c) /\ request'[c] = request[c]
        BY <1>2, <1>4 DEF OnlyServes
    <2>3. \A d \in Caller : Serves(d)'
        BY <1>1, <1>2, <1>4 DEF Serves, At, Deciding, Executing, Backed, SkillOf
    <2>4. \A j \in Key \ troubled' : OneAttempt(j)'
        BY <1>1, <1>2, <1>4 DEF OneAttempt, At
    <2> QED BY <1>3, <2>1, <2>3, <2>4 DEF GatewayInv
<1>5. CASE /\ ~IsAnswered(k) /\ request' = [request EXCEPT ![c] = r]
           /\ troubled' = IF \E d \in Caller : ~At(d, "idle") /\ request[d].key = k
                          THEN troubled \cup ({k} \ {NoKey})
                          ELSE troubled
    <2>1. r \in Request
        BY DEF Request
    <2>2. /\ request' \in [Caller -> Request] /\ request'[c] = r
          /\ \A d \in Caller : d # c => request'[d] = request[d]
        BY <1>1, <1>5, <2>1, RequestBecomes
    <2>3. r.at = "checked" /\ r.key = k /\ r.skill = skill
        OBVIOUS
    <2> HIDE DEF r
    <2>4. troubled \subseteq troubled' /\ troubled' \subseteq Key
        BY <1>1, <1>5 DEF GatewayTyped
    <2>5. GatewayTyped'
        BY <1>1, <1>2, <2>2, <2>4 DEF GatewayTyped
    <2>6. \A d \in Caller \ {c} : Serves(d)'
        BY <1>1, <1>2, <2>2, OthersAreServed DEF OnlyServes
    <2>7. At(c, "idle") /\ ~Deciding(c) /\ ~Executing(c) /\ (k # NoKey => skill = SkillOf(k))
        BY <1>1 DEF Submit, Serves, At
    <2>8. Serves(c)'
        BY <1>2, <2>2, <2>3, <2>7 DEF Serves, At, Deciding, Executing, SkillOf
    <2>9. ASSUME NEW j \in Key \ troubled'
          PROVE  OneAttempt(j)'
        <3>1. OneAttempt(j)
            BY <1>1, <2>4
        <3>2. CASE j # k
            <4>1. request[c].key # j
                BY <1>1, <2>7 DEF Serves
            <4>2. \A d \in Caller : request'[d].key = j => d # c /\ request'[d] = request[d]
                BY <2>2, <2>3, <3>2
            <4>3. (\A d \in Caller : request'[d].key # j) => \A d \in Caller : request[d].key # j
                BY <2>2, <4>1
            <4> QED BY <1>2, <3>1, <4>2, <4>3 DEF OneAttempt, At
        <3>3. CASE j = k
            <4>1. ~\E d \in Caller : ~At(d, "idle") /\ request[d].key = k
                BY <1>5, <3>3
            <4>2. \A d \in Caller : request[d].key # k
                BY <1>1, <3>3, <4>1 DEF Serves
            <4>3. store[k] = NoAnswer
                BY <1>5, <3>3 DEF IsAnswered
            <4>4. runs'[j] = {}
                BY <1>2, <3>1, <3>3, <4>2, <4>3 DEF OneAttempt
            <4>5. \A d \in Caller : request'[d].key = j => d = c
                BY <2>2, <3>3, <4>2
            <4> QED BY <4>4, <4>5 DEF OneAttempt
        <3> QED BY <3>2, <3>3
    <2> QED BY <1>3, <2>5, <2>6, <2>8, <2>9 DEF GatewayInv
<1> QED BY <1>4, <1>5 DEF Submit

LEMMA RefuseServes ==
    ASSUME IInv, NEW c \in Caller, Refuse(c)
    PROVE  GatewayInv'
<1>1. /\ GatewayTyped /\ (\A d \in Caller : Serves(d)) /\ StoredAnswersAreBacked
      /\ \A j \in Key \ troubled : OneAttempt(j)
    BY DEF IInv, GatewayInv
<1>2. /\ casts' = casts /\ decisions' = decisions /\ executions' = executions
      /\ deciding' = deciding /\ executing' = executing /\ store' = store /\ used' = used
      /\ runs' = runs /\ restarts' = restarts /\ troubled' = troubled /\ TablesGrow
    BY DEF Refuse, decideVars, programVars, TablesGrow
<1>3. /\ request' \in [Caller -> Request]
      /\ request'[c].at = "idle" /\ request'[c].key = NoKey
      /\ \A d \in Caller : d # c => request'[d] = request[d]
    BY <1>1, DropBecomes DEF Refuse
<1>4. StoredAnswersAreBacked'
    BY <1>1, <1>2, AnswersStayBacked
<1>5. GatewayTyped'
    BY <1>1, <1>2, <1>3 DEF GatewayTyped
<1>6. \A d \in Caller \ {c} : Serves(d)'
    BY <1>1, <1>2, <1>3, OthersAreServed DEF OnlyServes
<1>7. At(c, "checked") /\ ~Deciding(c) /\ ~Executing(c)
    BY <1>1 DEF Refuse, Serves, At
<1>8. Serves(c)'
    BY <1>2, <1>3, <1>7 DEF Serves, At, Deciding, Executing
<1>9. ASSUME NEW j \in Key \ troubled'
      PROVE  OneAttempt(j)'
    <2>1. OneAttempt(j) /\ j # NoKey
        BY <1>1, <1>2, ServiceAssumption
    <2>2. \A d \in Caller : request'[d].key = j => d # c /\ request'[d] = request[d]
        BY <1>3, <2>1
    <2>3. (\A d \in Caller : request'[d].key # j) /\ store[j] = NoAnswer => runs[j] = {}
        <3>1. CASE request[c].key = j
            BY <1>7, <2>1, <3>1 DEF OneAttempt
        <3>2. CASE request[c].key # j
            <4>1. (\A d \in Caller : request'[d].key # j) => \A d \in Caller : request[d].key # j
                BY <1>3, <3>2
            <4> QED BY <2>1, <4>1 DEF OneAttempt
        <3> QED BY <3>1, <3>2
    <2> QED BY <1>2, <2>1, <2>2, <2>3 DEF OneAttempt, At
<1> QED BY <1>4, <1>5, <1>6, <1>8, <1>9 DEF GatewayInv

LEMMA StartServes ==
    ASSUME IInv, NEW c \in Caller, NEW token \in BOOLEAN,
           NEW asked \in Model \cup {NoModel, Unknown}, StartHandler(c, token, asked)
    PROVE  IInv'
<1> USE ServiceAssumption
<1>1. /\ GatewayTyped /\ (\A d \in Caller : Serves(d)) /\ StoredAnswersAreBacked
      /\ (\A j \in Key \ troubled : OneAttempt(j)) /\ DecideInv /\ ProgramInv
    BY DEF IInv, GatewayInv
<1>2. At(c, "checked") /\ ~Deciding(c) /\ ~Executing(c)
    BY <1>1 DEF StartHandler, Serves, At
<1>3. PICK i \in Id \ used :
          /\ IF request[c].skill = "decide"
             THEN D!Begin(c, i, asked) /\ UNCHANGED programVars
             ELSE P!Begin(c, i) /\ asked = NoModel /\ UNCHANGED decideVars
          /\ used' = used \cup {i}
          /\ request' = [request EXCEPT ![c].at = "handler", ![c].id = i]
          /\ runs' = IF request[c].key = NoKey THEN runs
                     ELSE [runs EXCEPT ![request[c].key] = @ \cup {i}]
    BY DEF StartHandler
<1>4. store' = store /\ troubled' = troubled /\ restarts' = restarts
    BY DEF StartHandler
<1>5. used \subseteq Id /\ used \subseteq used' /\ used' \subseteq Id
    BY <1>1, <1>3 DEF GatewayTyped
<1>6. /\ DecideInv' /\ ProgramInv' /\ TablesGrow
      /\ (\A d \in Caller : d # c => deciding'[d] = deciding[d] /\ executing'[d] = executing[d])
      /\ request[c].skill = "decide" => /\ Deciding(c)' /\ deciding'[c].id = i
                                        /\ ~Executing(c)'
      /\ request[c].skill # "decide" => /\ Executing(c)' /\ executing'[c].id = i
                                        /\ ~Deciding(c)'
    <2>1. CASE request[c].skill = "decide"
        <3>1. D!Begin(c, i, asked) /\ UNCHANGED programVars
            BY <1>3, <2>1
        <3>2. DecideInv' /\ OnlyDecides(c) /\ Deciding(c)' /\ deciding'[c].id = i
            BY <1>1, <3>1, BeginDecides
        <3>3. ProgramInv'
            BY <1>1, <1>5, <3>1 DEF ProgramInv, ProgramFrame, ProgramCalm, Executing, InFlight,
                                    P!TypeOK, programVars
        <3>4. executing' = executing /\ ~Executing(c)'
            BY <1>2, <3>1 DEF programVars, Executing
        <3>5. TablesGrow
            BY <3>1 DEF D!Begin, TablesGrow, programVars
        <3> QED BY <2>1, <3>2, <3>3, <3>4, <3>5 DEF OnlyDecides
    <2>2. CASE request[c].skill # "decide"
        <3>1. P!Begin(c, i) /\ UNCHANGED decideVars
            BY <1>3, <2>2
        <3>2. ProgramInv' /\ OnlyExecutes(c) /\ Executing(c)' /\ executing'[c].id = i
            BY <1>1, <1>3, <1>5, <3>1, BeginExecutes
        <3>3. DecideInv'
            BY <1>1, <3>1 DEF DecideInv, DecideFrame, DecideCalm, Windows, Deciding, InWindow,
                              D!TypeOK, DecidedAsAsked, D!DecidedAsAsked, decideVars
        <3>4. deciding' = deciding /\ ~Deciding(c)'
            BY <1>2, <3>1 DEF decideVars, Deciding
        <3>5. TablesGrow
            BY <3>1 DEF P!Begin, TablesGrow, decideVars
        <3> QED BY <2>2, <3>2, <3>3, <3>4, <3>5 DEF OnlyExecutes
    <2> QED BY <2>1, <2>2
<1> DEFINE r == [request[c] EXCEPT !.at = "handler", !.id = i]
<1>7. /\ r \in Request /\ r.at = "handler" /\ r.id = i /\ r.key = request[c].key
      /\ r.skill = request[c].skill
    BY <1>1, RequestIsTyped DEF Request
<1>8. request' = [request EXCEPT ![c] = r]
    BY <1>1, <1>3 DEF GatewayTyped
<1> HIDE DEF r
<1>9. /\ request' \in [Caller -> Request] /\ request'[c] = r
      /\ \A d \in Caller : d # c => request'[d] = request[d]
    BY <1>1, <1>7, <1>8, RequestBecomes
<1>10. /\ runs' \in [Key -> SUBSET Id]
       /\ \A j \in Key : runs'[j] = IF request[c].key = j THEN runs[j] \cup {i} ELSE runs[j]
    BY <1>1, <1>3, RequestIsTyped DEF GatewayTyped
<1>11. GatewayTyped'
    BY <1>1, <1>4, <1>5, <1>9, <1>10 DEF GatewayTyped
<1>12. \A d \in Caller \ {c} : Serves(d)'
    BY <1>1, <1>5, <1>6, <1>9, OthersAreServed DEF OnlyServes
<1>13. Serves(c)'
    <2>1. r.key # NoKey => r.skill = SkillOf(r.key)
        BY <1>1, <1>7 DEF Serves
    <2> QED BY <1>3, <1>6, <1>7, <1>9, <2>1 DEF Serves, At, SkillOf
<1>14. StoredAnswersAreBacked'
    BY <1>1, <1>4, <1>6, AnswersStayBacked
<1>15. ASSUME NEW j \in Key \ troubled'
       PROVE  OneAttempt(j)'
    <2>1. OneAttempt(j)
        BY <1>1, <1>4
    <2>2. \A d \in Caller : request'[d].key = request[d].key
        BY <1>7, <1>9
    <2>3. \A d \in Caller : At(d, "checked")' => d # c /\ At(d, "checked")
        BY <1>7, <1>9 DEF At
    <2>4. CASE request[c].key = j
        <3>1. runs'[j] = {i}
            BY <1>2, <1>10, <2>1, <2>4 DEF OneAttempt
        <3>2. \A d \in Caller : request'[d].key = j => d = c
            BY <2>1, <2>2, <2>4 DEF OneAttempt
        <3> QED BY <2>2, <2>3, <2>4, <3>1, <3>2 DEF OneAttempt
    <2>5. CASE request[c].key # j
        BY <1>4, <1>10, <2>1, <2>2, <2>3, <2>5 DEF OneAttempt
    <2> QED BY <2>4, <2>5
<1> QED BY <1>6, <1>11, <1>12, <1>13, <1>14, <1>15 DEF IInv, GatewayInv

\* A step of the handler keeps its call, and the tables grow.
LEMMA DecideStepKeeps ==
    ASSUME DecideInv, NEW c \in Caller, D!Step(c)
    PROVE  /\ DecideInv' /\ OnlyDecides(c) /\ Deciding(c) /\ Deciding(c)'
           /\ deciding'[c].id = deciding[c].id
           /\ casts \subseteq casts' /\ decisions \subseteq decisions'
<1>1. D!TypeOK
    BY DEF DecideInv
<1>2. CASE D!Evaluate(c)
    <2> DEFINE f == [deciding[c] EXCEPT !.by = model, !.at = "name"]
    <2>1. deciding[c] \in D!Frame /\ model \in Model
        BY <1>1, FramesAreRecords DEF D!TypeOK
    <2>2. f \in D!Frame /\ f.at = "name" /\ f.id = deciding[c].id
        BY <2>1 DEF D!Frame, D!Location
    <2> HIDE DEF f
    <2>3. CASE deciding' = [deciding EXCEPT ![c].by = model, ![c].at = "name"]
        <3>1. deciding' = [deciding EXCEPT ![c] = f]
            BY <1>1, <2>3 DEF D!TypeOK, f
        <3>2. OnlyDecides(c) /\ deciding'[c] = f
            BY <1>1, <2>2, <3>1, DecideBecomes
        <3> QED BY <1>2, <2>2, <3>2, EvaluateDecides DEF D!Evaluate, D!At, Deciding
    <2>4. CASE D!Move(c, "restore")
        <3>1. OnlyDecides(c) /\ deciding'[c].at = "restore" /\ deciding'[c].id = deciding[c].id
            BY <1>1, <2>4, DecideMoves DEF D!Location
        <3> QED BY <1>2, <3>1, EvaluateDecides DEF D!Evaluate, D!At, Deciding
    <2> QED BY <1>2, <2>3, <2>4 DEF D!Evaluate
<1>3. CASE D!NameModel(c)
    <2> DEFINE f == [deciding[c] EXCEPT !.named = model, !.at = "restore"]
    <2>1. deciding[c] \in D!Frame /\ model \in Model
        BY <1>1, FramesAreRecords DEF D!TypeOK
    <2>2. f \in D!Frame /\ f.at = "restore" /\ f.id = deciding[c].id
        BY <2>1 DEF D!Frame, D!Location
    <2>3. deciding' = [deciding EXCEPT ![c] = f]
        BY <1>1, <1>3 DEF D!TypeOK, D!NameModel
    <2> HIDE DEF f
    <2>4. OnlyDecides(c) /\ deciding'[c] = f
        BY <1>1, <2>2, <2>3, DecideBecomes
    <2> QED BY <1>3, <2>2, <2>4, NameModelDecides DEF D!NameModel, D!At, Deciding
<1>4. CASE D!Swap(c) \/ D!Restore(c) \/ D!WriteCast(c) \/ D!WriteDecision(c)
    <2>1. DecideInv'
        BY <1>4, SwapDecides, RestoreDecides, WriteCastDecides, WriteDecisionDecides
    <2>2. Deciding(c) /\ casts \subseteq casts' /\ decisions \subseteq decisions'
        BY <1>4 DEF D!Swap, D!Restore, D!WriteCast, D!WriteDecision, D!At, Deciding
    <2>3. \E l \in D!Location \ {"idle"} : D!Move(c, l)
        <3>1. CASE D!Swap(c)
            BY <3>1 DEF D!Swap, D!Location
        <3>2. CASE D!Restore(c)
            BY <3>2 DEF D!Restore, D!Location
        <3>3. CASE D!WriteCast(c)
            BY <3>3 DEF D!WriteCast, D!Location
        <3>4. CASE D!WriteDecision(c)
            BY <3>4 DEF D!WriteDecision, D!Location
        <3> QED BY <1>4, <3>1, <3>2, <3>3, <3>4
    <2>4. PICK l \in D!Location \ {"idle"} : D!Move(c, l)
        BY <2>3
    <2>5. OnlyDecides(c) /\ deciding'[c].at = l /\ deciding'[c].id = deciding[c].id
        BY <1>1, <2>4, DecideMoves
    <2> QED BY <2>1, <2>2, <2>4, <2>5 DEF Deciding
<1> QED BY <1>2, <1>3, <1>4 DEF D!Step

LEMMA ProgramStepKeeps ==
    ASSUME ProgramInv, used \subseteq Id, used' = used, NEW c \in Caller, P!Step(c)
    PROVE  /\ ProgramInv' /\ OnlyExecutes(c) /\ Executing(c) /\ Executing(c)'
           /\ executing'[c].id = executing[c].id /\ executions \subseteq executions'
<1>1. P!TypeOK
    BY DEF ProgramInv
<1>2. CASE P!ReadReceipt(c)
    <2> DEFINE f == [executing[c] EXCEPT !.receipt = lastReceipt, !.at = "writereceipt"]
    <2>1. executing[c] \in P!Frame /\ lastReceipt \subseteq Id
        BY ExecutionIsFramed
    <2>2. f \in P!Frame /\ f.at = "writereceipt" /\ f.id = executing[c].id
        BY <2>1 DEF P!Frame, P!Location
    <2>3. executing' = [executing EXCEPT ![c] = f]
        BY <1>1, <1>2 DEF P!TypeOK, P!ReadReceipt
    <2> HIDE DEF f
    <2>4. OnlyExecutes(c) /\ executing'[c] = f
        BY <1>1, <2>2, <2>3, ExecuteBecomes
    <2> QED BY <1>2, <2>2, <2>4, ReadReceiptExecutes DEF P!ReadReceipt, P!At, Executing
<1>3. CASE P!Run(c) \/ P!WriteExecution(c) \/ P!WriteReceipt(c)
    <2>1. ProgramInv'
        BY <1>3, RunExecutes, WriteExecutionExecutes, WriteReceiptExecutes
    <2>2. Executing(c) /\ executions \subseteq executions'
        BY <1>3 DEF P!Run, P!WriteExecution, P!WriteReceipt, P!At, Executing
    <2>3. \E l \in P!Location \ {"idle"} : P!Move(c, l)
        <3>1. CASE P!Run(c)
            BY <3>1 DEF P!Run, P!Location
        <3>2. CASE P!WriteExecution(c)
            BY <3>2 DEF P!WriteExecution, P!Location
        <3>3. CASE P!WriteReceipt(c)
            BY <3>3 DEF P!WriteReceipt, P!Location
        <3> QED BY <1>3, <3>1, <3>2, <3>3
    <2>4. PICK l \in P!Location \ {"idle"} : P!Move(c, l)
        BY <2>3
    <2>5. OnlyExecutes(c) /\ executing'[c].at = l /\ executing'[c].id = executing[c].id
        BY <1>1, <2>4, ExecuteMoves
    <2> QED BY <2>1, <2>2, <2>4, <2>5 DEF Executing
<1> QED BY <1>2, <1>3 DEF P!Step

\* A tool whose variables stay keeps its invariant.
LEMMA DecideStays ==
    ASSUME DecideInv, UNCHANGED decideVars
    PROVE  DecideInv'
BY DEF DecideInv, DecideFrame, DecideCalm, Windows, Deciding, InWindow, D!TypeOK,
       DecidedAsAsked, D!DecidedAsAsked, decideVars

LEMMA ProgramStays ==
    ASSUME ProgramInv, UNCHANGED programVars, used' = used
    PROVE  ProgramInv'
BY DEF ProgramInv, ProgramFrame, ProgramCalm, Executing, InFlight, P!TypeOK, programVars

\* A step of the tools alone, of the call of one thread.
LEMMA ToolStepServes ==
    ASSUME GatewayInv, NEW c \in Caller, At(c, "handler"), UNCHANGED gatewayVars, TablesGrow,
           \A d \in Caller \ {c} : deciding'[d] = deciding[d] /\ executing'[d] = executing[d],
           Deciding(c)' <=> Deciding(c), Executing(c)' <=> Executing(c),
           Deciding(c) => deciding'[c].id = deciding[c].id,
           Executing(c) => executing'[c].id = executing[c].id
    PROVE  GatewayInv'
<1>1. /\ GatewayTyped /\ (\A d \in Caller : Serves(d)) /\ StoredAnswersAreBacked
      /\ \A j \in Key \ troubled : OneAttempt(j)
    BY DEF GatewayInv
<1>2. /\ store' = store /\ request' = request /\ used' = used /\ runs' = runs
      /\ troubled' = troubled /\ restarts' = restarts
    BY DEF gatewayVars
<1>3. GatewayTyped'
    BY <1>1, <1>2 DEF GatewayTyped
<1>4. \A d \in Caller \ {c} : Serves(d)'
    BY <1>1, <1>2, OthersAreServed DEF OnlyServes
<1>5. Serves(c)'
    <2>1. Serves(c)
        BY <1>1
    <2> QED BY <1>2, <2>1 DEF Serves, At, SkillOf
<1>6. StoredAnswersAreBacked'
    BY <1>1, <1>2, AnswersStayBacked
<1>7. \A j \in Key \ troubled' : OneAttempt(j)'
    BY <1>1, <1>2 DEF OneAttempt, At
<1> QED BY <1>3, <1>4, <1>5, <1>6, <1>7 DEF GatewayInv

LEMMA HandlerStepServes ==
    ASSUME IInv, NEW c \in Caller, HandlerStep(c)
    PROVE  IInv'
<1>1. DecideInv /\ ProgramInv /\ GatewayInv /\ used \subseteq Id
    BY DEF IInv, GatewayInv, GatewayTyped
<1>2. UNCHANGED gatewayVars /\ used' = used /\ At(c, "handler")
    BY DEF HandlerStep, gatewayVars
<1>3. CASE D!Step(c) /\ UNCHANGED programVars
    <2>1. /\ DecideInv' /\ OnlyDecides(c) /\ Deciding(c) /\ Deciding(c)'
          /\ deciding'[c].id = deciding[c].id
          /\ casts \subseteq casts' /\ decisions \subseteq decisions'
        BY <1>1, <1>3, DecideStepKeeps
    <2>2. ProgramInv' /\ executing' = executing /\ executions' = executions
        BY <1>1, <1>2, <1>3, ProgramStays DEF programVars
    <2>3. GatewayInv'
        BY <1>1, <1>2, <2>1, <2>2, ToolStepServes DEF OnlyDecides, TablesGrow, Executing
    <2> QED BY <2>1, <2>2, <2>3 DEF IInv
<1>4. CASE P!Step(c) /\ UNCHANGED decideVars
    <2>1. /\ ProgramInv' /\ OnlyExecutes(c) /\ Executing(c) /\ Executing(c)'
          /\ executing'[c].id = executing[c].id /\ executions \subseteq executions'
        BY <1>1, <1>2, <1>4, ProgramStepKeeps
    <2>2. /\ DecideInv' /\ deciding' = deciding /\ casts' = casts /\ decisions' = decisions
        BY <1>1, <1>4, DecideStays DEF decideVars
    <2>3. GatewayInv'
        BY <1>1, <1>2, <2>1, <2>2, ToolStepServes DEF OnlyExecutes, TablesGrow, Deciding
    <2> QED BY <2>1, <2>2, <2>3 DEF IInv
<1> QED BY <1>3, <1>4 DEF HandlerStep

LEMMA CollectEnds ==
    ASSUME IInv, NEW c \in Caller, At(c, "handler"), Collect(c), used' = used
    PROVE  /\ DecideInv' /\ ProgramInv' /\ ~Deciding(c)' /\ ~Executing(c)'
           /\ casts' = casts /\ decisions' = decisions /\ executions' = executions
           /\ \A d \in Caller : d # c => deciding'[d] = deciding[d] /\ executing'[d] = executing[d]
           /\ Returned(c) => Backed(request[c].skill, request[c].id)
<1>1. /\ DecideInv /\ ProgramInv /\ Serves(c) /\ used \subseteq Id
      /\ DecideFrame(c) /\ ProgramFrame(c) /\ request[c].skill \in Skill
    BY RequestIsTyped DEF IInv, GatewayInv, GatewayTyped, DecideInv, ProgramInv
<1>2. CASE D!Collect(c) /\ UNCHANGED programVars
    <2>1. DecideInv' /\ OnlyDecides(c) /\ ~Deciding(c)'
        BY <1>1, <1>2, CollectDecides
    <2>2. ProgramInv' /\ executing' = executing /\ executions' = executions
        BY <1>1, <1>2, ProgramStays DEF programVars
    <2>3. Deciding(c) /\ casts' = casts /\ decisions' = decisions
        BY <1>2 DEF D!Collect, Deciding
    <2>4. request[c].skill = "decide" /\ ~Executing(c) /\ deciding[c].id = request[c].id
        BY <1>1, <2>3 DEF Serves
    <2>5. Returned(c) => Backed(request[c].skill, request[c].id)
        BY <1>1, <2>4 DEF Returned, Backed, DecideFrame, Executing
    <2> QED BY <2>1, <2>2, <2>3, <2>4, <2>5 DEF OnlyDecides, Executing
<1>3. CASE P!Collect(c) /\ UNCHANGED decideVars
    <2>1. ProgramInv' /\ OnlyExecutes(c) /\ ~Executing(c)'
        BY <1>1, <1>3, CollectExecutes
    <2>2. DecideInv' /\ deciding' = deciding /\ casts' = casts /\ decisions' = decisions
        BY <1>1, <1>3, DecideStays DEF decideVars
    <2>3. Executing(c) /\ executions' = executions
        BY <1>3 DEF P!Collect, Executing
    <2>4. request[c].skill # "decide" /\ ~Deciding(c) /\ executing[c].id = request[c].id
        BY <1>1, <2>3 DEF Serves
    <2>5. Returned(c) => Backed(request[c].skill, request[c].id)
        BY <1>1, <2>4 DEF Returned, Backed, ProgramFrame, Deciding
    <2> QED BY <2>1, <2>2, <2>3, <2>4, <2>5 DEF OnlyExecutes, Deciding
<1> QED BY <1>2, <1>3 DEF Collect

LEMMA HandlerFailsServes ==
    ASSUME IInv, NEW c \in Caller, HandlerFails(c)
    PROVE  IInv'
<1>1. /\ GatewayTyped /\ (\A d \in Caller : Serves(d)) /\ StoredAnswersAreBacked
      /\ \A j \in Key \ troubled : OneAttempt(j)
    BY DEF IInv, GatewayInv
<1>2. /\ At(c, "handler") /\ Collect(c) /\ Drop(c)
      /\ troubled' = troubled \cup ({request[c].key} \ {NoKey})
      /\ store' = store /\ used' = used /\ runs' = runs /\ restarts' = restarts
    BY DEF HandlerFails
<1>3. /\ DecideInv' /\ ProgramInv' /\ ~Deciding(c)' /\ ~Executing(c)' /\ TablesGrow
      /\ \A d \in Caller : d # c => deciding'[d] = deciding[d] /\ executing'[d] = executing[d]
    BY <1>2, CollectEnds DEF TablesGrow
<1>4. /\ request' \in [Caller -> Request]
      /\ request'[c].at = "idle" /\ request'[c].key = NoKey
      /\ \A d \in Caller : d # c => request'[d] = request[d]
    BY <1>1, <1>2, DropBecomes
<1>5. GatewayTyped'
    <2>1. troubled' \subseteq Key
        BY <1>1, <1>2, RequestIsTyped DEF GatewayTyped
    <2> QED BY <1>1, <1>2, <1>4, <2>1 DEF GatewayTyped
<1>6. \A d \in Caller \ {c} : Serves(d)'
    BY <1>1, <1>2, <1>3, <1>4, OthersAreServed DEF OnlyServes
<1>7. Serves(c)'
    BY <1>3, <1>4 DEF Serves, At
<1>8. StoredAnswersAreBacked'
    BY <1>1, <1>2, <1>3, AnswersStayBacked
<1>9. ASSUME NEW j \in Key \ troubled'
      PROVE  OneAttempt(j)'
    <2>1. OneAttempt(j) /\ j # NoKey /\ request[c].key # j
        BY <1>1, <1>2, ServiceAssumption
    <2>2. \A d \in Caller : request'[d].key = j => d # c /\ request'[d] = request[d]
        BY <1>4, <2>1
    <2>3. (\A d \in Caller : request'[d].key # j) => \A d \in Caller : request[d].key # j
        BY <1>4, <2>1
    <2> QED BY <1>2, <2>1, <2>2, <2>3 DEF OneAttempt, At
<1> QED BY <1>3, <1>5, <1>6, <1>7, <1>8, <1>9 DEF IInv, GatewayInv

LEMMA HandlerCompletesServes ==
    ASSUME IInv, NEW c \in Caller, HandlerCompletes(c)
    PROVE  IInv'
<1> DEFINE r == [request[c] EXCEPT !.at = "store"]
<1>1. /\ GatewayTyped /\ (\A d \in Caller : Serves(d)) /\ StoredAnswersAreBacked
      /\ \A j \in Key \ troubled : OneAttempt(j)
    BY DEF IInv, GatewayInv
<1>2. /\ At(c, "handler") /\ Collect(c) /\ Returned(c)
      /\ request' = [request EXCEPT ![c] = r]
      /\ store' = store /\ used' = used /\ runs' = runs /\ troubled' = troubled
      /\ restarts' = restarts
    BY <1>1 DEF HandlerCompletes, Completes, GatewayTyped
<1>3. /\ DecideInv' /\ ProgramInv' /\ ~Deciding(c)' /\ ~Executing(c)'
      /\ casts' = casts /\ decisions' = decisions /\ executions' = executions /\ TablesGrow
      /\ \A d \in Caller : d # c => deciding'[d] = deciding[d] /\ executing'[d] = executing[d]
      /\ Backed(request[c].skill, request[c].id)
    BY <1>2, CollectEnds DEF TablesGrow
<1>4. /\ r \in Request /\ r.at = "store" /\ r.key = request[c].key
      /\ r.skill = request[c].skill /\ r.id = request[c].id
    BY <1>1, RequestIsTyped DEF Request
<1> HIDE DEF r
<1>5. /\ request' \in [Caller -> Request] /\ request'[c] = r
      /\ \A d \in Caller : d # c => request'[d] = request[d]
    BY <1>1, <1>2, <1>4, RequestBecomes
<1>6. GatewayTyped'
    BY <1>1, <1>2, <1>5 DEF GatewayTyped
<1>7. \A d \in Caller \ {c} : Serves(d)'
    BY <1>1, <1>2, <1>3, <1>5, OthersAreServed DEF OnlyServes
<1>8. Serves(c)'
    <2>1. Serves(c) /\ request[c].id \in Id
        BY <1>1, <1>2 DEF Serves, GatewayTyped
    <2>2. Backed(request[c].skill, request[c].id)'
        BY <1>3, <1>4, <1>5 DEF Backed
    <2> QED BY <1>3, <1>4, <1>5, <2>1, <2>2 DEF Serves, At, SkillOf
<1>9. StoredAnswersAreBacked'
    BY <1>1, <1>2, <1>3, AnswersStayBacked
<1>10. ASSUME NEW j \in Key \ troubled'
       PROVE  OneAttempt(j)'
    <2>1. OneAttempt(j)
        BY <1>1, <1>2
    <2>2. \A d \in Caller : request'[d].key = request[d].key
        BY <1>4, <1>5
    <2>3. \A d \in Caller : At(d, "checked")' => At(d, "checked")
        BY <1>4, <1>5 DEF At
    <2> QED BY <1>2, <2>1, <2>2, <2>3 DEF OneAttempt
<1> QED BY <1>3, <1>6, <1>7, <1>8, <1>9, <1>10 DEF IInv, GatewayInv

LEMMA StoreServes ==
    ASSUME IInv, NEW c \in Caller, StoreAnswer(c)
    PROVE  GatewayInv'
<1> USE ServiceAssumption
<1>1. /\ GatewayTyped /\ (\A d \in Caller : Serves(d)) /\ StoredAnswersAreBacked
      /\ \A j \in Key \ troubled : OneAttempt(j)
    BY DEF IInv, GatewayInv
<1>2. /\ casts' = casts /\ decisions' = decisions /\ executions' = executions
      /\ deciding' = deciding /\ executing' = executing /\ used' = used
      /\ runs' = runs /\ restarts' = restarts /\ troubled' = troubled /\ TablesGrow
    BY DEF StoreAnswer, decideVars, programVars, TablesGrow
<1>3. /\ request' \in [Caller -> Request]
      /\ request'[c].at = "idle" /\ request'[c].key = NoKey
      /\ \A d \in Caller : d # c => request'[d] = request[d]
    BY <1>1, DropBecomes DEF StoreAnswer
<1>4. /\ request[c].id \in Id /\ Backed(request[c].skill, request[c].id)
      /\ ~Deciding(c) /\ ~Executing(c)
      /\ request[c].key # NoKey => request[c].skill = SkillOf(request[c].key)
    BY <1>1 DEF StoreAnswer, Serves, At
<1>5. /\ store' \in [Key -> Id \cup {NoAnswer}]
      /\ \A j \in Key : store'[j] = IF j = request[c].key THEN request[c].id ELSE store[j]
    BY <1>1, <1>4, RequestIsTyped DEF StoreAnswer, GatewayTyped
<1>6. StoredAnswersAreBacked'
    <2>1. ASSUME NEW j \in Key
          PROVE  store'[j] = store[j] \/ Backed(SkillOf(j), store[j])'
        <3>1. CASE j = request[c].key
            <4>1. request[c].skill = SkillOf(j) /\ store'[j] = request[c].id
                BY <1>4, <1>5, <3>1
            <4> QED BY <1>2, <1>4, <4>1 DEF Backed, SkillOf
        <3> QED BY <1>5, <3>1
    <2> QED BY <1>1, <1>2, <2>1, AnswersStayBacked
<1>7. GatewayTyped'
    BY <1>1, <1>2, <1>3, <1>5 DEF GatewayTyped
<1>8. \A d \in Caller \ {c} : Serves(d)'
    BY <1>1, <1>2, <1>3, OthersAreServed DEF OnlyServes
<1>9. Serves(c)'
    BY <1>2, <1>3, <1>4 DEF Serves, At, Deciding, Executing
<1>10. ASSUME NEW j \in Key \ troubled'
       PROVE  OneAttempt(j)'
    <2>1. OneAttempt(j) /\ j # NoKey
        BY <1>1, <1>2
    <2>2. \A d \in Caller : request'[d].key = j => d # c /\ request'[d] = request[d]
        BY <1>3, <2>1
    <2>3. store'[j] = NoAnswer => request[c].key # j /\ store[j] = NoAnswer
        BY <1>4, <1>5 DEF NoAnswer
    <2>4. store'[j] = NoAnswer /\ (\A d \in Caller : request'[d].key # j)
              => \A d \in Caller : request[d].key # j
        BY <1>3, <2>3
    <2> QED BY <1>2, <2>1, <2>2, <2>3, <2>4 DEF OneAttempt, At
<1> QED BY <1>6, <1>7, <1>8, <1>9, <1>10 DEF GatewayInv

LEMMA RestartServes ==
    ASSUME IInv, Restart
    PROVE  IInv'
<1>1. DecideInv /\ ProgramInv /\ GatewayTyped
    BY DEF IInv, GatewayInv
<1>2. DecideInv' /\ \A c \in Caller : ~Deciding(c)'
    BY <1>1, RestartDecides DEF Restart
<1>3. ProgramInv' /\ \A c \in Caller : ~Executing(c)'
    BY <1>1, RestartExecutes DEF Restart
<1>4. NoRequest \in Request /\ NoRequest.at = "idle" /\ NoRequest.key = NoKey
    BY DEF NoRequest, Request, Skill
<1>5. /\ request' \in [Caller -> Request]
      /\ \A c \in Caller : request'[c].at = "idle" /\ request'[c].key = NoKey
    BY <1>4 DEF Restart
<1>6. GatewayTyped'
    BY <1>1, <1>5, ServiceAssumption DEF Restart, GatewayTyped
<1>7. \A c \in Caller : Serves(c)'
    BY <1>2, <1>3, <1>5 DEF Serves, At
<1>8. StoredAnswersAreBacked'
    BY DEF Restart, StoredAnswersAreBacked
<1>9. \A k \in Key \ troubled' : OneAttempt(k)'
    BY DEF Restart
<1> QED BY <1>2, <1>3, <1>6, <1>7, <1>8, <1>9 DEF IInv, GatewayInv

-----------------------------------------------------------------------------
(* The invariant.                                                          *)

LEMMA InitHolds == Init => IInv
<1> USE ServiceAssumption
<1> SUFFICES ASSUME Init
             PROVE  IInv
    OBVIOUS
<1>1. /\ D!Idle \in D!Frame /\ D!Idle.at = "idle" /\ P!Idle \in P!Frame /\ P!Idle.at = "idle"
      /\ NoRequest \in Request /\ NoRequest.at = "idle" /\ NoRequest.key = NoKey
    BY DEF D!Idle, D!Frame, D!Location, D!Asked, D!NoId, P!Idle, P!Frame, P!Location,
           NoRequest, Request, Skill
<1>2. /\ deciding \in [Caller -> D!Frame] /\ \A c \in Caller : deciding[c].at = "idle"
      /\ executing \in [Caller -> P!Frame] /\ \A c \in Caller : executing[c].at = "idle"
      /\ request \in [Caller -> Request]
      /\ \A c \in Caller : request[c].at = "idle" /\ request[c].key = NoKey
    BY <1>1 DEF Init, D!Init, P!Init
<1>3. DecideInv
    <2>1. D!TypeOK
        BY <1>2 DEF Init, D!Init, D!TypeOK
    <2>2. DecidedAsAsked
        BY DEF Init, D!Init, DecidedAsAsked, D!DecidedAsAsked
    <2>3. \A c \in Caller : DecideFrame(c) /\ DecideCalm(c) /\ ~InWindow(c)
        BY <1>2 DEF DecideFrame, DecideCalm, InWindow, Deciding
    <2>4. Windows
        BY <2>3 DEF Windows, Init, D!Init
    <2> QED BY <2>1, <2>2, <2>3, <2>4 DEF DecideInv
<1>4. ProgramInv
    <2>1. /\ lastReceipt = {} /\ executions \subseteq Id /\ receipts \subseteq Id
          /\ crossed \in BOOLEAN
        BY DEF Init, P!Init
    <2>2. P!Cardinality(lastReceipt) = 0
        BY <2>1, FS_EmptySet, SameCardinality
    <2>4. lastReceipt \in SUBSET Id /\ P!Cardinality(lastReceipt) <= 1
        BY <2>1, <2>2
    <2>5. P!TypeOK
        BY <1>2, <2>1, <2>4 DEF P!TypeOK
    <2>3. \A c \in Caller : ProgramFrame(c) /\ ProgramCalm(c) /\ ~InFlight(c) /\ ~Executing(c)
        BY <1>2 DEF ProgramFrame, ProgramCalm, InFlight, Executing
    <2> QED BY <2>3, <2>5 DEF ProgramInv
<1>5. GatewayInv
    <2>1. GatewayTyped
        BY <1>2 DEF Init, GatewayTyped
    <2>2. \A c \in Caller : Serves(c)
        BY <1>2 DEF Serves, At, Deciding, Executing
    <2>3. StoredAnswersAreBacked
        BY DEF Init, StoredAnswersAreBacked
    <2>4. \A k \in Key : OneAttempt(k)
        BY <1>2 DEF Init, OneAttempt, At
    <2> QED BY <2>1, <2>2, <2>3, <2>4 DEF GatewayInv
<1> QED BY <1>3, <1>4, <1>5 DEF IInv

LEMMA StutterHolds ==
    ASSUME IInv, UNCHANGED vars
    PROVE  IInv'
<1>1. UNCHANGED decideVars /\ UNCHANGED programVars /\ UNCHANGED gatewayVars
    BY DEF vars
<1>2. DecideInv' /\ ProgramInv'
    BY <1>1, DecideStays, ProgramStays DEF IInv, gatewayVars
<1>3. GatewayInv'
    BY <1>1 DEF IInv, GatewayInv, GatewayTyped, Serves, StoredAnswersAreBacked, OneAttempt, At,
                Deciding, Executing, Backed, SkillOf, decideVars, programVars, gatewayVars
<1> QED BY <1>2, <1>3 DEF IInv

LEMMA StepHolds ==
    ASSUME IInv, [Next]_vars
    PROVE  IInv'
<1>1. ASSUME NEW c \in Caller, NEW k \in Key \cup {NoKey}, NEW skill \in Skill,
             Submit(c, k, skill)
      PROVE  IInv'
    <2>1. UNCHANGED decideVars /\ UNCHANGED programVars /\ used' = used
        BY <1>1 DEF Submit
    <2> QED BY <1>1, <2>1, SubmitServes, DecideStays, ProgramStays DEF IInv
<1>2. ASSUME NEW c \in Caller, Refuse(c)
      PROVE  IInv'
    <2>1. UNCHANGED decideVars /\ UNCHANGED programVars /\ used' = used
        BY <1>2 DEF Refuse
    <2> QED BY <1>2, <2>1, RefuseServes, DecideStays, ProgramStays DEF IInv
<1>3. ASSUME NEW c \in Caller, StoreAnswer(c)
      PROVE  IInv'
    <2>1. UNCHANGED decideVars /\ UNCHANGED programVars /\ used' = used
        BY <1>3 DEF StoreAnswer
    <2> QED BY <1>3, <2>1, StoreServes, DecideStays, ProgramStays DEF IInv
<1>4. ASSUME NEW c \in Caller, NEW token \in BOOLEAN,
             NEW asked \in Model \cup {NoModel, Unknown}, StartHandler(c, token, asked)
      PROVE  IInv'
    BY <1>4, StartServes
<1>5. ASSUME NEW c \in Caller, HandlerStep(c) \/ HandlerFails(c) \/ HandlerCompletes(c)
      PROVE  IInv'
    BY <1>5, HandlerStepServes, HandlerFailsServes, HandlerCompletesServes
<1>6. ASSUME Restart
      PROVE  IInv'
    BY <1>6, RestartServes
<1>7. CASE UNCHANGED vars
    BY <1>7, StutterHolds
<1> QED BY <1>1, <1>2, <1>3, <1>4, <1>5, <1>6, <1>7 DEF Next

(* At every step of any threads over any engine and tables the frames, the *)
(* tables and the store are what IInv says of them.                        *)
THEOREM ServiceInvariant == Spec => []IInv
<1>1. IInv /\ [Next]_vars => IInv'
    BY StepHolds
<1> QED BY InitHolds, <1>1, PTL DEF Spec

(* The variables of the gateway and of both tools keep their types.        *)
THEOREM TypeCorrect == Spec => []TypeOK
<1>1. IInv => TypeOK
    BY DEF IInv, DecideInv, ProgramInv, GatewayInv, GatewayTyped, TypeOK
<1> QED BY <1>1, ServiceInvariant, PTL

(* decide stores what it was asked for: while no call that asks for a      *)
(* model has overlapped another one, the swapped-in attribute names and    *)
(* takes exactly the decisions of the call that put it there.              *)
THEOREM DecisionsAreAsAsked == Spec => []DecidedAsAsked
<1>1. IInv => DecidedAsAsked
    BY DEF IInv, DecideInv
<1> QED BY <1>1, ServiceInvariant, PTL

(* ... and the finally clause of decide leaves the engine on its base      *)
(* model, after calls that returned and after calls that raised.           *)
THEOREM BaseModelReturns == Spec => []ModelIsRestored
<1>1. IInv => ModelIsRestored
    <2> SUFFICES ASSUME IInv, D!InWindow = {}, ~mixed
                 PROVE  model = Base
        BY DEF ModelIsRestored, D!ModelIsRestored
    <2>1. \A c \in Caller : ~InWindow(c)
        BY DEF D!InWindow, InWindow
    <2> QED BY <2>1 DEF IInv, DecideInv, Windows
<1> QED BY <1>1, ServiceInvariant, PTL

(* An execute_program that returned has stored its execution, and its      *)
(* receipt unless another call has been in flight with it.                 *)
THEOREM ExecutionsAreStored == Spec => []ReturnedIsStored
<1>1. IInv => ReturnedIsStored
    BY DEF IInv, ProgramInv, ProgramFrame, ProgramCalm, ReturnedIsStored, P!ReturnedIsStored,
           P!At
<1> QED BY <1>1, ServiceInvariant, PTL

(* _idempotency_store: every answer it holds names rows that are there.    *)
THEOREM AnswersAreBacked == Spec => []StoredAnswersAreBacked
<1>1. IInv => StoredAnswersAreBacked
    BY DEF IInv, GatewayInv
<1> QED BY <1>1, ServiceInvariant, PTL

(* execute_task: retries of a key that wait for the previous answer start  *)
(* its handler at most once, until an attempt fails or the process ends.   *)
THEOREM SerialRetriesAreSafe == Spec => []SerialRetriesRunOnce
<1>1. ASSUME IInv, NEW k \in Key \ troubled
      PROVE  Cardinality(runs[k]) <= 1
    <2>1. \A i, j \in runs[k] : i = j
        BY <1>1 DEF IInv, GatewayInv, OneAttempt
    <2>2. CASE runs[k] = {}
        BY <2>2, FS_EmptySet
    <2>3. CASE runs[k] # {}
        <3>1. PICK i : i \in runs[k]
            BY <2>3
        <3>2. runs[k] = {i}
            BY <2>1, <3>1
        <3>3. Cardinality({i}) = 1
            BY FS_Singleton
        <3> QED BY <3>2, <3>3
    <2> QED BY <2>2, <2>3
<1>2. IInv => SerialRetriesRunOnce
    BY <1>1 DEF SerialRetriesRunOnce
<1> QED BY <1>2, ServiceInvariant, PTL
=============================================================================
