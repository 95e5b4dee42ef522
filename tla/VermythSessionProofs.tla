------------------------ MODULE VermythSessionProofs ------------------------
(***************************************************************************)
(* Theorems about VermythSession, for every set of sessions and callers    *)
(* and every bound on sequences.                                           *)
(*                                                                         *)
(* The argument: from the moment a packet is inserted until its call ends, *)
(* its caller is the only one working on the slot, because a second one    *)
(* can only get there by inserting too, which the primary key refuses.     *)
(* Everything else -- stale sequences, rewinds, replays, crashes -- ends   *)
(* before the insert or removes the caller.                                *)
(***************************************************************************)
EXTENDS VermythSession, TLAPS

\* A caller past the read has a packet; one about to write a row has its id.
Equipped ==
    \A c \in Caller :
        /\ pc[c] \in {"store"} \cup Working => held[c] \in Packet
        /\ pc[c] \in {"writeback", "rewrite"} => target[c] \in Session

\* One packet per slot.
SlotKey == \A p, q \in packets : SlotOf(p) = SlotOf(q) => p = q

\* A replay holds stored packets and sits in front of the insert.
Replaying ==
    \A c \in Caller :
        /\ pending[c] \subseteq packets
        /\ pending[c] # {} => pc[c] \in {"replay", "store"}
        /\ pc[c] = "store" /\ pending[c] # {} => held[c] \in pending[c]

\* What a caller working on a packet knows about the slot.
Custody ==
    \A c \in Caller :
        pc[c] \in Working =>
            /\ held[c] \in packets
            /\ SlotOf(held[c]) \notin Answered
            /\ executed[SlotOf(held[c])] =
                  IF pc[c] = "respond" /\ held[c].kind = "cast" THEN 1 ELSE 0

\* No two callers work on one slot.
Exclusive ==
    \A c, d \in Caller :
        c # d /\ pc[c] \in Working /\ pc[d] \in Working
        => SlotOf(held[c]) # SlotOf(held[d])

\* Only stored packets were executed, and once.
ExecutedOnce ==
    \A k \in Slot : executed[k] \in {0, 1} /\ (executed[k] = 1 => k \in Stored)

IInv ==
    /\ TypeOK
    /\ Equipped
    /\ SlotKey
    /\ Replaying
    /\ Custody
    /\ Exclusive
    /\ ExecutedOnce
    /\ ResponsesAreTruthful

-----------------------------------------------------------------------------
USE DEF Location, Working, Kind

\* The initial state: no row, no packet, every caller idle.
LEMMA InitIInv == Init => IInv
  BY SessionAssumption
  DEF Init, IInv, TypeOK, Equipped, SlotKey, Replaying, Custody, Exclusive,
      ExecutedOnce, ResponsesAreTruthful, SessionRow, Scheme, NoRow

\* A packet names a slot.
LEMMA SlotOfPacket == ASSUME NEW p \in Packet PROVE SlotOf(p) \in Slot
  BY DEF SlotOf, Slot, Packet

\* A slot somebody answered is stored, so a free slot has no answer.
LEMMA AnsweredStored == ResponsesAreTruthful => Answered \subseteq Stored
  BY DEF ResponsesAreTruthful, Answered, Stored

\* The local variables of an ended call keep their types.
LEMMA FinishTypes ==
  ASSUME TypeOK, NEW c \in Caller, Finish(c)
  PROVE  /\ pc' \in [Caller -> Location]
         /\ held' \in [Caller -> Packet \cup {<<>>}]
         /\ draft' \in [Caller -> SessionRow]
         /\ target' \in [Caller -> Session \cup {<<>>}]
         /\ pending' \in [Caller -> SUBSET Packet]
  BY SessionAssumption DEF Finish, Goto, TypeOK, NoRow, SessionRow, Scheme

\* A call that ends, whatever it wrote to the session row, gives up its
\* slot and disturbs nobody else's.
LEMMA FinishStep ==
  ASSUME IInv, NEW c \in Caller, Finish(c),
         sessions' \in [Session -> SessionRow],
         UNCHANGED <<packets, responses, keys, executed>>
  PROVE  IInv'
<1>1. TypeOK'
  BY FinishTypes DEF IInv, TypeOK
<1>2. (Equipped /\ SlotKey /\ Replaying)'
  BY DEF Finish, Goto, IInv, TypeOK, Equipped, SlotKey, Replaying
<1>3. (Custody /\ Exclusive)'
  BY DEF Finish, Goto, IInv, TypeOK, Custody, Exclusive, Answered
<1>4. (ExecutedOnce /\ ResponsesAreTruthful)'
  BY DEF IInv, ExecutedOnce, ResponsesAreTruthful, Stored
<1> QED  BY <1>1, <1>2, <1>3, <1>4 DEF IInv

\* A step that leaves the packets, the answers and every call alone.
LEMMA RowStep ==
  ASSUME IInv, sessions' \in [Session -> SessionRow], keys' \subseteq Session,
         UNCHANGED <<packets, responses, executed, local>>
  PROVE  IInv'
<1>1. TypeOK'
  BY DEF IInv, TypeOK, local
<1>2. (Equipped /\ SlotKey /\ Replaying)'
  BY DEF local, IInv, Equipped, SlotKey, Replaying
<1>3. (Custody /\ Exclusive)'
  BY DEF local, IInv, Custody, Exclusive, Answered
<1>4. (ExecutedOnce /\ ResponsesAreTruthful)'
  BY DEF IInv, ExecutedOnce, ResponsesAreTruthful, Stored
<1> QED  BY <1>1, <1>2, <1>3, <1>4 DEF IInv

\* A new session touches no packet.
LEMMA OpenStep ==
  ASSUME IInv, NEW c \in Caller, NEW s \in Session, NEW scheme \in Scheme,
         NEW secret \in BOOLEAN, Open(c, s, scheme, secret)
  PROVE  IInv'
<1>1. sessions' \in [Session -> SessionRow] /\ keys' \subseteq Session
  BY SessionAssumption DEF Open, IInv, TypeOK, SessionRow
<1> QED  BY <1>1, RowStep DEF Open

\* A fork is a new session row and nothing else.
LEMMA ForkStep ==
  ASSUME IInv, NEW c \in Caller, NEW base \in Session, NEW s \in Session,
         NEW q \in 0 .. MaxSequence, Fork(c, base, s, q)
  PROVE  IInv'
<1>1. sessions' \in [Session -> SessionRow] /\ keys' \subseteq Session
  BY SessionAssumption DEF Fork, IInv, TypeOK, SessionRow
<1> QED  BY <1>1, RowStep DEF Fork

\* Passing the sequence and proof checks claims nothing yet.
LEMMA BeginStep ==
  ASSUME IInv, NEW c \in Caller, NEW p \in Packet, Begin(c, p),
         pc[c] \in {"idle", "replay"},
         pending[c] # {} => p \in pending[c]
  PROVE  IInv'
<1>1. CASE Admits(p)
  <2>1. /\ pc' = [pc EXCEPT ![c] = "store"]
        /\ held' = [held EXCEPT ![c] = p]
        /\ UNCHANGED <<sessions, packets, responses, keys, executed, draft, target, pending>>
    BY <1>1 DEF Begin, Goto, db
  <2>2. TypeOK'
    BY <2>1 DEF IInv, TypeOK
  <2>3. (Equipped /\ SlotKey /\ Replaying)'
    BY <2>1 DEF IInv, TypeOK, Equipped, SlotKey, Replaying
  <2>4. (Custody /\ Exclusive)'
    BY <2>1 DEF IInv, TypeOK, Custody, Exclusive, Answered
  <2>5. (ExecutedOnce /\ ResponsesAreTruthful)'
    BY <2>1 DEF IInv, ExecutedOnce, ResponsesAreTruthful, Stored
  <2> QED  BY <2>2, <2>3, <2>4, <2>5 DEF IInv
<1>2. CASE ~Admits(p)
  BY <1>2, FinishStep DEF Begin, db, IInv, TypeOK
<1> QED  BY <1>1, <1>2

\* The insert is where a caller takes a slot, and only a free one.
LEMMA StoreStep ==
  ASSUME IInv, NEW c \in Caller, StorePacket(c)
  PROVE  IInv'
<1> DEFINE k == SlotOf(held[c])
<1>1. held[c] \in Packet /\ k \in Slot /\ pc[c] = "store"
  BY SlotOfPacket DEF StorePacket, IInv, Equipped
<1>2. CASE SlotIsFree(held[c])
  <2>1. /\ k \notin Stored
        /\ packets' = packets \cup {held[c]}
        /\ pc' = [pc EXCEPT ![c] = "advance"]
        /\ UNCHANGED <<held, draft, target, pending, sessions, responses, keys, executed>>
    BY <1>2 DEF StorePacket, SlotIsFree, Goto
  <2>2. TypeOK'
    BY <2>1, <1>1 DEF IInv, TypeOK
  <2>3. Stored' = Stored \cup {k} /\ Answered' = Answered
    BY <2>1 DEF Stored, Answered
  <2>4. k \notin Answered /\ executed[k] = 0
    BY <2>1, <1>1, AnsweredStored DEF IInv, ExecutedOnce
  <2>5. Equipped'
    BY <2>1, <1>1 DEF IInv, TypeOK, Equipped
  <2>6. SlotKey'
    BY <2>1 DEF IInv, SlotKey, Stored
  <2>7. Replaying'
    BY <2>1, <1>1 DEF IInv, TypeOK, Replaying, Stored
  <2>8. Custody'
    BY <2>1, <2>3, <2>4, <1>1 DEF IInv, TypeOK, Custody
  <2>9. Exclusive'
    BY <2>1, <1>1 DEF IInv, TypeOK, Exclusive, Custody, Stored
  <2>10. ExecutedOnce'
    BY <2>1, <2>3 DEF IInv, ExecutedOnce
  <2>11. ResponsesAreTruthful'
    BY <2>1 DEF IInv, ResponsesAreTruthful
  <2> QED  BY <2>2, <2>5, <2>6, <2>7, <2>8, <2>9, <2>10, <2>11 DEF IInv
<1>3. CASE ~SlotIsFree(held[c])
  BY <1>3, FinishStep DEF StorePacket, IInv, TypeOK
<1> QED  BY <1>2, <1>3

\* A caller at work moves on without touching packets or answers.
LEMMA MoveStep ==
  ASSUME IInv, NEW c \in Caller, NEW l \in {"advance", "writeback", "dispatch"},
         pc[c] \in {"advance", "writeback", "dispatch"},
         pc' = [pc EXCEPT ![c] = l],
         sessions' \in [Session -> SessionRow],
         draft' \in [Caller -> SessionRow],
         target' \in [Caller -> Session \cup {<<>>}],
         \A d \in Caller : pc'[d] \in {"writeback", "rewrite"} => target'[d] \in Session,
         UNCHANGED <<packets, responses, keys, executed, held, pending>>
  PROVE  IInv'
<1>1. TypeOK'
  BY DEF IInv, TypeOK
<1>2. (Equipped /\ SlotKey /\ Replaying)'
  BY DEF IInv, TypeOK, Equipped, SlotKey, Replaying
<1>3. (Custody /\ Exclusive)'
  BY DEF IInv, TypeOK, Custody, Exclusive, Answered
<1>4. (ExecutedOnce /\ ResponsesAreTruthful)'
  BY DEF IInv, ExecutedOnce, ResponsesAreTruthful, Stored
<1> QED  BY <1>1, <1>2, <1>3, <1>4 DEF IInv

\* Reading the row to advance it either keeps the slot or gives it up.
LEMMA AdvanceReadStep ==
  ASSUME IInv, NEW c \in Caller, AdvanceRead(c)
  PROVE  IInv'
<1> DEFINE s == held[c].session
           row == sessions[s]
<1>1. held[c] \in Packet /\ s \in Session /\ row \in SessionRow
  BY DEF AdvanceRead, IInv, Equipped, TypeOK, Packet
<1>2. CASE held[c].sequence > row.last
  <2>1. /\ pc[c] = "advance"
        /\ pc' = [pc EXCEPT ![c] = "writeback"]
        /\ draft' = [draft EXCEPT ![c] = AdvancedRow(row, held[c])]
        /\ target' = [target EXCEPT ![c] = s]
        /\ UNCHANGED <<sessions, packets, responses, keys, executed, held, pending>>
    BY <1>2 DEF AdvanceRead, Draft, Goto, db
  <2>2. AdvancedRow(row, held[c]) \in SessionRow
    BY <1>1, SessionAssumption DEF AdvancedRow, SessionRow, Packet, Sequence
  <2> QED  BY <1>1, <2>1, <2>2, MoveStep DEF IInv, TypeOK, Equipped
<1>3. CASE ~(held[c].sequence > row.last)
  BY <1>3, FinishStep DEF AdvanceRead, db, IInv, TypeOK
<1> QED  BY <1>2, <1>3

\* Writing the advanced row back keeps the slot, whatever it overwrites.
LEMMA AdvanceWriteStep ==
  ASSUME IInv, NEW c \in Caller, AdvanceWrite(c)
  PROVE  IInv'
<1>1. NoRow \in SessionRow
  BY SessionAssumption DEF NoRow, SessionRow, Scheme
<1> QED  BY <1>1, MoveStep DEF AdvanceWrite, Goto, IInv, TypeOK, Equipped

\* Starting the handler spends the one execution the slot has.
LEMMA DispatchStep ==
  ASSUME IInv, NEW c \in Caller, Dispatch(c)
  PROVE  IInv'
<1> DEFINE k == SlotOf(held[c])
<1>1. /\ held[c] \in Packet /\ held[c] \in packets /\ k \in Slot /\ k \in Stored
      /\ pc[c] = "dispatch" /\ executed[k] = 0 /\ k \notin Answered
  BY SlotOfPacket DEF Dispatch, IInv, Equipped, Custody, Stored
<1>2. UNCHANGED <<sessions, packets, responses, keys>>
  BY DEF Dispatch, db
<1>3. /\ executed' \in [Slot -> Nat]
      /\ executed'[k] = IF held[c].kind = "cast" THEN 1 ELSE 0
      /\ \A j \in Slot : j # k => executed'[j] = executed[j]
  BY <1>1 DEF Dispatch, IInv, TypeOK
<1>4. \/ /\ pc' = [pc EXCEPT ![c] = "respond"]
         /\ UNCHANGED <<held, draft, target, pending>>
      \/ Finish(c)
  BY DEF Dispatch, Goto
<1>5. TypeOK'
  <2>1. CASE Finish(c)
    BY <1>2, <1>3, <2>1, FinishTypes DEF IInv, TypeOK
  <2>2. CASE /\ pc' = [pc EXCEPT ![c] = "respond"]
             /\ UNCHANGED <<held, draft, target, pending>>
    BY <1>2, <1>3, <2>2 DEF IInv, TypeOK
  <2> QED  BY <1>4, <2>1, <2>2
<1>6. (Equipped /\ SlotKey /\ Replaying)'
  BY <1>1, <1>2, <1>4 DEF IInv, TypeOK, Finish, Goto, Equipped, SlotKey, Replaying
<1>7. Custody'
  <2> SUFFICES ASSUME NEW d \in Caller, pc'[d] \in Working
               PROVE  /\ held'[d] \in packets
                      /\ SlotOf(held'[d]) \notin Answered
                      /\ executed'[SlotOf(held'[d])] =
                            IF pc'[d] = "respond" /\ held'[d].kind = "cast" THEN 1 ELSE 0
    BY <1>2 DEF Custody, Answered
  <2>1. held'[d] = held[d] /\ (d # c => pc'[d] = pc[d]) /\ (d = c => pc'[d] = "respond")
    BY <1>4 DEF Finish, Goto, IInv, TypeOK
  <2>2. CASE d = c
    BY <2>1, <2>2, <1>1, <1>3
  <2>3. CASE d # c
    <3>1. SlotOf(held[d]) # k /\ SlotOf(held[d]) \in Slot
      BY <2>1, <2>3, <1>1, SlotOfPacket DEF IInv, Exclusive, Equipped
    <3> QED  BY <2>1, <2>3, <3>1, <1>3 DEF IInv, Custody
  <2> QED  BY <2>2, <2>3
<1>8. Exclusive'
  BY <1>1, <1>4 DEF IInv, TypeOK, Finish, Goto, Exclusive
<1>9. ExecutedOnce'
  BY <1>1, <1>2, <1>3 DEF IInv, ExecutedOnce, Stored
<1>10. ResponsesAreTruthful'
  <2> SUFFICES ASSUME NEW r \in responses
               PROVE  r[1] \in Slot /\ r[1] # k
    BY <1>2, <1>3 DEF IInv, ResponsesAreTruthful
  <2> QED  BY <1>1 DEF IInv, TypeOK, Answered
<1> QED  BY <1>5, <1>6, <1>7, <1>8, <1>9, <1>10 DEF IInv

\* What one more response row does, its "accepted" column being any Boolean.
LEMMA AddResponse ==
  ASSUME NEW k \in Slot, NEW b \in BOOLEAN, responses' = responses \cup {<<k, b>>},
         responses \subseteq Slot \X BOOLEAN, ResponsesAreTruthful,
         UNCHANGED <<packets, executed>>, NEW p \in packets, SlotOf(p) = k,
         b <=> executed[k] = 1
  PROVE  /\ responses' \subseteq Slot \X BOOLEAN
         /\ Answered' = Answered \cup {k}
         /\ ResponsesAreTruthful'
<1>1. responses' \subseteq Slot \X BOOLEAN
  OBVIOUS
<1>2. Answered' = Answered \cup {k}
  <2>1. <<k, b>>[1] = k
    OBVIOUS
  <2>2. \A j : j \in Answered' <=> j \in Answered \/ j = k
    BY <2>1 DEF Answered
  <2> QED  BY <2>2
<1>3. ResponsesAreTruthful'
  <2> SUFFICES ASSUME NEW r \in responses'
               PROVE  \E q \in packets : SlotOf(q) = r[1] /\ (r[2] <=> executed[r[1]] = 1)
    BY DEF ResponsesAreTruthful
  <2>1. CASE r \in responses
    BY <2>1 DEF ResponsesAreTruthful
  <2>2. CASE r = <<k, b>>
    BY <2>2
  <2> QED  BY <2>1, <2>2
<1> QED  BY <1>1, <1>2, <1>3

\* The answer goes to a slot this caller has to itself, and tells what ran.
LEMMA RespondStep ==
  ASSUME IInv, NEW c \in Caller, Respond(c)
  PROVE  IInv'
<1> DEFINE k == SlotOf(held[c])
<1>1. /\ held[c] \in Packet /\ held[c] \in packets /\ k \in Slot
      /\ pc[c] = "respond" /\ pending[c] = {}
      /\ executed[k] = IF held[c].kind = "cast" THEN 1 ELSE 0
  BY SlotOfPacket DEF Respond, IInv, Equipped, Custody, Replaying
<1>2. CASE CanAnswer(held[c])
  <2>1. /\ Finish(c)
        /\ responses' = responses \cup {<<k, Accepted(held[c])>>}
        /\ UNCHANGED <<sessions, packets, keys, executed>>
    BY <1>1, <1>2 DEF Respond
  <2>2. /\ responses' \subseteq Slot \X BOOLEAN
        /\ Answered' = Answered \cup {k}
        /\ ResponsesAreTruthful'
    <3> DEFINE b == Accepted(held[c])
    <3>1. b \in BOOLEAN /\ (b <=> executed[k] = 1)
      BY <1>1 DEF Accepted
    <3>2. responses \subseteq Slot \X BOOLEAN /\ ResponsesAreTruthful
      BY DEF IInv, TypeOK
    <3>3. responses' = responses \cup {<<k, b>>}
      BY <2>1
    <3>4. UNCHANGED <<packets, executed>>
      BY <2>1
    <3> HIDE DEF b
    <3> QED  BY <1>1, <3>1, <3>2, <3>3, <3>4, AddResponse
  <2>3. TypeOK'
    BY <2>1, <2>2, FinishTypes DEF IInv, TypeOK
  <2>4. (Equipped /\ SlotKey /\ Replaying)'
    BY <2>1 DEF IInv, TypeOK, Finish, Goto, Equipped, SlotKey, Replaying
  <2>5. Custody'
    BY <2>1, <2>2, <1>1 DEF IInv, TypeOK, Finish, Goto, Custody, Exclusive
  <2>6. Exclusive'
    BY <2>1 DEF IInv, TypeOK, Finish, Goto, Exclusive
  <2>7. ExecutedOnce'
    BY <2>1 DEF IInv, ExecutedOnce, Stored
  <2> QED  BY <2>2, <2>3, <2>4, <2>5, <2>6, <2>7 DEF IInv
<1>3. CASE ~CanAnswer(held[c])
  BY <1>3, FinishStep DEF Respond, IInv, TypeOK
<1> QED  BY <1>2, <1>3

\* A replay starts with stored packets only.
LEMMA ReplayStep ==
  ASSUME IInv, NEW c \in Caller, NEW s \in Session, NEW q \in 0 .. MaxSequence,
         Replay(c, s, q)
  PROVE  IInv'
<1>1. /\ pc[c] = "idle" /\ pc' = [pc EXCEPT ![c] = "replay"]
      /\ pending' \in [Caller -> SUBSET packets]
      /\ \A d \in Caller : d # c => pending'[d] = pending[d]
      /\ UNCHANGED <<sessions, packets, responses, keys, executed, held, draft, target>>
  BY DEF Replay, FirstRows, Goto, db, IInv, TypeOK, Replaying
<1>2. TypeOK'
  BY <1>1 DEF IInv, TypeOK
<1>3. (Equipped /\ SlotKey /\ Replaying)'
  BY <1>1 DEF IInv, TypeOK, Equipped, SlotKey, Replaying
<1>4. (Custody /\ Exclusive)'
  BY <1>1 DEF IInv, TypeOK, Custody, Exclusive, Answered
<1>5. (ExecutedOnce /\ ResponsesAreTruthful)'
  BY <1>1 DEF IInv, ExecutedOnce, ResponsesAreTruthful, Stored
<1> QED  BY <1>2, <1>3, <1>4, <1>5 DEF IInv

\* Reading a row to change it later starts a call that works on no packet.
LEMMA DraftStep ==
  ASSUME IInv, NEW c \in Caller, NEW s \in Session, NEW row \in SessionRow,
         pc[c] = "idle", Draft(c, "rewrite", s, row),
         UNCHANGED <<db, keys, executed, held, pending>>
  PROVE  IInv'
<1>1. TypeOK'
  BY DEF Draft, Goto, db, IInv, TypeOK
<1>2. (Equipped /\ SlotKey /\ Replaying)'
  BY DEF Draft, Goto, db, IInv, TypeOK, Equipped, SlotKey, Replaying
<1>3. (Custody /\ Exclusive)'
  BY DEF Draft, Goto, db, IInv, TypeOK, Custody, Exclusive, Answered
<1>4. (ExecutedOnce /\ ResponsesAreTruthful)'
  BY DEF db, IInv, ExecutedOnce, ResponsesAreTruthful, Stored
<1> QED  BY <1>1, <1>2, <1>3, <1>4 DEF IInv

\* A rewind holds no packet.
LEMMA RewindStep ==
  ASSUME IInv, NEW c \in Caller, NEW s \in Session, NEW q \in 0 .. MaxSequence,
         RewindRead(c, s, q)
  PROVE  IInv'
<1> DEFINE row == RewoundRow(sessions[s], q)
<1>0. sessions[s] \in SessionRow
  BY DEF IInv, TypeOK
<1>1. row \in SessionRow
  BY <1>0 DEF RewoundRow, SessionRow
<1>2. /\ pc[c] = "idle" /\ Draft(c, "rewrite", s, row)
      /\ UNCHANGED <<db, keys, executed, held, pending>>
  BY DEF RewindRead
<1> HIDE DEF row
<1> QED  BY <1>1, <1>2, DraftStep

\* Nor does a close.
LEMMA CloseStep ==
  ASSUME IInv, NEW c \in Caller, NEW s \in Session, CloseRead(c, s)
  PROVE  IInv'
<1> DEFINE row == [sessions[s] EXCEPT !.status = "CLOSED"]
<1>0. sessions[s] \in SessionRow
  BY DEF IInv, TypeOK
<1>1. row \in SessionRow
  BY <1>0 DEF SessionRow
<1>2. /\ pc[c] = "idle" /\ Draft(c, "rewrite", s, row)
      /\ UNCHANGED <<db, keys, executed, held, pending>>
  BY DEF CloseRead
<1> HIDE DEF row
<1> QED  BY <1>1, <1>2, DraftStep

\* Writing a rewound or closed row back ends the call.
LEMMA RewriteStep ==
  ASSUME IInv, NEW c \in Caller, Rewrite(c)
  PROVE  IInv'
  BY FinishStep DEF Rewrite, IInv, TypeOK, Equipped

\* A crash takes every caller off its slot and loses the keys.
LEMMA CrashStep == ASSUME IInv, Crash PROVE IInv'
<1>1. TypeOK'
  BY SessionAssumption DEF Crash, db, IInv, TypeOK, NoRow, SessionRow, Scheme
<1>2. (Equipped /\ SlotKey /\ Replaying /\ Custody /\ Exclusive)'
  BY DEF Crash, db, IInv, Equipped, SlotKey, Replaying, Custody, Exclusive
<1>3. (ExecutedOnce /\ ResponsesAreTruthful)'
  BY DEF Crash, db, IInv, ExecutedOnce, ResponsesAreTruthful, Stored
<1> QED  BY <1>1, <1>2, <1>3 DEF IInv

\* Every step of a call in flight preserves the invariant.
LEMMA CallStepIInv ==
  ASSUME IInv, NEW c \in Caller, CallStep(c)
  PROVE  IInv'
<1>1. CASE ReplayNext(c)
  <2>1. PICK p \in pending[c] : Begin(c, p)
    BY <1>1 DEF ReplayNext
  <2>2. p \in Packet
    BY DEF IInv, TypeOK
  <2> QED  BY <1>1, <2>1, <2>2, BeginStep DEF ReplayNext
<1> QED
  BY <1>1, StoreStep, AdvanceReadStep, AdvanceWriteStep, DispatchStep, RespondStep,
     RewriteStep DEF CallStep

\* So does the start of every call.
LEMMA NewCallIInv ==
  ASSUME IInv, NEW c \in Caller, NewCall(c)
  PROVE  IInv'
<1>1. ASSUME NEW p \in Packet, Apply(c, p) PROVE IInv'
  <2>1. pc[c] = "idle" /\ pending[c] = {}
    BY <1>1 DEF Apply, IInv, Replaying
  <2> QED  BY <1>1, <2>1, BeginStep DEF Apply
<1> QED
  BY <1>1, OpenStep, ReplayStep, RewindStep, CloseStep, ForkStep DEF NewCall

\* And hence every step of the system.
LEMMA NextIInv == IInv /\ [Next]_vars => IInv'
<1> SUFFICES ASSUME IInv, [Next]_vars PROVE IInv'
  OBVIOUS
<1>1. CASE UNCHANGED vars
  BY <1>1, RowStep DEF vars, db, local, IInv, TypeOK
<1> QED  BY <1>1, CallStepIInv, NewCallIInv, CrashStep DEF Next

(* The strengthened invariant: one caller at most has custody of a slot.   *)
THEOREM Invariance == Spec => []IInv
  BY InitIInv, NextIInv, PTL DEF Spec

(* The variables keep their types.                                         *)
THEOREM TypeCorrect == Spec => []TypeOK
<1>1. IInv => TypeOK
  BY DEF IInv
<1> QED  BY <1>1, Invariance, PTL

(* The handler of a packet never starts twice, however often the packet is *)
(* sent, rewound, replayed or caught in a crash: session_apply_packet.     *)
THEOREM AtMostOnce == Spec => []AtMostOnceExecution
<1>1. IInv => AtMostOnceExecution
  BY DEF IInv, ExecutedOnce, AtMostOnceExecution
<1> QED  BY <1>1, Invariance, PTL

(* A response row matches what became of its packet.                       *)
THEOREM Truthful == Spec => []ResponsesAreTruthful
<1>1. IInv => ResponsesAreTruthful
  BY DEF IInv
<1> QED  BY <1>1, Invariance, PTL

(* session_replay_from never gets past the insert.                         *)
THEOREM ReplayInert == Spec => []ReplayIsInert
<1>1. IInv => ReplayIsInert
  BY DEF IInv, Replaying, ReplayIsInert
<1> QED  BY <1>1, Invariance, PTL
-----------------------------------------------------------------------------
\* What one step does to the slots: it leaves them all alone, or it takes one
\* slot one stage further -- an insert into a free slot, the start of a
\* handler, or an answer, the last two by the caller working on the slot.
Inserts(k) ==
    /\ k \notin Stored /\ k \notin Answered /\ executed[k] = 0
    /\ Stored' = Stored \cup {k}
    /\ UNCHANGED <<executed, Answered>>

Starts(k) ==
    /\ k \in Stored /\ k \notin Answered /\ executed[k] = 0
    /\ executed' = [executed EXCEPT ![k] = @ + 1]
    /\ UNCHANGED <<Stored, Answered>>

Answers(k) ==
    /\ k \in Stored /\ k \notin Answered
    /\ Answered' = Answered \cup {k}
    /\ UNCHANGED <<Stored, executed>>

SlotStep ==
    \/ UNCHANGED <<Stored, Answered, executed>>
    \/ \E k \in Slot : Inserts(k) \/ (Owned(k) /\ (Starts(k) \/ Answers(k)))

\* A response row adds its slot to the answered ones.
LEMMA AnsweredGrows ==
  ASSUME NEW k \in Slot, NEW b \in BOOLEAN, responses' = responses \cup {<<k, b>>}
  PROVE  Answered' = Answered \cup {k}
<1>1. <<k, b>>[1] = k
  OBVIOUS
<1>2. \A j : j \in Answered' <=> j \in Answered \/ j = k
  BY <1>1 DEF Answered
<1> QED  BY <1>2

\* The insert takes a slot from absent to stored.
LEMMA StoreSlotStep ==
  ASSUME IInv, NEW c \in Caller, StorePacket(c)
  PROVE  SlotStep
<1> DEFINE k == SlotOf(held[c])
<1>1. k \in Slot /\ UNCHANGED <<responses, executed>>
  BY SlotOfPacket DEF StorePacket, IInv, Equipped
<1>2. CASE SlotIsFree(held[c])
  <2>1. k \notin Stored /\ Stored' = Stored \cup {k} /\ Answered' = Answered
    BY <1>1, <1>2 DEF StorePacket, SlotIsFree, Stored, Answered
  <2>2. k \notin Answered /\ executed[k] = 0
    BY <1>1, <2>1, AnsweredStored DEF IInv, ExecutedOnce
  <2> QED  BY <1>1, <2>1, <2>2 DEF SlotStep, Inserts
<1>3. CASE ~SlotIsFree(held[c])
  BY <1>1, <1>3 DEF StorePacket, SlotStep, Stored, Answered
<1> QED  BY <1>2, <1>3

\* The handler's start takes the caller's slot one stage further.
LEMMA DispatchSlotStep ==
  ASSUME IInv, NEW c \in Caller, Dispatch(c)
  PROVE  SlotStep
<1> DEFINE k == SlotOf(held[c])
<1>1. /\ k \in Slot /\ k \in Stored /\ k \notin Answered /\ executed[k] = 0 /\ Owned(k)
  BY SlotOfPacket DEF Dispatch, IInv, Equipped, Custody, Stored, Owned
<1>2. Stored' = Stored /\ Answered' = Answered
  BY DEF Dispatch, db, Stored, Answered
<1>3. executed' = executed \/ executed' = [executed EXCEPT ![k] = @ + 1]
  BY DEF Dispatch
<1> QED  BY <1>1, <1>2, <1>3 DEF SlotStep, Starts

\* So does the answer.
LEMMA RespondSlotStep ==
  ASSUME IInv, NEW c \in Caller, Respond(c)
  PROVE  SlotStep
<1> DEFINE k == SlotOf(held[c])
           b == Accepted(held[c])
<1>1. /\ k \in Slot /\ k \in Stored /\ k \notin Answered /\ Owned(k)
  BY SlotOfPacket DEF Respond, IInv, Equipped, Custody, Stored, Owned
<1>2. Stored' = Stored /\ executed' = executed /\ b \in BOOLEAN
  BY DEF Respond, Stored, Accepted
<1>3. responses' = responses \/ responses' = responses \cup {<<k, b>>}
  BY DEF Respond
<1>4. Answered' = Answered \/ Answered' = Answered \cup {k}
  <2> HIDE DEF b
  <2>1. CASE responses' = responses
    BY <2>1 DEF Answered
  <2>2. CASE responses' = responses \cup {<<k, b>>}
    BY <1>1, <1>2, <2>2, AnsweredGrows
  <2> QED  BY <1>3, <2>1, <2>2
<1> QED  BY <1>1, <1>2, <1>4 DEF SlotStep, Answers

\* No step of the system does anything else to a slot.
LEMMA NextSlotStep == IInv /\ [Next]_vars => SlotStep
<1> SUFFICES ASSUME IInv, [Next]_vars PROVE SlotStep
  OBVIOUS
<1>1. ASSUME UNCHANGED <<packets, responses, executed>> PROVE SlotStep
  BY <1>1 DEF SlotStep, Stored, Answered
<1>2. ASSUME NEW c \in Caller, CallStep(c) PROVE SlotStep
  BY <1>1, <1>2, StoreSlotStep, DispatchSlotStep, RespondSlotStep
  DEF CallStep, AdvanceRead, AdvanceWrite, ReplayNext, Begin, Rewrite, db
<1>3. ASSUME NEW c \in Caller, NewCall(c) PROVE SlotStep
  BY <1>1, <1>3
  DEF NewCall, Open, Apply, Begin, Replay, RewindRead, CloseRead, Fork, db
<1>4. ASSUME Crash PROVE SlotStep
  BY <1>1, <1>4 DEF Crash, db
<1>5. CASE UNCHANGED vars
  BY <1>1, <1>5 DEF vars, db
<1> QED  BY <1>2, <1>3, <1>4, <1>5 DEF Next

\* A caller that keeps its packet, or stops working, takes up no slot.
LEMMA NoNewOwner ==
  ASSUME NEW k,
         \A d \in Caller : pc'[d] \in Working => pc[d] \in Working /\ held'[d] = held[d]
  PROVE  Owned(k)' => Owned(k)
  BY DEF Owned, SlotOf

\* Only the insert of a packet makes a caller work, and only on a free slot.
LEMMA NextOwner ==
  ASSUME IInv, [Next]_vars, NEW k \in Stored
  PROVE  Owned(k)' => Owned(k)
<1> USE DEF IInv, TypeOK
<1>1. ASSUME NEW c \in Caller, Finish(c) PROVE Owned(k)' => Owned(k)
  BY <1>1, NoNewOwner DEF Finish, Goto
<1>2. ASSUME NEW c \in Caller, NEW l, l \notin Working, Goto(c, l),
             \A d \in Caller \ {c} : held'[d] = held[d]
      PROVE  Owned(k)' => Owned(k)
  BY <1>2, NoNewOwner DEF Goto
<1>3. ASSUME NEW c \in Caller, NEW l, pc[c] \in Working, Goto(c, l), UNCHANGED held
      PROVE  Owned(k)' => Owned(k)
  BY <1>3, NoNewOwner DEF Goto
<1>4. ASSUME UNCHANGED <<pc, held>> PROVE Owned(k)' => Owned(k)
  BY <1>4, NoNewOwner
<1>5. ASSUME NEW c \in Caller, NEW p, Begin(c, p) PROVE Owned(k)' => Owned(k)
  BY <1>1, <1>2, <1>5 DEF Begin
<1>6. ASSUME NEW c \in Caller, StorePacket(c) PROVE Owned(k)' => Owned(k)
  <2>1. CASE SlotIsFree(held[c])
    <3>1. /\ pc' = [pc EXCEPT ![c] = "advance"]
          /\ held' = held
          /\ SlotOf(held[c]) # k
      BY <1>6, <2>1 DEF StorePacket, Goto, SlotIsFree
    <3> QED  BY <3>1 DEF Owned, SlotOf
  <2>2. CASE ~SlotIsFree(held[c])
    BY <1>1, <1>6, <2>2 DEF StorePacket
  <2> QED  BY <2>1, <2>2
<1>7. ASSUME NEW c \in Caller, CallStep(c) PROVE Owned(k)' => Owned(k)
  <2>1. CASE AdvanceRead(c)
    BY <1>1, <1>3, <2>1 DEF AdvanceRead, Draft
  <2>2. CASE AdvanceWrite(c)
    BY <1>3, <2>2 DEF AdvanceWrite
  <2>3. CASE Dispatch(c)
    BY <1>1, <1>3, <2>3 DEF Dispatch
  <2>4. CASE Respond(c)
    BY <1>1, <1>2, <2>4 DEF Respond
  <2>5. CASE ReplayNext(c)
    BY <1>5, <2>5 DEF ReplayNext
  <2>6. CASE Rewrite(c)
    BY <1>1, <2>6 DEF Rewrite
  <2> QED  BY <1>6, <1>7, <2>1, <2>2, <2>3, <2>4, <2>5, <2>6 DEF CallStep
<1>8. ASSUME NEW c \in Caller, NewCall(c) PROVE Owned(k)' => Owned(k)
  <2>1. ASSUME NEW p, Apply(c, p) PROVE Owned(k)' => Owned(k)
    BY <1>5, <2>1 DEF Apply
  <2>2. ASSUME NEW s, NEW q, Replay(c, s, q) \/ RewindRead(c, s, q)
        PROVE  Owned(k)' => Owned(k)
    BY <1>2, <2>2 DEF Replay, RewindRead, Draft
  <2>3. ASSUME NEW s, CloseRead(c, s) PROVE Owned(k)' => Owned(k)
    BY <1>2, <2>3 DEF CloseRead, Draft
  <2> QED  BY <1>4, <1>8, <2>1, <2>2, <2>3 DEF NewCall, Open, Fork, local
<1>9. ASSUME Crash PROVE Owned(k)' => Owned(k)
  BY <1>9, NoNewOwner DEF Crash
<1>10. CASE UNCHANGED vars
  BY <1>4, <1>10 DEF vars, local
<1> QED  BY <1>7, <1>8, <1>9, <1>10 DEF Next

(* A packet that was stored but that no call is working on any more is     *)
(* never taken up, executed or answered: nothing in session.py does.       *)
THEOREM OrphansLost == Spec => OrphansStayLost
<1>1. IInv /\ [Next]_vars =>
        [\A k \in Stored \ Answered :
            ~Owned(k) => /\ ~Owned(k)'
                         /\ executed'[k] = executed[k]
                         /\ k \notin Answered']_vars
  <2> SUFFICES ASSUME IInv, [Next]_vars, NEW k \in Stored \ Answered, ~Owned(k)
               PROVE  ~Owned(k)' /\ executed'[k] = executed[k] /\ k \notin Answered'
    OBVIOUS
  <2>1. SlotStep
    BY NextSlotStep
  <2>2. executed \in [Slot -> Nat]
    BY DEF IInv, TypeOK
  <2>3. k \in Slot
    BY SlotOfPacket DEF IInv, TypeOK, Stored
  <2>4. executed'[k] = executed[k] /\ k \notin Answered'
    BY <2>1, <2>2, <2>3 DEF SlotStep, Inserts, Starts, Answers
  <2> QED  BY <2>4, NextOwner
<1> QED  BY <1>1, Invariance, PTL DEF Spec, OrphansStayLost

(* The session layer implements AtMostOnceLog.                             *)
THEOREM Refinement == Spec => LogSpec
<1> DEFINE bar == [k \in Slot |-> StageOf(k)]
<1>1. Init => Log!Init
  BY DEF Init, Log!Init, StageOf, Answered, Stored
<1>2. IInv /\ [Next]_vars => [Log!Next]_(Log!vars)
  <2> SUFFICES ASSUME IInv, [Next]_vars
               PROVE  [Log!Next]_(Log!vars)
    OBVIOUS
  <2>1. executed \in [Slot -> Nat]
    BY DEF IInv, TypeOK
  <2>2. CASE UNCHANGED <<Stored, Answered, executed>>
    BY <2>2 DEF Log!vars, StageOf
  <2>3. ASSUME NEW k \in Slot, Inserts(k) PROVE Log!Store(k)
    <3>1. StageOf(k) = "absent"
      BY <2>1, <2>3 DEF Inserts, StageOf
    <3>2. \A j \in Slot : StageOf(j)' = IF j = k THEN "stored" ELSE StageOf(j)
      BY <2>1, <2>3 DEF Inserts, StageOf
    <3>3. bar' = [bar EXCEPT ![k] = "stored"] /\ bar[k] = "absent"
      BY <3>1, <3>2
    <3> QED  BY <2>3, <3>3 DEF Inserts, Log!Store
  <2>4. ASSUME NEW k \in Slot, Starts(k) PROVE Log!Execute(k)
    <3>1. StageOf(k) = "stored"
      BY <2>1, <2>4 DEF Starts, StageOf
    <3>2. \A j \in Slot : StageOf(j)' = IF j = k THEN "executed" ELSE StageOf(j)
      BY <2>1, <2>4 DEF Starts, StageOf
    <3>3. bar' = [bar EXCEPT ![k] = "executed"] /\ bar[k] = "stored"
      BY <3>1, <3>2
    <3> QED  BY <2>4, <3>3 DEF Starts, Log!Execute
  <2>5. ASSUME NEW k \in Slot, Answers(k) PROVE Log!Answer(k)
    BY <2>1, <2>5 DEF Answers, Log!Answer, StageOf
  <2> QED  BY <2>2, <2>3, <2>4, <2>5, NextSlotStep DEF SlotStep, Log!Next
<1> QED  BY <1>1, <1>2, Invariance, PTL DEF Spec, LogSpec, Log!Spec

-----------------------------------------------------------------------------
\* Keys.  What a call saw of a session and its key when it checked the proof, or
\* read the row it will write back, still holds: a session keeps its scheme, and
\* a key goes only when every call goes.
Exists(s) == sessions[s].status # "ABSENT"

KeyInvOf(c) ==
    /\ pc[c] \in {"store", "advance"} => Exists(held[c].session)
    /\ pc[c] = "store" => ProofVerifies(held[c])
    /\ pc[c] \in {"writeback", "rewrite"} =>
          /\ Exists(target[c])
          /\ draft[c].status # "ABSENT" /\ draft[c].scheme = sessions[target[c]].scheme

KeyInv == \A c \in Caller : KeyInvOf(c)

SchemesStay ==
    /\ keys \subseteq keys'
    /\ \A s \in Session :
          Exists(s) => sessions'[s].status # "ABSENT" /\ sessions'[s].scheme = sessions[s].scheme

\* The other calls keep what they know.
LEMMA OthersKnow ==
  ASSUME IInv, KeyInv, SchemesStay, NEW d \in Caller,
         pc'[d] = pc[d], held'[d] = held[d], draft'[d] = draft[d], target'[d] = target[d]
  PROVE  KeyInvOf(d)'
<1>1. KeyInvOf(d)
  BY DEF KeyInv
<1>2. pc[d] \in {"store", "advance"} => held[d].session \in Session
  BY DEF IInv, Equipped, Packet
<1>3. pc[d] \in {"writeback", "rewrite"} => target[d] \in Session
  BY DEF IInv, Equipped
<1>4. CASE pc[d] = "store"
  BY <1>1, <1>2, <1>4 DEF KeyInvOf, SchemesStay, Exists, ProofVerifies
<1>5. CASE pc[d] = "advance"
  BY <1>1, <1>2, <1>5 DEF KeyInvOf, SchemesStay, Exists
<1>6. CASE pc[d] \in {"writeback", "rewrite"}
  BY <1>1, <1>3, <1>6 DEF KeyInvOf, SchemesStay, Exists
<1>7. CASE pc[d] \notin {"store", "advance", "writeback", "rewrite"}
  BY <1>7 DEF KeyInvOf
<1> QED  BY <1>4, <1>5, <1>6, <1>7

\* So a step of one call is a matter of that call.
LEMMA OneCallKnows ==
  ASSUME IInv, KeyInv, SchemesStay, NEW c \in Caller, KeyInvOf(c)',
         \A d \in Caller \ {c} :
             pc'[d] = pc[d] /\ held'[d] = held[d] /\ draft'[d] = draft[d] /\ target'[d] = target[d]
  PROVE  KeyInv'
<1> SUFFICES ASSUME NEW d \in Caller PROVE KeyInvOf(d)'
  BY DEF KeyInv
<1> QED  BY OthersKnow

\* A call that ends knows nothing.
LEMMA FinishKnows ==
  ASSUME IInv, KeyInv, SchemesStay, NEW c \in Caller, Finish(c)
  PROVE  KeyInv'
<1>1. pc'[c] = "idle"
  BY DEF Finish, Goto, IInv, TypeOK
<1>2. KeyInvOf(c)'
  BY <1>1 DEF KeyInvOf
<1> QED  BY <1>2, OneCallKnows DEF Finish, Goto, IInv, TypeOK

LEMMA SameRows == UNCHANGED <<sessions, keys>> => SchemesStay
  BY DEF SchemesStay, Exists

\* The proof was checked against the key the process holds.
LEMMA BeginKnows ==
  ASSUME IInv, KeyInv, NEW c \in Caller, NEW p \in Packet, Begin(c, p)
  PROVE  KeyInv'
<1>1. UNCHANGED <<sessions, keys>>
  BY DEF Begin, db
<1>2. CASE Admits(p)
  <2>1. pc'[c] = "store" /\ held'[c] = p
    BY <1>2 DEF Begin, Goto, IInv, TypeOK
  <2>2. Exists(p.session) /\ ProofVerifies(p)
    BY <1>2 DEF Admits, Exists
  <2>3. KeyInvOf(c)'
    BY <1>1, <2>1, <2>2 DEF KeyInvOf, Exists, ProofVerifies
  <2> QED  BY <1>1, <1>2, <2>3, OneCallKnows, SameRows DEF Begin, Goto, IInv, TypeOK
<1>3. CASE ~Admits(p)
  BY <1>1, <1>3, FinishKnows, SameRows DEF Begin
<1> QED  BY <1>2, <1>3

\* A row read to be written back has the scheme the session has for good.
LEMMA DraftKnows ==
  ASSUME IInv, KeyInv, NEW c \in Caller, NEW l \in {"writeback", "rewrite"}, NEW s \in Session,
         NEW row, Draft(c, l, s, row), UNCHANGED <<sessions, keys, held>>,
         Exists(s), row.status # "ABSENT", row.scheme = sessions[s].scheme
  PROVE  KeyInv'
<1>1. pc'[c] = l /\ draft'[c] = row /\ target'[c] = s
  BY DEF Draft, Goto, IInv, TypeOK
<1>2. KeyInvOf(c)'
  BY <1>1 DEF KeyInvOf, Exists
<1> QED  BY <1>2, OneCallKnows, SameRows DEF Draft, Goto, IInv, TypeOK

\* Writing it back changes neither that nor the keys.
LEMMA WriteKeepsSchemes ==
  ASSUME IInv, KeyInv, NEW c \in Caller, pc[c] \in {"writeback", "rewrite"},
         sessions' = [sessions EXCEPT ![target[c]] = draft[c]], keys' = keys
  PROVE  SchemesStay
  BY DEF KeyInv, KeyInvOf, SchemesStay, Exists, IInv, TypeOK

\* A new row takes an id no session has.
LEMMA NewRowKeepsSchemes ==
  ASSUME IInv, NEW s \in Session, ~Exists(s), NEW row,
         sessions' = [sessions EXCEPT ![s] = row], keys \subseteq keys'
  PROVE  SchemesStay
  BY DEF SchemesStay, Exists, IInv, TypeOK

LEMMA CallStepKnows ==
  ASSUME IInv, KeyInv, NEW c \in Caller, CallStep(c)
  PROVE  KeyInv'
<1>1. CASE StorePacket(c)
  <2>1. UNCHANGED <<sessions, keys>> /\ pc[c] = "store"
    BY <1>1 DEF StorePacket
  <2>2. CASE SlotIsFree(held[c])
    <3>1. pc'[c] = "advance" /\ held' = held
      BY <1>1, <2>2 DEF StorePacket, Goto, IInv, TypeOK
    <3>2. KeyInvOf(c)'
      BY <2>1, <3>1 DEF KeyInv, KeyInvOf, Exists
    <3> QED  BY <1>1, <2>1, <2>2, <3>2, OneCallKnows, SameRows
             DEF StorePacket, Goto, IInv, TypeOK
  <2>3. CASE ~SlotIsFree(held[c])
    BY <1>1, <2>1, <2>3, FinishKnows, SameRows DEF StorePacket
  <2> QED  BY <2>2, <2>3
<1>2. CASE AdvanceRead(c)
  <2> DEFINE s == held[c].session
             row == AdvancedRow(sessions[s], held[c])
  <2>1. UNCHANGED <<sessions, keys>> /\ pc[c] = "advance"
    BY <1>2 DEF AdvanceRead, db
  <2>2. s \in Session /\ Exists(s) /\ sessions[s] \in SessionRow
    BY <2>1 DEF KeyInv, KeyInvOf, IInv, Equipped, TypeOK, Packet
  <2>3. row.status # "ABSENT" /\ row.scheme = sessions[s].scheme
    BY <2>2 DEF AdvancedRow, Exists, SessionRow
  <2>4. \/ Finish(c)
        \/ Draft(c, "writeback", s, row) /\ UNCHANGED held
    BY <1>2 DEF AdvanceRead
  <2> HIDE DEF row, s
  <2> QED  BY <2>1, <2>2, <2>3, <2>4, FinishKnows, DraftKnows, SameRows
<1>3. CASE AdvanceWrite(c)
  <2>1. SchemesStay
    BY <1>3, WriteKeepsSchemes DEF AdvanceWrite
  <2>2. pc'[c] = "dispatch"
    BY <1>3 DEF AdvanceWrite, Goto, IInv, TypeOK
  <2>3. KeyInvOf(c)'
    BY <2>2 DEF KeyInvOf
  <2> QED  BY <1>3, <2>1, <2>3, OneCallKnows DEF AdvanceWrite, Goto, IInv, TypeOK
<1>4. CASE Dispatch(c)
  <2>1. SchemesStay
    BY <1>4, SameRows DEF Dispatch, db
  <2>2. CASE Finish(c)
    BY <2>1, <2>2, FinishKnows
  <2>3. CASE Goto(c, "respond") /\ UNCHANGED <<held, draft, target>>
    <3>1. pc'[c] = "respond"
      BY <2>3 DEF Goto, IInv, TypeOK
    <3>2. KeyInvOf(c)'
      BY <3>1 DEF KeyInvOf
    <3> QED  BY <2>1, <2>3, <3>2, OneCallKnows DEF Goto, IInv, TypeOK
  <2> QED  BY <1>4, <2>2, <2>3 DEF Dispatch
<1>5. CASE Respond(c)
  <2>1. SchemesStay
    BY <1>5, SameRows DEF Respond
  <2>2. CASE Finish(c)
    BY <2>1, <2>2, FinishKnows
  <2>3. CASE /\ Goto(c, "replay") /\ held' = [held EXCEPT ![c] = <<>>]
             /\ UNCHANGED <<draft, target>>
    <3>1. pc'[c] = "replay"
      BY <2>3 DEF Goto, IInv, TypeOK
    <3>2. KeyInvOf(c)'
      BY <3>1 DEF KeyInvOf
    <3> QED  BY <2>1, <2>3, <3>2, OneCallKnows DEF Goto, IInv, TypeOK
  <2> QED  BY <1>5, <2>2, <2>3 DEF Respond
<1>6. CASE ReplayNext(c)
  <2>1. PICK p \in pending[c] : Begin(c, p)
    BY <1>6 DEF ReplayNext
  <2>2. p \in Packet
    BY DEF IInv, TypeOK
  <2> QED  BY <2>1, <2>2, BeginKnows
<1>7. CASE Rewrite(c)
  <2>1. SchemesStay
    BY <1>7, WriteKeepsSchemes DEF Rewrite
  <2> QED  BY <1>7, <2>1, FinishKnows DEF Rewrite
<1> QED  BY <1>1, <1>2, <1>3, <1>4, <1>5, <1>6, <1>7 DEF CallStep

LEMMA NewCallKnows ==
  ASSUME IInv, KeyInv, NEW c \in Caller, NewCall(c)
  PROVE  KeyInv'
<1>1. ASSUME SchemesStay, UNCHANGED local PROVE KeyInv'
  BY <1>1, OthersKnow DEF local, KeyInv
<1>2. ASSUME NEW s \in Session, NEW scheme, NEW secret, Open(c, s, scheme, secret)
      PROVE  KeyInv'
  <2>1. SchemesStay
    BY <1>2, NewRowKeepsSchemes DEF Open, Exists
  <2> QED  BY <1>1, <1>2, <2>1 DEF Open
<1>3. ASSUME NEW base, NEW s \in Session, NEW q, Fork(c, base, s, q)
      PROVE  KeyInv'
  <2>1. SchemesStay
    BY <1>3, NewRowKeepsSchemes DEF Fork, Exists
  <2> QED  BY <1>1, <1>3, <2>1 DEF Fork
<1>4. ASSUME NEW p \in Packet, Apply(c, p) PROVE KeyInv'
  BY <1>4, BeginKnows DEF Apply
<1>5. ASSUME NEW s \in Session, NEW q, Replay(c, s, q) PROVE KeyInv'
  <2>1. pc'[c] = "replay" /\ UNCHANGED <<sessions, keys, held, draft, target>>
    BY <1>5 DEF Replay, Goto, db, IInv, TypeOK
  <2>2. KeyInvOf(c)'
    BY <2>1 DEF KeyInvOf
  <2> QED  BY <1>5, <2>1, <2>2, OneCallKnows, SameRows DEF Replay, Goto, IInv, TypeOK
<1>6. ASSUME NEW s \in Session, NEW q, RewindRead(c, s, q) PROVE KeyInv'
  <2> DEFINE row == RewoundRow(sessions[s], q)
  <2>1. sessions[s] \in SessionRow
    BY DEF IInv, TypeOK
  <2>2. row.status = sessions[s].status /\ row.scheme = sessions[s].scheme
    BY <2>1 DEF RewoundRow, SessionRow
  <2>3. Draft(c, "rewrite", s, row) /\ Exists(s) /\ UNCHANGED <<sessions, keys, held>>
    BY <1>6 DEF RewindRead, Exists, db
  <2>4. row.status # "ABSENT"
    BY <2>2, <2>3 DEF Exists
  <2> HIDE DEF row
  <2> QED  BY <2>2, <2>3, <2>4, DraftKnows
<1>7. ASSUME NEW s \in Session, CloseRead(c, s) PROVE KeyInv'
  <2> DEFINE row == [sessions[s] EXCEPT !.status = "CLOSED"]
  <2>1. sessions[s] \in SessionRow
    BY DEF IInv, TypeOK
  <2>2. row.status # "ABSENT" /\ row.scheme = sessions[s].scheme
    BY <2>1 DEF SessionRow
  <2>3. Draft(c, "rewrite", s, row) /\ Exists(s) /\ UNCHANGED <<sessions, keys, held>>
    BY <1>7 DEF CloseRead, Exists, db
  <2> HIDE DEF row
  <2> QED  BY <2>2, <2>3, DraftKnows
<1> QED  BY <1>2, <1>3, <1>4, <1>5, <1>6, <1>7 DEF NewCall

\* Initially and after a crash no call knows anything.
LEMMA KeyInvHolds == Spec => [](IInv /\ KeyInv)
<1>1. Init => KeyInv
  BY DEF Init, KeyInv, KeyInvOf
<1>2. IInv /\ KeyInv /\ [Next]_vars => KeyInv'
  <2> SUFFICES ASSUME IInv, KeyInv, [Next]_vars PROVE KeyInv'
    OBVIOUS
  <2>1. CASE Crash
    BY <2>1 DEF Crash, KeyInv, KeyInvOf
  <2>2. CASE UNCHANGED vars
    <3>1. SchemesStay
      BY <2>2, SameRows DEF vars, db
    <3> QED  BY <2>2, <3>1, OthersKnow DEF vars, local, KeyInv
  <2> QED  BY <2>1, <2>2, CallStepKnows, NewCallKnows DEF Next
<1> QED  BY <1>1, <1>2, InitIInv, NextIInv, PTL DEF Spec

(* Without its key in memory -- after a restart, or as a fork -- a SIGNED  *)
(* session takes no packet, whatever calls were in flight: between the     *)
(* proof check of session_apply_packet and the insert nothing of what was  *)
(* checked can change.                                                     *)
THEOREM SignedNeedsKey == Spec => SignedNeedsItsKey
<1>1. IInv /\ KeyInv /\ [Next]_vars =>
        [\A s \in Session :
            sessions[s].scheme = "SIGNED" /\ s \notin keys
            => \A p \in packets' \ packets : p.session # s]_vars
  <2> SUFFICES ASSUME IInv, KeyInv, [Next]_vars, NEW s \in Session,
                      sessions[s].scheme = "SIGNED", s \notin keys,
                      NEW p \in packets' \ packets
               PROVE  p.session # s
    OBVIOUS
  <2>1. PICK c \in Caller : StorePacket(c)
    <3>1. packets' # packets
      OBVIOUS
    <3>2. ASSUME NEW c \in Caller, CallStep(c), ~StorePacket(c) PROVE packets' = packets
      BY <3>2 DEF CallStep, AdvanceRead, AdvanceWrite, Dispatch, Respond, ReplayNext, Begin,
                  Rewrite, db
    <3>3. ASSUME NEW c \in Caller, NewCall(c) PROVE packets' = packets
      BY <3>3 DEF NewCall, Open, Apply, Begin, Replay, RewindRead, CloseRead, Fork, db
    <3>4. Crash \/ UNCHANGED vars => packets' = packets
      BY DEF Crash, vars, db
    <3> QED  BY <3>1, <3>2, <3>3, <3>4 DEF Next
  <2>2. pc[c] = "store" /\ p = held[c]
    BY <2>1 DEF StorePacket
  <2> QED  BY <2>2 DEF KeyInv, KeyInvOf, ProofVerifies
<1> QED  BY <1>1, KeyInvHolds, PTL DEF SignedNeedsItsKey, Spec
=============================================================================
