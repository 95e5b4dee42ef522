--------------------------- MODULE VermythSession ---------------------------
(***************************************************************************)
(* The V2 session layer: mcp/tools/session.py over the three tables of     *)
(* grimoire/repositories/sessions.py (migration v008) and the in-memory    *)
(* cache of session keys.                                                  *)
(*                                                                         *)
(* Callers are threads of one process that share one VermythTools and one  *)
(* SQLite connection (store.py opens it with check_same_thread=False).     *)
(* Every repository call is one transaction, so each is one step, and the  *)
(* steps of different callers interleave.  A crash ends every call in      *)
(* flight and empties the key cache; the tables survive.                   *)
(*                                                                         *)
(* Abstracted: identities, payloads and proofs.  A packet here is one with *)
(* a well-formed proof; any other is refused with no change of state.      *)
(***************************************************************************)
EXTENDS Naturals, FiniteSets

CONSTANTS
    Session,        \* session ids the run may hand out
    Caller,         \* concurrent calls into the tools object
    MaxSequence,    \* bound on packet sequence numbers
    ReplayLimit     \* the limit argument of session_replay_from

ASSUME SessionAssumption ==
    /\ MaxSequence \in Nat
    /\ ReplayLimit \in Nat

Sequence == 1 .. MaxSequence
Kind == {"cast", "other"}          \* in BINARY_DISPATCH, or not
Scheme == {"HASH", "SIGNED"}
Packet == [session : Session, sequence : Sequence, kind : Kind]
Slot == Session \X Sequence        \* the primary key of both packet tables
SessionRow == [status : {"ABSENT", "OPEN", "CLOSED"},
               scheme : Scheme,
               last : 0 .. MaxSequence]

NoRow == [status |-> "ABSENT", scheme |-> "HASH", last |-> 0]

VARIABLES
    sessions,   \* table sessions: the row of each id
    packets,    \* table session_packets
    responses,  \* table session_responses: slot and accepted flag
    keys,       \* _session_key_cache: ids whose signing secret is in memory
    executed,   \* history: how often the handler of a slot was started
    pc,         \* where each caller is
    held,       \* the packet a caller is applying (<<>> when none)
    draft,      \* the session row a caller computed and will write back
    target,     \* the session id that row belongs to (<<>> when none)
    pending     \* the packets a session_replay_from has still to apply

db == <<sessions, packets, responses>>
local == <<pc, held, draft, target, pending>>
vars == <<db, keys, executed, local>>

SlotOf(p) == <<p.session, p.sequence>>
Stored == {SlotOf(p) : p \in packets}
Answered == {r[1] : r \in responses}

Location == {"idle", "replay", "store", "advance", "writeback", "dispatch",
             "respond", "rewrite"}

TypeOK ==
    /\ sessions \in [Session -> SessionRow]
    /\ packets \subseteq Packet
    /\ responses \subseteq Slot \X BOOLEAN
    /\ keys \subseteq Session
    /\ executed \in [Slot -> Nat]
    /\ pc \in [Caller -> Location]
    /\ held \in [Caller -> Packet \cup {<<>>}]
    /\ draft \in [Caller -> SessionRow]
    /\ target \in [Caller -> Session \cup {<<>>}]
    /\ pending \in [Caller -> SUBSET Packet]

Init ==
    /\ sessions = [s \in Session |-> NoRow]
    /\ packets = {}
    /\ responses = {}
    /\ keys = {}
    /\ executed = [k \in Slot |-> 0]
    /\ pc = [c \in Caller |-> "idle"]
    /\ held = [c \in Caller |-> <<>>]
    /\ draft = [c \in Caller |-> NoRow]
    /\ target = [c \in Caller |-> <<>>]
    /\ pending = [c \in Caller |-> {}]

-----------------------------------------------------------------------------
(* Moving a caller.                                                        *)

Goto(c, l) == pc' = [pc EXCEPT ![c] = l]

\* The call is over: it returned, or an exception left it.
Finish(c) ==
    /\ Goto(c, "idle")
    /\ held' = [held EXCEPT ![c] = <<>>]
    /\ draft' = [draft EXCEPT ![c] = NoRow]
    /\ target' = [target EXCEPT ![c] = <<>>]
    /\ pending' = [pending EXCEPT ![c] = {}]

\* A row was read and changed in memory; it is written back later.
Draft(c, l, s, row) ==
    /\ Goto(c, l)
    /\ draft' = [draft EXCEPT ![c] = row]
    /\ target' = [target EXCEPT ![c] = s]

-----------------------------------------------------------------------------
(* session_open: a fresh id; with a signing secret, its key is cached.     *)
Open(c, s, scheme, secret) ==
    /\ pc[c] = "idle"
    /\ sessions[s].status = "ABSENT"
    /\ sessions' = [sessions EXCEPT
                      ![s] = [status |-> "OPEN", scheme |-> scheme, last |-> 0]]
    /\ keys' = IF secret THEN keys \cup {s} ELSE keys
    /\ UNCHANGED <<packets, responses, executed, local>>

(* session_apply_packet, up to the proof: read the session row, compare    *)
(* the sequence with it, verify the proof.  A CLOSED session is not        *)
(* refused.                                                                *)
\* Mutant: a SIGNED session whose key is gone lets the packet through.
ProofVerifiesWithoutKey(p) == TRUE
ProofVerifies(p) ==
    sessions[p.session].scheme = "SIGNED" => p.session \in keys

Admits(p) ==
    /\ sessions[p.session].status # "ABSENT"
    /\ p.sequence > sessions[p.session].last
    /\ ProofVerifies(p)

Begin(c, p) ==
    IF Admits(p)
    THEN /\ Goto(c, "store")
         /\ held' = [held EXCEPT ![c] = p]
         /\ UNCHANGED <<db, keys, executed, draft, target, pending>>
    ELSE /\ Finish(c)
         /\ UNCHANGED <<db, keys, executed>>

Apply(c, p) == pc[c] = "idle" /\ Begin(c, p)

(* write_session_packet: the primary key turns the second packet of a slot *)
(* away with an IntegrityError, and the call ends there.                   *)
\* Mutant: a table without the primary key.
SlotIsNotChecked(p) == TRUE
SlotIsFree(p) == SlotOf(p) \notin Stored

StorePacket(c) ==
    /\ pc[c] = "store"
    /\ IF SlotIsFree(held[c])
       THEN /\ packets' = packets \cup {held[c]}
            /\ Goto(c, "advance")
            /\ UNCHANGED <<held, draft, target, pending>>
       ELSE /\ Finish(c)
            /\ UNCHANGED packets
    /\ UNCHANGED <<sessions, responses, keys, executed>>

(* advance_session_sequence reads the row again and refuses a sequence     *)
(* that is no longer ahead; the packet row stays behind, never executed.   *)
AdvancedRow(row, p) == [row EXCEPT !.last = p.sequence]

AdvanceRead(c) ==
    /\ pc[c] = "advance"
    /\ LET s == held[c].session
           row == sessions[s]
       IN  IF held[c].sequence > row.last
           THEN /\ Draft(c, "writeback", s, AdvancedRow(row, held[c]))
                /\ UNCHANGED <<held, pending>>
           ELSE Finish(c)
    /\ UNCHANGED <<db, keys, executed>>

(* ... and writes every column of the row it read.                         *)
AdvanceWrite(c) ==
    /\ pc[c] = "writeback"
    /\ sessions' = [sessions EXCEPT ![target[c]] = draft[c]]
    /\ Goto(c, "dispatch")
    /\ draft' = [draft EXCEPT ![c] = NoRow]
    /\ target' = [target EXCEPT ![c] = <<>>]
    /\ UNCHANGED <<packets, responses, keys, executed, held, pending>>

(* The handler of BINARY_DISPATCH runs, and may raise.  An unknown type is *)
(* answered "not accepted" and runs nothing.                               *)
Dispatch(c) ==
    /\ pc[c] = "dispatch"
    /\ \/ /\ held[c].kind = "cast"
          /\ executed' = [executed EXCEPT ![SlotOf(held[c])] = @ + 1]
          /\ \/ Goto(c, "respond") /\ UNCHANGED <<held, draft, target, pending>>
             \/ Finish(c)
       \/ /\ held[c].kind # "cast"
          /\ Goto(c, "respond")
          /\ UNCHANGED <<executed, held, draft, target, pending>>
    /\ UNCHANGED <<db, keys>>

(* encode_response fails without the key of a SIGNED session, and          *)
(* write_session_response fails on the primary key.                        *)
CanAnswer(p) ==
    /\ sessions[p.session].scheme = "SIGNED" => p.session \in keys
    /\ SlotOf(p) \notin Answered

\* Mutant: whatever comes out of the dispatch is reported as accepted.
AlwaysAccepted(p) == TRUE
Accepted(p) == p.kind = "cast"

Respond(c) ==
    /\ pc[c] = "respond"
    /\ IF CanAnswer(held[c])
       THEN /\ responses' = responses \cup
                              {<<SlotOf(held[c]), Accepted(held[c])>>}
            /\ IF pending[c] \ {held[c]} # {}
               THEN /\ Goto(c, "replay")
                    /\ pending' = [pending EXCEPT ![c] = @ \ {held[c]}]
                    /\ held' = [held EXCEPT ![c] = <<>>]
                    /\ UNCHANGED <<draft, target>>
               ELSE Finish(c)
       ELSE /\ Finish(c)
            /\ UNCHANGED responses
    /\ UNCHANGED <<sessions, packets, keys, executed>>

-----------------------------------------------------------------------------
(* session_replay_from: the LIMIT picks the first rows of the session, and *)
(* only then are those up to the given sequence dropped.                   *)
FirstRows(s) ==
    {p \in packets :
        /\ p.session = s
        /\ Cardinality({q \in packets : /\ q.session = s
                                        /\ q.sequence < p.sequence}) < ReplayLimit}

Replay(c, s, from) ==
    /\ pc[c] = "idle"
    /\ LET chosen == {p \in FirstRows(s) : p.sequence > from}
       IN  /\ chosen # {}
           /\ pending' = [pending EXCEPT ![c] = chosen]
    /\ Goto(c, "replay")
    /\ UNCHANGED <<db, keys, executed, held, draft, target>>

ReplayNext(c) ==
    /\ pc[c] = "replay"
    /\ \E p \in pending[c] :
          /\ \A q \in pending[c] : p.sequence <= q.sequence
          /\ Begin(c, p)

(* session_rewind_to and close_session: read the row, write all of it back *)
(* with the one column changed.                                            *)
RewoundRow(row, to) == [row EXCEPT !.last = to]

RewindRead(c, s, to) ==
    /\ pc[c] = "idle"
    /\ sessions[s].status # "ABSENT"
    /\ to <= sessions[s].last
    /\ Draft(c, "rewrite", s, RewoundRow(sessions[s], to))
    /\ UNCHANGED <<db, keys, executed, held, pending>>

CloseRead(c, s) ==
    /\ pc[c] = "idle"
    /\ sessions[s].status # "ABSENT"
    /\ Draft(c, "rewrite", s, [sessions[s] EXCEPT !.status = "CLOSED"])
    /\ UNCHANGED <<db, keys, executed, held, pending>>

Rewrite(c) ==
    /\ pc[c] = "rewrite"
    /\ sessions' = [sessions EXCEPT ![target[c]] = draft[c]]
    /\ Finish(c)
    /\ UNCHANGED <<packets, responses, keys, executed>>

(* session_fork: a fresh OPEN session with the capabilities of the base.   *)
(* Neither packets nor the signing key go with it.                         *)
Fork(c, base, s, from) ==
    /\ pc[c] = "idle"
    /\ sessions[base].status # "ABSENT"
    /\ sessions[s].status = "ABSENT"
    /\ from <= sessions[base].last
    /\ sessions' = [sessions EXCEPT
                      ![s] = [status |-> "OPEN",
                              scheme |-> sessions[base].scheme, last |-> from]]
    /\ UNCHANGED <<packets, responses, keys, executed, local>>

(* The process dies and a new one opens the same database.                 *)
Crash ==
    /\ keys' = {}
    /\ pc' = [c \in Caller |-> "idle"]
    /\ held' = [c \in Caller |-> <<>>]
    /\ draft' = [c \in Caller |-> NoRow]
    /\ target' = [c \in Caller |-> <<>>]
    /\ pending' = [c \in Caller |-> {}]
    /\ UNCHANGED <<db, executed>>

-----------------------------------------------------------------------------
CallStep(c) ==
    \/ StorePacket(c)
    \/ AdvanceRead(c)
    \/ AdvanceWrite(c)
    \/ Dispatch(c)
    \/ Respond(c)
    \/ ReplayNext(c)
    \/ Rewrite(c)

NewCall(c) ==
    \/ \E s \in Session, scheme \in Scheme, secret \in BOOLEAN :
          Open(c, s, scheme, secret)
    \/ \E p \in Packet : Apply(c, p)
    \/ \E s \in Session, q \in 0 .. MaxSequence :
          Replay(c, s, q) \/ RewindRead(c, s, q)
    \/ \E s \in Session : CloseRead(c, s)
    \/ \E base, s \in Session, q \in 0 .. MaxSequence : Fork(c, base, s, q)

Next == (\E c \in Caller : CallStep(c) \/ NewCall(c)) \/ Crash

Spec == Init /\ [][Next]_vars

-----------------------------------------------------------------------------
(* Properties.                                                             *)

\* The callers between the insert of their packet and its answer.
Working == {"advance", "writeback", "dispatch", "respond"}

(* The handler of a packet starts at most once, over every interleaving,   *)
(* rewind, replay, fork and crash: session_apply_packet compares a stale   *)
(* last_sequence, and only the primary key of session_packets decides.     *)
AtMostOnceExecution == \A k \in Slot : executed[k] <= 1

(* A response row tells the truth about the stored packet of its slot:     *)
(* "accepted" exactly when that packet's handler was started.              *)
ResponsesAreTruthful ==
    \A r \in responses :
        \E p \in packets :
            /\ SlotOf(p) = r[1]
            /\ r[2] <=> executed[r[1]] = 1

(* session_replay_from only ever selects stored packets, so each of them   *)
(* fails on the primary key: a replay never advances, executes or answers  *)
(* anything, after a rewind or not.                                        *)
ReplayIsInert ==
    \A c \in Caller : pending[c] # {} => pc[c] \in {"replay", "store"}

\* A caller works on the slot.
Owned(k) == \E c \in Caller : pc[c] \in Working /\ SlotOf(held[c]) = k

(* A stored, unanswered packet no call is working on (its call crashed,    *)
(* lost the race to advance, or its handler raised) is lost for good: no   *)
(* call takes it up again, so it is never executed again and never         *)
(* answered, however often it is resent.                                   *)
OrphansStayLost ==
    [][\A k \in Stored \ Answered :
          ~Owned(k) => /\ ~Owned(k)'
                       /\ executed'[k] = executed[k]
                       /\ k \notin Answered']_vars

(* Without the in-memory key -- after a restart, or in a fork -- a SIGNED  *)
(* session never takes another packet.                                     *)
SignedNeedsItsKey ==
    [][\A s \in Session :
          sessions[s].scheme = "SIGNED" /\ s \notin keys
          => \A p \in packets' \ packets : p.session # s]_vars

(* contracts/_legacy.py: "Monotonically advance last_sequence for replay   *)
(* protection" -- the write of advance_session_sequence raises last.       *)
AdvanceIsMonotone ==
    [][\A c \in Caller, s \in Session :
          AdvanceWrite(c) /\ target[c] = s
          => sessions'[s].last > sessions[s].last]_vars

(* Every slot behaves as AtMostOnceLog says.                               *)
StageOf(k) ==
    IF k \in Answered THEN "answered"
    ELSE IF executed[k] > 0 THEN "executed"
    ELSE IF k \in Stored THEN "stored"
    ELSE "absent"

Log == INSTANCE AtMostOnceLog WITH
           stage <- [k \in Slot |-> StageOf(k)],
           effects <- executed

LogSpec == Log!Spec
=============================================================================
