---------------------------- MODULE TaskService ----------------------------
(***************************************************************************)
(* The HTTP task surface: TaskGateway.execute_task                         *)
(* (adapters/a2a/gateway.py) behind POST /a2a/tasks, with its in-process   *)
(* idempotency store, composed with the two tools it is modelled to run:   *)
(* decide (DecideTool) and execute_program (ProgramTools).                 *)
(*                                                                         *)
(* A caller is one request thread of ThreadingHTTPServer.  A request       *)
(* carries an Idempotency-Key or none; a key stands for the pair of key    *)
(* and payload the store is indexed by, so one key means one skill.  POST  *)
(* /tools/<name> runs the same handlers without key and token.             *)
(***************************************************************************)
EXTENDS Naturals, FiniteSets

CONSTANTS
    Caller,         \* request threads
    Id,             \* ids of casts, decisions and executions
    Model, Base, NoModel, Unknown,      \* of DecideTool
    Key,            \* idempotency keys with their payloads
    NoKey,          \* a request without the header
    AskOf,          \* what the decide payloads ask for: [some keys -> Asked];
                    \* the payloads of the other keys execute a program
    RequireToken,   \* VERMYTH_REQUIRE_CAPABILITY_TOKENS
    MaxRestarts     \* bound on restarts of the process

ASSUME ServiceAssumption ==
    /\ 0 \notin Id
    /\ Base \in Model
    /\ NoModel \notin Model
    /\ Unknown \notin Model \cup {NoModel}
    /\ NoKey \notin Key
    /\ DOMAIN AskOf \subseteq Key
    /\ \A k \in DOMAIN AskOf : AskOf[k] \in Model \cup {NoModel, Unknown}
    /\ RequireToken \in BOOLEAN
    /\ MaxRestarts \in Nat

VARIABLES
    model, casts, decisions, deciding, mixed,                   \* DecideTool
    lastReceipt, executions, receipts, executing, crossed,      \* ProgramTools
    store,      \* _idempotency_store: the id each key is answered with
    request,    \* the request of each thread
    used,       \* ids handed out
    runs,       \* history: the ids of the handlers a key has started
    troubled,   \* history: keys retried in parallel, or after a failure or restart
    restarts

decideVars == <<model, casts, decisions, deciding, mixed>>
programVars == <<lastReceipt, executions, receipts, executing, crossed>>
gatewayVars == <<store, request, used, runs, troubled, restarts>>
vars == <<decideVars, programVars, gatewayVars>>

D == INSTANCE DecideTool
P == INSTANCE ProgramTools

Skill == {"decide", "execute_program"}
NoAnswer == 0
NoRequest == [at |-> "idle", key |-> NoKey, skill |-> "decide", id |-> 0]
Request == [at : {"idle", "checked", "handler", "store"}, key : Key \cup {NoKey},
            skill : Skill, id : Id \cup {0}]

TypeOK ==
    /\ D!TypeOK
    /\ P!TypeOK
    /\ store \in [Key -> Id \cup {NoAnswer}]
    /\ request \in [Caller -> Request]
    /\ used \subseteq Id
    /\ runs \in [Key -> SUBSET Id]
    /\ troubled \subseteq Key
    /\ restarts \in 0 .. MaxRestarts

Init ==
    /\ D!Init
    /\ P!Init
    /\ store = [k \in Key |-> NoAnswer]
    /\ request = [c \in Caller |-> NoRequest]
    /\ used = {}
    /\ runs = [k \in Key |-> {}]
    /\ troubled = {}
    /\ restarts = 0

At(c, l) == request[c].at = l
Drop(c) == request' = [request EXCEPT ![c] = NoRequest]
SkillOf(k) == IF k \in DOMAIN AskOf THEN "decide" ELSE "execute_program"

-----------------------------------------------------------------------------
(* The lookup comes first, before any token is looked at, and the lock     *)
(* that would cover lookup and handler together does not exist.            *)
\* Mutant: the store is never consulted.
NeverAnswered(k) == FALSE
IsAnswered(k) == k # NoKey /\ store[k] # NoAnswer

Submit(c, k, skill) ==
    /\ At(c, "idle")
    /\ k # NoKey => skill = SkillOf(k)
    /\ IF IsAnswered(k)
       THEN UNCHANGED <<request, troubled>>     \* answered from the store
       ELSE /\ request' = [request EXCEPT ![c] = [at |-> "checked", key |-> k,
                                                  skill |-> skill, id |-> 0]]
            /\ troubled' = IF \E d \in Caller : ~At(d, "idle") /\ request[d].key = k
                           THEN troubled \cup ({k} \ {NoKey})
                           ELSE troubled
    /\ UNCHANGED <<decideVars, programVars, store, used, runs, restarts>>

(* The token, the expansion of the bundle and the name of the skill are    *)
(* checked.  A refusal answers "failed", stores nothing and runs nothing.  *)
Refuse(c) ==
    /\ At(c, "checked")
    /\ Drop(c)
    /\ UNCHANGED <<decideVars, programVars, store, used, runs, troubled, restarts>>

\* verify_capability_token, where tokens are asked for.
TokenAccepted(token) == RequireToken => token

(* handler(self._tools, inp)                                               *)
StartHandler(c, token, asked) ==
    /\ At(c, "checked")
    /\ TokenAccepted(token)
    /\ request[c].key \in DOMAIN AskOf => asked = AskOf[request[c].key]
    /\ \E i \in Id \ used :
          /\ IF request[c].skill = "decide"
             THEN D!Begin(c, i, asked) /\ UNCHANGED programVars
             ELSE P!Begin(c, i) /\ asked = NoModel /\ UNCHANGED decideVars
          /\ used' = used \cup {i}
          /\ request' = [request EXCEPT ![c].at = "handler", ![c].id = i]
          /\ runs' = IF request[c].key = NoKey THEN runs
                     ELSE [runs EXCEPT ![request[c].key] = @ \cup {i}]
    /\ UNCHANGED <<store, troubled, restarts>>

HandlerStep(c) ==
    /\ At(c, "handler")
    /\ \/ D!Step(c) /\ UNCHANGED programVars
       \/ P!Step(c) /\ UNCHANGED decideVars
    /\ UNCHANGED gatewayVars

Returned(c) == deciding[c].at = "returned" \/ executing[c].at = "returned"
Raised(c) == deciding[c].at = "raised" \/ executing[c].at = "raised"

Collect(c) ==
    \/ D!Collect(c) /\ UNCHANGED programVars
    \/ P!Collect(c) /\ UNCHANGED decideVars

(* An exception becomes a TaskResult "failed" that is not stored.          *)
HandlerFails(c) ==
    /\ At(c, "handler")
    /\ Raised(c)
    /\ Collect(c)
    /\ Drop(c)
    /\ troubled' = troubled \cup ({request[c].key} \ {NoKey})
    /\ UNCHANGED <<store, used, runs, restarts>>

\* Mutant: the answer is stored whatever became of the handler.
StoredEvenIfRaised(c) == Returned(c) \/ Raised(c)
Completes(c) == Returned(c)

HandlerCompletes(c) ==
    /\ At(c, "handler")
    /\ Completes(c)
    /\ Collect(c)
    /\ request' = [request EXCEPT ![c].at = "store"]
    /\ UNCHANGED <<store, used, runs, troubled, restarts>>

(* self._idempotency_store[ck] = dumped: the last one to finish wins.      *)
StoreAnswer(c) ==
    /\ At(c, "store")
    /\ store' = IF request[c].key = NoKey THEN store
                ELSE [store EXCEPT ![request[c].key] = request[c].id]
    /\ Drop(c)
    /\ UNCHANGED <<decideVars, programVars, used, runs, troubled, restarts>>

(* The store is a dict of the process.                                     *)
Restart ==
    /\ restarts < MaxRestarts
    /\ restarts' = restarts + 1
    /\ D!Restart
    /\ P!Restart
    /\ store' = [k \in Key |-> NoAnswer]
    /\ request' = [c \in Caller |-> NoRequest]
    /\ troubled' = Key
    /\ UNCHANGED <<used, runs>>

Next ==
    \/ \E c \in Caller :
          \/ \E k \in Key \cup {NoKey}, skill \in Skill : Submit(c, k, skill)
          \/ Refuse(c)
          \/ \E token \in BOOLEAN, asked \in Model \cup {NoModel, Unknown} :
                StartHandler(c, token, asked)
          \/ HandlerStep(c)
          \/ HandlerFails(c)
          \/ HandlerCompletes(c)
          \/ StoreAnswer(c)
    \/ Restart

Spec == Init /\ [][Next]_vars

-----------------------------------------------------------------------------
(* Properties.                                                             *)

DecidedAsAsked == D!DecidedAsAsked
ModelIsRestored == D!ModelIsRestored
ReturnedIsStored == P!ReturnedIsStored

(* An answer in the store is backed by rows: the id it hands to every      *)
(* later retry names a stored decision with its cast, or a stored          *)
(* execution, although failures and overlaps of other calls leave casts    *)
(* without decisions and executions without receipts.                      *)
StoredAnswersAreBacked ==
    \A k \in Key :
        store[k] # NoAnswer =>
            IF k \in DOMAIN AskOf
            THEN store[k] \in casts /\ \E d \in decisions : d.id = store[k]
            ELSE store[k] \in executions

(* Retries of a key that wait for the previous answer run its handler once *)
(* as long as no attempt failed and the process lives.                     *)
SerialRetriesRunOnce ==
    \A k \in Key \ troubled : Cardinality(runs[k]) <= 1

(* docs/a2a.md: "Send Idempotency-Key on HTTP to reuse a prior result for  *)
(* the same payload (replay-safe retries)" -- while one process lives, a   *)
(* key leaves at most one decision or execution behind.                    *)
RetriesAreReplaySafe ==
    restarts = 0 =>
        \A k \in Key :
            Cardinality(runs[k] \cap (executions \cup {d.id : d \in decisions})) <= 1
=============================================================================
