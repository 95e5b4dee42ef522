---------------------------- MODULE ProgramTools ----------------------------
(***************************************************************************)
(* execute_program and its receipt (mcp/tools/programs.py).                *)
(*                                                                         *)
(* engine.execute_program leaves the receipt of the execution in the one   *)
(* attribute _last_execution_receipt of the engine and returns only the    *)
(* execution; the tool stores the execution, then stores whatever receipt  *)
(* the attribute holds by then.  Calls run in threads that share the       *)
(* engine and the tables.                                                  *)
(*                                                                         *)
(* Abstracted: the run of the nodes (ProgramExecution models it) is one    *)
(* step that yields a fresh execution id, and a receipt is the id of the   *)
(* execution it describes.  Stored programs are never deleted, so the      *)
(* foreign key of an execution always holds.                               *)
(***************************************************************************)
EXTENDS Naturals, FiniteSets

CONSTANTS
    Caller,     \* threads that may call the tool
    Id          \* execution ids the run may hand out, one per call

VARIABLES
    lastReceipt,    \* engine._last_execution_receipt, {} or a singleton
    executions,     \* table program_executions
    receipts,       \* table execution_receipts, by execution
    executing,      \* the frame of each caller's call
    crossed         \* history: two calls were in flight together

vars == <<lastReceipt, executions, receipts, executing, crossed>>

Location == {"idle", "run", "writeexecution", "readreceipt", "writereceipt",
             "returned", "raised"}

Frame == [at : Location, id : Id \cup {0}, receipt : SUBSET Id]

Idle == [at |-> "idle", id |-> 0, receipt |-> {}]

TypeOK ==
    /\ lastReceipt \in SUBSET Id /\ Cardinality(lastReceipt) <= 1
    /\ executions \subseteq Id
    /\ receipts \subseteq Id
    /\ executing \in [Caller -> Frame]
    /\ crossed \in BOOLEAN

Init ==
    /\ lastReceipt = {}
    /\ executions = {}
    /\ receipts = {}
    /\ executing = [c \in Caller |-> Idle]
    /\ crossed = FALSE

InFlight == {c \in Caller :
               executing[c].at \notin {"idle", "returned", "raised"}}

At(c, l) == executing[c].at = l
Move(c, l) == executing' = [executing EXCEPT ![c].at = l]

-----------------------------------------------------------------------------
(* read_program; the id is the one the execution will get.                 *)
Begin(c, i) ==
    /\ At(c, "idle")
    /\ executing' = [executing EXCEPT ![c] = [Idle EXCEPT !.at = "run", !.id = i]]
    /\ crossed' = (crossed \/ InFlight # {})
    /\ UNCHANGED <<lastReceipt, executions, receipts>>

(* The engine runs the program, or raises before the receipt is made.      *)
Run(c) ==
    /\ At(c, "run")
    /\ \/ lastReceipt' = {executing[c].id} /\ Move(c, "writeexecution")
       \/ Move(c, "raised") /\ UNCHANGED lastReceipt
    /\ UNCHANGED <<executions, receipts, crossed>>

WriteExecution(c) ==
    /\ At(c, "writeexecution")
    /\ \/ executions' = executions \cup {executing[c].id} /\ Move(c, "readreceipt")
       \/ Move(c, "raised") /\ UNCHANGED executions
    /\ UNCHANGED <<lastReceipt, receipts, crossed>>

\* Mutant: the call returns without looking at the receipt.
SkipReceipt(c) ==
    /\ At(c, "readreceipt")
    /\ Move(c, "returned")
    /\ UNCHANGED <<lastReceipt, executions, receipts, crossed>>
ReadReceipt(c) ==
    /\ At(c, "readreceipt")
    /\ executing' = [executing EXCEPT ![c].receipt = lastReceipt,
                                      ![c].at = "writereceipt"]
    /\ UNCHANGED <<lastReceipt, executions, receipts, crossed>>

WriteReceipt(c) ==
    /\ At(c, "writereceipt")
    /\ \/ receipts' = receipts \cup executing[c].receipt /\ Move(c, "returned")
       \/ Move(c, "raised") /\ UNCHANGED receipts
    /\ UNCHANGED <<lastReceipt, executions, crossed>>

(* The caller takes the outcome.                                           *)
Collect(c) ==
    /\ executing[c].at \in {"returned", "raised"}
    /\ executing' = [executing EXCEPT ![c] = Idle]
    /\ UNCHANGED <<lastReceipt, executions, receipts, crossed>>

Restart ==
    /\ lastReceipt' = {}
    /\ executing' = [c \in Caller |-> Idle]
    /\ crossed' = FALSE
    /\ UNCHANGED <<executions, receipts>>

Step(c) == Run(c) \/ WriteExecution(c) \/ ReadReceipt(c) \/ WriteReceipt(c)

-----------------------------------------------------------------------------
(* Properties.                                                             *)

(* A call that returned left its execution behind, and its receipt too if  *)
(* no two calls have been in flight together.  An overlap may lose the     *)
(* receipts of earlier executions, never the newest: a call that returned  *)
(* while the engine still held its receipt has stored it.                  *)
ReturnedIsStored ==
    \A c \in Caller :
        At(c, "returned") =>
            /\ executing[c].id \in executions
            /\ ~crossed \/ executing[c].id \in lastReceipt
               => executing[c].id \in receipts
=============================================================================
