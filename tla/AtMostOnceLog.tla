--------------------------- MODULE AtMostOnceLog ---------------------------
(***************************************************************************)
(* What the V2 session layer promises of every (session, sequence) slot,   *)
(* whatever callers, crashes, rewinds and replays do: a packet is stored   *)
(* in the slot at most once, its handler starts at most once and only for  *)
(* a stored packet, and nothing happens to the slot once it is answered.   *)
(* VermythSession is shown to implement this specification.                *)
(***************************************************************************)
EXTENDS Naturals

CONSTANT Slot

VARIABLES
    stage,      \* how far the packet of a slot has come
    effects     \* how often the handler of a slot was started

vars == <<stage, effects>>

Stage == {"absent", "stored", "executed", "answered"}

Init ==
    /\ stage = [k \in Slot |-> "absent"]
    /\ effects = [k \in Slot |-> 0]

Store(k) ==
    /\ stage[k] = "absent"
    /\ stage' = [stage EXCEPT ![k] = "stored"]
    /\ UNCHANGED effects

Execute(k) ==
    /\ stage[k] = "stored"
    /\ stage' = [stage EXCEPT ![k] = "executed"]
    /\ effects' = [effects EXCEPT ![k] = @ + 1]

\* A packet whose type has no handler is answered without being executed.
Answer(k) ==
    /\ stage[k] \in {"stored", "executed"}
    /\ stage' = [stage EXCEPT ![k] = "answered"]
    /\ UNCHANGED effects

Next == \E k \in Slot : Store(k) \/ Execute(k) \/ Answer(k)

Spec == Init /\ [][Next]_vars
=============================================================================
