--------------------------- MODULE MCTaskService ---------------------------
(* TaskService on small sets, for TLC.                                     *)
EXTENDS TaskService, TLC

\* The first key decides with the other model, the second one executes.
CONSTANTS k1, threshold_tuned
MCAskOf == (k1 :> threshold_tuned)

\* Request threads are interchangeable, and so are ids.
Symmetry == Permutations(Caller) \cup Permutations(Id)
=============================================================================
