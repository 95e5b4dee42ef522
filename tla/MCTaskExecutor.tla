--------------------------- MODULE MCTaskExecutor ---------------------------
(* TaskExecutor on small sets, for TLC.                                    *)
EXTENDS TaskExecutor, TLC

\* Executions are interchangeable, and so are task ids.
Symmetry == Permutations(Caller) \cup Permutations(Task)
=============================================================================
