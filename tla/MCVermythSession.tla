-------------------------- MODULE MCVermythSession --------------------------
(* VermythSession on small sets, for TLC.                                  *)
EXTENDS VermythSession, TLC

\* A second session takes part while no packet has gone past the first sequence.
Opened == {s \in Session : sessions[s].status # "ABSENT"}
ForksAlone == Cardinality(Opened) > 1 => \A p \in packets : p.sequence <= 1

\* Sessions and callers are interchangeable.
Symmetry == Permutations(Session) \cup Permutations(Caller)
=============================================================================
