-------------------------- MODULE MCVermythProcess --------------------------
(* VermythProcess on small sets, for TLC.                                  *)
EXTENDS VermythProcess, TLC

\* The scripts of grimoire/migrations that add a column.
MCUnrepeatable == {2, 6, 13, 15, 16, 17, 19, 20, 21}

\* Two threads of the server, and a CLI command.
CONSTANTS server, cli, c1, c2, c3
MCHome == c1 :> server @@ c2 :> server @@ c3 :> cli

\* A pattern of the data files and one with a registered aspect.
CONSTANTS plain, extended, a1
MCNeeds == plain :> {} @@ extended :> {a1}

\* Of what an earlier release leaves in the file, one row: an aspect or a proposal.
OneOldRow ==
    Cardinality(aspectRows) + Cardinality({n \in Name : Exists(n)}) <= 1
MCInit == Init /\ OneOldRow
MCSpec == MCInit /\ [][Next]_vars

\* Reference vectors follow the registry alone: no rebuild beside sigils and
\* proposals, and a second one in a process that has the file for itself.
EmbedsApart ==
    /\ calls.rebuilds > 0 => /\ sigilRows = << >>
                             /\ \A c \in Caller : writing[c] = NoRow
                             /\ \A n \in Name : ~Exists(n)
    /\ calls.rebuilds > 1 => Cardinality({p \in Process : opener[p].phase # "down"}) <= 1

\* The threads of the server are interchangeable, and so are sigil names.
Symmetry == Permutations({c1, c2}) \cup Permutations(SigilName)
=============================================================================
