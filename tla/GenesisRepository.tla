-------------------------- MODULE GenesisRepository --------------------------
(***************************************************************************)
(* Emergent aspects: propose, review, accept and reject                    *)
(* (mcp/tools/genesis.py, grimoire/repositories/genesis.py), and the rows  *)
(* gossip brings (grimoire/repositories/swarm.py).                         *)
(*                                                                         *)
(* Every operation reads the whole row, changes some columns of the copy   *)
(* and writes all of them back.  Accept registers the aspect in between.   *)
(* A proposal is named by its proposed_name, which is unique.              *)
(***************************************************************************)
EXTENDS AspectRegistry

VARIABLES
    proposals,      \* table emergent_aspects
    held,           \* the copy each call works on
    gossiped        \* history: names whose row came from a peer

genesisVars == <<proposals, held, gossiped>>

Status == {"NONE", "PROPOSED", "ACCEPTED", "REJECTED"}
Proposal == [status : Status, reviewed : BOOLEAN]
NoProposal == [status |-> "NONE", reviewed |-> FALSE]
Proposed == [status |-> "PROPOSED", reviewed |-> FALSE]

\* Scripts that emergent_aspects and its review columns came with.
Emergence == 11
Review == 19

\* Proposals an earlier release left in the file, reviewed or not.
GenesisInit ==
    /\ proposals \in [Name -> {NoProposal}
           \cup (IF Emergence \in recorded THEN {Proposed} ELSE {})
           \cup (IF Review \in recorded THEN {[Proposed EXCEPT !.reviewed = TRUE]} ELSE {})]
    /\ held = [c \in Caller |-> NoProposal]
    /\ gossiped = {}

Exists(n) == proposals[n].status # "NONE"

-----------------------------------------------------------------------------
(* tool_propose_genesis: one INSERT and one commit for each cluster found. *)

BeginPropose(c, found) ==
    /\ At(c, "idle")
    /\ found # {}
    /\ Count
    /\ frame' = [frame EXCEPT ![c] = [Idle EXCEPT !.pc = "propose", !.verb = "propose",
                                                   !.known = found]]
    /\ UNCHANGED <<memory, aspectTables, strain, genesisVars>>

\* A name that exists raises, and the rest of the clusters stays unwritten.
WriteProposal(c) ==
    /\ At(c, "propose")
    /\ \E n \in frame[c].known :
          \/ /\ Exists(n)
             /\ Return(c)
             /\ UNCHANGED proposals
          \/ /\ ~Exists(n)
             /\ proposals' = [proposals EXCEPT ![n] = Proposed]
             /\ IF frame[c].known = {n} THEN Return(c)
                                        ELSE frame' = [frame EXCEPT ![c].known = @ \ {n}]
    /\ UNCHANGED <<memory, aspectTables, calls, strain, held, gossiped>>

-----------------------------------------------------------------------------
(* review_, accept_ and reject_emergent_aspect.                            *)

Verb == {"review", "accept", "reject"}

\* Mutant: the review is not asked for.
MaySkipReview(verb, row) == TRUE
\* "genesis proposal must be reviewed before acceptance".
MayGoOn(verb, row) == verb = "accept" => row.reviewed

\* KeyError when there is no row.
BeginVerb(c, verb, n) ==
    /\ At(c, "idle")
    /\ Exists(n)
    /\ MayGoOn(verb, proposals[n])
    /\ Count
    /\ held' = [held EXCEPT ![c] = proposals[n]]
    /\ frame' = [frame EXCEPT ![c] = [Idle EXCEPT
                    !.pc = IF verb = "accept" THEN "check" ELSE "decide",
                    !.verb = verb, !.name = n]]
    /\ UNCHANGED <<memory, aspectTables, strain, proposals, gossiped>>

\* is_registered: a name in memory is not registered again, written or not.
CheckRegistered(c) ==
    /\ At(c, "check")
    /\ Goto(c, IF frame[c].name \in named[Here(c)] THEN "decide" ELSE "register")
    /\ UNCHANGED <<memory, aspectTables, calls, strain, genesisVars>>

\* Mutant: a review puts the proposal back to PROPOSED.
ReviewReopens(c) ==
    CASE frame[c].verb = "accept" -> [held[c] EXCEPT !.status = "ACCEPTED"]
      [] frame[c].verb = "reject" -> [held[c] EXCEPT !.status = "REJECTED"]
      [] frame[c].verb = "review" -> [status |-> "PROPOSED", reviewed |-> TRUE]
Rewritten(c) ==
    CASE frame[c].verb = "accept" -> [held[c] EXCEPT !.status = "ACCEPTED"]
      [] frame[c].verb = "reject" -> [held[c] EXCEPT !.status = "REJECTED"]
      [] frame[c].verb = "review" -> [held[c] EXCEPT !.reviewed = TRUE]

\* write_emergent_aspect, by genesis_id, whatever the row says by now.
WriteRow(c) ==
    /\ At(c, "decide")
    /\ proposals' = [proposals EXCEPT ![frame[c].name] = Rewritten(c)]
    /\ held' = [held EXCEPT ![c] = NoProposal]
    /\ Return(c)
    /\ UNCHANGED <<memory, aspectTables, calls, strain, gossiped>>

\* What peers send, the harder case: a proposal they accepted.
PeerRow == {[status |-> "ACCEPTED", reviewed |-> TRUE]}

\* A row of a gossip payload: a new proposal, or the peer's copy of this one.
MergeProposal(c, n, row) ==
    /\ At(c, "idle")
    /\ Count
    /\ proposals' = [proposals EXCEPT ![n] = row]
    /\ gossiped' = gossiped \cup {n}
    /\ UNCHANGED <<memory, aspectTables, frame, strain, held>>

GenesisStep(c) ==
    \/ \E found \in SUBSET Name : BeginPropose(c, found)
    \/ WriteProposal(c)
    \/ \E verb \in Verb, n \in Name : BeginVerb(c, verb, n)
    \/ CheckRegistered(c)
    \/ WriteRow(c)
    \/ \E n \in Name, row \in PeerRow : MergeProposal(c, n, row)
=============================================================================
