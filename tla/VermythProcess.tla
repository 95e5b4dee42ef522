--------------------------- MODULE VermythProcess ---------------------------
(***************************************************************************)
(* The life of the processes that serve one database file: build_tools of  *)
(* bootstrap.py over StoreMigration, then the registry, genesis and sigil  *)
(* calls of their threads, the end of a process and the next start.        *)
(***************************************************************************)
EXTENDS GenesisRepository, SigilTable

CONSTANT MaxStarts      \* bound on the starts whose migration is done

VARIABLES
    booted,         \* processes past build_tools
    starts

registryAll == <<registryVars, genesisVars, sigilVars>>
vars == <<storeVars, registryAll, booted, starts>>

Init ==
    /\ StoreInit
    /\ RegistryInit
    /\ GenesisInit
    /\ SigilInit
    /\ booted = {}
    /\ starts = 0

-----------------------------------------------------------------------------
\* Grimoire(db_path): every step of StoreMigration but the end of a process.
Migrate(p) ==
    /\ OpenStep(p) \/ Crash(p)
    /\ UNCHANGED <<registryAll, booted, starts>>

\* build_tools after the grimoire is open: aspects, basis version, sigils.
Boot(p) ==
    /\ opener[p].phase = "open"
    /\ p \notin booted
    /\ starts < MaxStarts
    /\ starts' = starts + 1
    /\ \/ /\ Loads({row.name : row \in aspectRows})
          /\ LoadAspects(p)
          /\ sigils' = [sigils EXCEPT ![p] = Loaded(Len(sigilRows))]
          /\ booted' = booted \cup {p}
          /\ strain' = strain \cup
                 (IF \E c \in Caller : Registering(c) \/ At(c, "sigil") THEN {"foreign"} ELSE {})
          /\ UNCHANGED opener
       \/ /\ ~Loads({row.name : row \in aspectRows})
          /\ Go(p, "failed")
          /\ UNCHANGED <<order, basis, named, sigils, booted, strain>>
    /\ UNCHANGED <<schema, reference, raced, aspectTables, frame, calls, genesisVars,
                   sigilRows, writing, contested>>

\* The process ends, in the middle of its calls or not.
End(p) ==
    /\ Exit(p)
    /\ Forget(p)
    /\ held' = [c \in Caller |-> IF Home[c] = p THEN NoProposal ELSE held[c]]
    /\ sigils' = [sigils EXCEPT ![p] = DataTable]
    /\ writing' = [c \in Caller |-> IF Home[c] = p THEN NoRow ELSE writing[c]]
    /\ booted' = booted \ {p}
    /\ UNCHANGED <<aspectTables, calls, proposals, gossiped, sigilRows, contested, starts>>

Serve(c) ==
    /\ Home[c] \in booted
    /\ \/ RegistryStep(c, booted) /\ UNCHANGED <<genesisVars, sigilVars>>
       \/ GenesisStep(c) /\ UNCHANGED sigilVars
       \/ SigilStep(c, booted) /\ UNCHANGED genesisVars
    /\ UNCHANGED <<storeVars, booted, starts>>

Next ==
    \/ \E p \in Process : Migrate(p) \/ Boot(p) \/ End(p)
    \/ \E c \in Caller : Serve(c)

Spec == Init /\ [][Next]_vars

TypeOK ==
    /\ StoreTypeOK
    /\ booted \subseteq Process
    /\ starts \in 0 .. MaxStarts
    /\ \A p \in Process :
          /\ order[p] \in Seq(Name)
          /\ basis[p] \in Nat
          /\ named[p] \subseteq Name
          /\ reference[p] \in [basis : Nat \cup {NoVersion}, names : SUBSET (Name \cup {NoName})]
          /\ \A x \in Pattern : sigils[p][x].name \in SigilName \cup {NoSigil, DataFile}
    /\ aspectRows \subseteq [name : Name, ordinal : 1 .. MaxCalls + 1]
    /\ latest \in 0 .. MaxCalls + 1
    /\ \A c \in Caller : frame[c].pc \in Pc /\ frame[c].name \in Name \cup {NoName}
    /\ proposals \in [Name -> Proposal]
    /\ held \in [Caller -> Proposal]
    /\ gossiped \subseteq Name
    /\ sigilRows \in Seq(SigilRow)
    /\ writing \in [Caller -> SigilRow \cup {NoRow}]
    /\ strain \subseteq Trouble
    /\ raced \subseteq Process

-----------------------------------------------------------------------------
(* Properties.                                                             *)

Quiet == \A c \in Caller : ~Registering(c)
Silent == Quiet /\ \A c \in Caller : ~At(c, "sigil")

(* An aspect has the same dimension in the memory of every process, in the *)
(* table and after any restart, and the basis version agrees with it --    *)
(* as long as no registration failed halfway, overlapped another one, or   *)
(* ran beside a second process.                                            *)
PositionsSurviveRestart ==
    strain = {} /\ Quiet =>
        \A p \in booted :
            /\ {[i \in DOMAIN s |-> s[i].name] : s \in Listings} = {order[p]}
            /\ basis[p] = latest

(* The reference vectors a projection may use cover every dimension, save  *)
(* while a registration has appended its aspect and not yet raised the     *)
(* version.  Two things can leave a cache stale for good: registrations    *)
(* that failed or overlapped, which give one version to two orders, and    *)
(* overlapping rebuilds, where one stamps the vectors of the other.        *)
ReferencesCoverTheBasis ==
    strain \cap {"failed", "overlapped"} = {} =>
        \A p \in booted \ raced :
            Fresh(p) /\ ~(\E c \in Caller : Home[c] = p /\ At(c, "bump"))
                => Known(p) \subseteq reference[p].names

(* An accepted proposal was reviewed, and its aspect is in the table or on *)
(* its way, unless it came by gossip or a registration failed halfway.     *)
AcceptedIsRegistered ==
    \A n \in Name \ gossiped :
        proposals[n].status = "ACCEPTED" =>
            /\ proposals[n].reviewed
            /\ \/ HasRow(n)
               \/ "failed" \in strain
               \/ \E c \in Caller : frame[c].name = n /\ Unwritten(c)

(* A decided proposal is undecided again only by a call that had read it   *)
(* before the decision, or by gossip.                                      *)
DecidedStaysDecided ==
    [][\A n \in Name \ gossiped' :
          proposals[n].status \in {"ACCEPTED", "REJECTED"} /\ proposals'[n].status = "PROPOSED" =>
              \E c \in Caller : frame[c].name = n /\ At(c, "decide")
                                /\ held[c].status = "PROPOSED"]_vars

(* What register_sigil put into the table is there after a restart, and    *)
(* the restart succeeds, unless a pattern got two sigils, a name two       *)
(* patterns, or one of the troubles of the registry came in between.  Only *)
(* the contradiction severity may change, from the default to the stated.  *)
SigilsSurviveRestart ==
    strain = {} /\ ~contested /\ Silent =>
        \A p \in booted :
            /\ Loads({row.name : row \in aspectRows})
            /\ \A x \in Pattern :
                  LET next == Loaded(Len(sigilRows))[x]
                  IN  /\ next.name = sigils[p][x].name
                      /\ sigils[p][x].stated => next.stated

(* A start that fails on the open file fails for one of those reasons, or  *)
(* because another process is registering an aspect a sigil row names.     *)
BootFailsForAReason ==
    \A p \in Process :
        Stands(p, "open") /\ Stands(p, "failed")' =>
            contested \/ strain # {} \/ ~Quiet

(* No start fails on a file without one of these troubles, and so no crash *)
(* between them can put the service out of order.                          *)
StartFailsForAReason == [][OpenFailsForAReason /\ BootFailsForAReason]_vars
=============================================================================
