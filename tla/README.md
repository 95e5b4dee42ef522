# Vermyth in TLA+

Models, model checks and proofs for the stateful core of Vermyth (`src/vermyth`).
Every module is translated from the Python source; the comment at its head
names the file, says what is abstracted and why. `PROJECT.json` maps every definition to
the lines it stands for.

Vermyth casts *intents* (sets of aspects and an objective) into verdicts, and keeps what
it did in one SQLite database, the *grimoire*. Around that sit a compiler and executor of
semantic programs, policy decisions, a session protocol, a causal graph, channels and swarms,
a registry of aspects that grows, and three front ends: HTTP/A2A, a stdio MCP server and a
CLI. Three facts shape most of the hazards:

* **One process, one engine, one connection, many threads.** `ThreadingHTTPServer`
  (`adapters/http.py`) runs every request in a thread of its own; all of them share one
  `VermythTools`, one `ResonanceEngine` and one SQLite connection opened with
  `check_same_thread=False` (`grimoire/store.py`). A repository method is one transaction,
  so the modules take **one repository call as one step** and interleave the steps of
  different calls.
* **Hardly any operation is one transaction.** A tool call reads, computes and writes in
  several repository calls. A crash, an exception or another thread gets in between.
* **One file, several processes.** The MCP server, the HTTP server and every CLI command open
  the same file. Each migrates it, loads aspects, sigils and thresholds at its start, and keeps
  what it loaded in memory until it ends.

## 1. Inventory

State, operations, interactions, hard behaviour and what makes each part correct. The
parts not modelled are here too; `PROJECT.json` gives each one's status.

| Component | State it keeps | Operations | Hard behaviour | Correct when |
|---|---|---|---|---|
| **V2 session layer** `mcp/tools/session.py`, `grimoire/repositories/sessions.py` | tables `sessions`, `session_packets`, `session_responses`; `_session_key_cache` in memory | open, apply packet, replay, rewind, close, fork | five separate statements per packet; read-modify-write of the whole session row; keys lost at a restart | a packet's handler starts at most once; answers are truthful; replays and rewinds re-execute nothing; sequences advance |
| **Program compiler and ordering** `engine/operations/programs.py` | the stored program | `compile_program`, `topological_order`, validation warnings | cycles behind acyclic prefixes; repeated edges; determinism of the order; warnings checked only when the program is executed | order topological, least, complete; a cycle is always and only then reported |
| **Program execution** same file | visited, skipped, results, lineage, rollback queue, receipt | `execute_program` | gates, merges, preconditions, retries and failure policies interact over several nodes; a condition that cannot be evaluated raises out of the loop | rollback is complete and newest first; a skip reaches what it should; lineage and merges name real casts; it ends, or raises over a condition |
| **Program tools and receipts** `mcp/tools/programs.py` | `engine._last_execution_receipt`, tables `programs`, `program_executions`, `execution_receipts` | compile, execute, read | the receipt travels through one attribute shared by all threads; two commits | a returned execution is stored with *its* receipt |
| **Decide and policy models** `mcp/tools/decisions.py`, `engine/operations/decisions.py`, `engine/policy` | `engine._policy_model`, tables `cast_results`, `policy_decisions` | decide with or without `policy_model` | swap of a shared attribute for the time of a call; `finally` | the model asked for decides and is named; the engine is back on its base model |
| **A2A gateway, HTTP adapter** `adapters/a2a/gateway.py`, `adapters/http.py` | `_idempotency_store` (one dict per process) | POST `/a2a/tasks`, POST `/tools/<name>` | lookup and store are apart; failures are not stored; lost at restart | a stored answer is backed by rows; a retry does not run twice |
| **Cast pipeline, crystallization** `mcp/tools/casting/_legacy.py`, `engine/operations/seeds.py`, `repositories/seeds.py`, `crystallized.py` | `glyph_seeds`, `crystallized_sigils`, `cast_results` | plain, chained, fluid and auto casts: look up, evaluate, accumulate, crystallize, reset, write | five commits; keys spelt by the iteration order of a frozenset; feedback of a ceiling into what is observed | a generation is earned; seed and crystal agree; a crystal is found |
| **Causal graph** `repositories/causal.py` | `causal_edges` | add, infer, delete, `causal_subgraph` | a breadth-first search of one SELECT per node, with writers in between and a LIMIT before the filter | nothing found that is out of reach, nothing steady missed, no dangling edge |
| **A2A SDK executor** `adapters/a2a/vermyth_executor.py` | `_cancel_events` by task id | execute, cancel | asyncio loop with a handler thread; cancel races completion; two executions of one task id | a cancelled task is not reported as completed; only a cancel cancels |
| **Channels, drift** `mcp/tools/casting/_legacy.py`, `mcp/tools/drift.py`, `engine/operations/drift.py` | tables `channel_states`, `divergence_reports`, `divergence_thresholds`; thresholds and reports in the memory of each process | chained and geometric cast, sync, thresholds, lineage drift, backfill | whole-row read-modify-write around an evaluation; the report is written before its cast | no cast is counted that was not written; `last_cast_id` exists; a cast with lineage has a report that follows from it |
| **Swarm, gossip** `mcp/tools/swarm.py`, `repositories/swarm.py` | `swarms`, `swarm_members` | join, cast, gossip | several commits; gossip delivered twice | a member's vector and streak follow its casts; merging twice changes nothing |
| **Registry, bootstrap** `registry.py`, `bootstrap.py`, `mcp/tools/registry.py` | process-wide registry and composition table, `registered_aspects`, `registered_sigils`, `basis_versions` | register aspects and sigils, load at start | memory first, table second; in memory three statements without a lock; order of ordinals; a load that an older row can fail | memory and table agree on every dimension; a restart succeeds and loads what there was |
| **Genesis** `mcp/tools/genesis.py`, `repositories/genesis.py` | `emergent_aspects` | propose, review, accept, reject, merge from a peer | status transitions by read-modify-write; accept registers | accepted only after a review and with a registered aspect; decisions are final |
| **Store, migrations** `grimoire/store.py`, `grimoire/migrations` | the connection, `schema_migrations`, 21 scripts | open, migrate, backfill the aspect keys | a script and its version row are separate commits; two processes migrate one file | no process serves half a schema; an interrupted migration can be continued |
| **Cast storage, queries** `repositories/casts.py` | `cast_results` | write, read, lineage walk, SELECT | a row names aspects the reader may not know; some tools store only the end of a chain | a stored cast has its ancestors |
| **Composition, resonance, projection** `engine/composition.py`, `engine/projection_backends.py` | the composition table; reference vectors cached by basis version | compose, evaluate, project | a cache keyed by a version another thread changes, its two parts assigned one after the other | no stale reference vectors; the arithmetic itself is numeric |
| **Arcane bundles, telemetry** | manifests, counters under a lock | resolve, expand | a bundle takes the place of the tool that was named | the tool that runs is the one the bundle says |
| **MCP server, binary transport, facade** `mcp/server.py`, `mcp/binary_transport.py`, `mcp/tools/facade.py` | the request in hand | read, decode, dispatch, answer | notifications, bad frames, exceptions of tools; other processes on the same file | every request gets one answer and nothing else does |
| **CLI** `cli/main.py`, `cli/commands` | none of its own | one call per process | runs beside the servers on the same file | the exit code tells what is stored |
| Observability, schema and contracts, TypeScript edge, benchmarks | a bounded deque; types | -- | -- | no protocol of their own |

### How they interact

HTTP request threads call the gateway, or a tool directly; the gateway calls the tool
handlers (`decide`, `execute_program`, ...). A handler calls the engine (shared memory:
`_policy_model`, `_last_execution_receipt`) and the repositories (shared tables). The
session layer dispatches a packet to the same tool handlers through `BINARY_DISPATCH`.
`cast` feeds the seeds, which feed the crystals, which feed the ceiling of the next plain
`cast`; chained, fluid and auto casts feed the same seeds without looking at the ceiling.
`predictive_cast`, `infer` and the `CAUSAL_SYNC` frame write causal edges that
`causal_subgraph` reads. An accepted proposal registers an aspect; the registry it
lengthens is the basis every vector is projected on, and a row that names the new aspect can be read
only by a process that has loaded it. The A2A executor runs the cast tools in threads; channels, swarms
and cast rows are what two executions share.

## 2. Modules

| Module | Models | State | Actions |
|---|---|---|---|
| `AtMostOnceLog` | *abstract*: what the session layer promises of each (session, sequence) slot | stage, effects | Store, Execute, Answer |
| `VermythSession` | the V2 session layer | the three tables, the key cache, the frame of each caller | one per repository call and handler: Open, Apply, StorePacket, AdvanceRead, AdvanceWrite, Dispatch, Respond, Replay(Next), RewindRead, CloseRead, Rewrite, Fork, Crash |
| `VermythSessionProofs` | theorems on it | | |
| `ProgramOrder` | `topological_order` | the graph, in-degrees, ready list, order | Place (one turn of the loop), Stop |
| `ProgramExecution` | one program from `compile_program` over its stored row to the end of `execute_program` | its status, visited, skip set, results, lineage, rollback queue, receipt | Compile, WriteProgram, Execute, PassOver, RaisePrecondition, Refuse, Gate, Merge, Succeed, RaisePostcondition, Retry, Fail, Complete |
| `ProgramExecutionProofs` | theorems on it, on `ProgramOrder`, and on what the two have to do with each other | | |
| `GlyphLoop` | the cast tools with seeds and crystals | both tables, spelling, the frame of each caller | Evaluate (a plain cast, under a crystal), EvaluateAnew (chained, fluid, auto: never looks one up), Accumulate, WriteSeed, WriteCrystal, Reset, WriteCast, Fail, Restart |
| `GlyphLoopProofs` | theorems on it | | |
| `DecideTool` | the decide tool | the policy model, two tables, frames | Begin, Swap, Evaluate, NameModel, Restore, WriteCast, WriteDecision |
| `ProgramTools` | the execute tool | the last receipt, two tables, frames | Begin, Run, WriteExecution, ReadReceipt, WriteReceipt |
| `TaskService` | gateway and HTTP threads, **composes** `DecideTool` (as `D`) and `ProgramTools` (as `P`) | the idempotency store, the request of each thread | Submit, Refuse, StartHandler, HandlerStep, HandlerFails, HandlerCompletes, StoreAnswer, Restart |
| `TaskServiceProofs` | theorems on it | | |
| `CausalGraph` | `causal_subgraph` and its writers | the table, the queue, nodes and edges found | Begin, Expand, Write, Delete |
| `CausalGraphProofs` | theorems on it | | |
| `StoreMigration` | the start of a process on the file | scripts begun, finished and recorded, rows without a key; how far each opener is | Open, BeginScript, FinishScript, Record, Backfill, Exit, Crash |
| `AspectRegistry` | `register_aspect` and the reference vectors, over `StoreMigration` | memory of each process, two tables, frames | BeginRegister, Register, AppendAspect, BumpVersion, IndexAspect, Number, ReadVersion, InsertAspect, Publish, BeginEmbed, ReadTexts, StoreVectors, StampVectors |
| `GenesisRepository` | proposals, over `AspectRegistry` | `emergent_aspects`, the row each call holds | BeginPropose, WriteProposal, BeginVerb, CheckRegistered, WriteRow, MergeProposal |
| `SigilTable` | `register_sigil` and the load of sigils | composition table of each process, `registered_sigils` | PutSigil, WriteSigil |
| `VermythProcess` | **composes** the four: the life of the processes on one file | who has booted, the number of starts | Migrate, Boot, End, Serve |
| `VermythProcessProofs` | theorems on it: the file and its schema; proposals, aspects and their positions; sigils | | |
| `ChannelCasts` | chained and geometric casts and syncs of one branch | the channel row, cast rows, frames | Chained, Geometric, WriteChannel, WriteCast, Sync, WriteSynced, CallFails |
| `SwarmCasts` | one swarm, over `ChannelCasts` | the swarm row, the members | Join, Found, Enter, SwarmCast, WriteMember, WriteState, SwarmFails |
| `TaskExecutor` | the A2A executor, **composes** the two | `_cancel_events`, the stage, task and outcome of each execution | Execute, Refuse, StartHandler, HandlerStep, HandlerEnds, Pop, Cancel |
| `TaskExecutorProofs` | theorems on it: cancels and events; channel, swarm and casts | | |
| `LineageCasts` | casts with parents, divergence reports, thresholds and backfill in several processes | three tables; thresholds and reports each process holds | Cast, AutoCast, Predict, Decide, GeometricCast, SwarmCast, Refuse, ReadParent, WriteReport, WriteCast, WritePrediction, WriteKept, AnswerKept, SetThresholds, WriteThresholds, KeepThresholds, Backfill, FillRead, FillWrite, FillEnds, Start, Exit, Reply |
| `McpServer` | the stdio loop in both transports and the process beside it, **composes** `LineageCasts` | the message in hand, answers due and sent | Begins, Ends, StopServer, Read, RunTool, AnswerCall, AnswerElsewhere, RequestThread, Command |
| `McpServerProofs` | theorems on it, and on `LineageCasts` in it | | |

Each `MC*` module instantiates its module for TLC. Operators whose comment begins with
`Mutant:` are deliberate errors (a dropped guard, an omitted reset); putting one in the place of
the definition after it makes a named property fail, which shows the property depends on
that line of the code. No specification uses them.

**History variables.** Some properties can only be said with memory the program does not
keep: `executed` (session); `mixed`, `crossed`, `troubled`, `runs` (task service);
`overlapped`, `used`, `bypassed` (glyph loop); `existed`, `steady`, `cut` (causal graph);
`strain`, `raced`, `contested`, `gossiped` (process); `crossed`, `counted`, `lost`, `latest`, `consensus`,
`asked`, `shared` (executor); `old`, `inForce`, `contended`, `detached`, `due`, `sent`
(MCP server). No guard of a modelled operation reads them, except that `due` also bounds how
many messages are read. `mixed`, `crossed`, `troubled`, `overlapped`, `bypassed`, `strain`,
`raced`, `contested`, `shared`, `contended` and `detached` mark behaviours in which the code is known not to keep a
promise, and the property then states exactly how far it does keep it.

## 3. Runs

| Run | Instance | Properties | What it shows |
|---|---|---|---|
| `session` | 2 sessions, 2 callers, 2 sequence numbers, forks, crashes | `AtMostOnceExecution`, `ResponsesAreTruthful`, `ReplayIsInert`, `SignedNeedsItsKey`, `OrphansStayLost`, refinement `LogSpec` | the handler of a packet starts at most once though the sequence check reads a stale row: the primary key of the packet table decides. The price is that an interrupted packet can never be executed, and that a SIGNED session is dead after a restart or a fork |
| `program_order` | every graph on 4 nodes | `OrderIsTopological`, `CycleIsDetected`, `OrderIsLeast` | Kahn's algorithm as written is correct and deterministic, and a cycle is reported exactly when there is one |
| `program_execution` | every forward program on 4 nodes of 3 kinds, every DAG on 3 nodes of 6 kinds and of 5 kinds that may have a condition that raises, graphs that do not compile | `FailureRollsBack`, `SkipReachesOneStep`, `ResultsComeFromCasts`, `ExecutionEnds` | what a failure, a gate, a merge and a skipped parent do to the rest of the program, that only a compiled one runs, and that it ends unless a condition raises |
| `glyph_loop` | 2 callers, 2 spellings, a SOFT contradiction, 6 casts, 3 observations per generation | `CrystalIsEarned`, `SeedFollowsCrystal`, `LowCeilingIsFinal` | no race, failed write or crash gives a crystal away early; among plain casts the feedback of the ceiling makes a crystal below 0.75 the last of its pattern |
| `task_service` | 2 threads, 3 handler runs, 2 keys, 1 restart | `DecidedAsAsked`, `ModelIsRestored`, `ReturnedIsStored`, `StoredAnswersAreBacked`, `SerialRetriesRunOnce` | what the shared attributes and the idempotency store guarantee, and under which condition |
| `causal_graph` | every graph of 3 casts and 3 edges, depth 2, LIMIT 2, 1 write | `FoundIsReachable`, `SteadyIsFound`, `EdgesAreClosed` | a search that races writers is sound, complete for the untouched part, and closed |
| `lifecycle` | a server with 2 threads and a CLI, the 21 scripts, 2 names, 2 calls, 2 rebuilds of the reference vectors, 2 starts | `ServedSchemaIsWhole`, `StartFailsForAReason`, `PositionsSurviveRestart`, `ReferencesCoverTheBasis`, `AcceptedIsRegistered`, `DecidedStaysDecided`, `SigilsSurviveRestart` | what a file survives: nobody serves half a schema, whatever is cut off; when a start can fail, and what memory, tables and the next start agree on |
| `task_executor` | 2 executions at a time, 3 requests, 2 tasks, 1 branch, 1 swarm of 2 | `CountIsBacked`, `LastCastExists`, `SwarmFollowsItsCasts`, `CancelIsHonoured` | what channel, swarm, casts and the reported states agree on when executions overlap, fail and are canceled |
| `mcp_server` | the server and one other process, 3 casts, chains of 2, 1 change of thresholds, 3 starts | `LineageIsGrounded`, `ReportsAreJustified`, `ThresholdsSurviveRestart`, `AnswersMatchTheTable`, `EachRequestIsAnsweredOnce` | a cast has its ancestors and its report whatever fails, but for the end of a chain whose rest was dropped, the thresholds of a process are those of the table, and what a client is told is what is stored |
| `session_advance_race` | 1 session, 2 callers | `AdvanceIsMonotone` **violated** | finding 1 |
| `glyph_lookup` | 1 caller, 2 spellings | `CrystalIsFound` **violated** | finding 2 |
| `task_retry` | 2 threads, 2 ids, no restart | `RetriesAreReplaySafe` **violated** | finding 3 |

Every state machine states a type invariant, `TypeOK` (`OrderTypeOK` in `ProgramOrder`,
`StoreTypeOK` in `StoreMigration`). Those of the session layer, the gateway, the program
interpreter, the order, the glyph loop and the causal graph are theorems; no run spends
time on the others, which are there for the reader.

**Why these bounds.** *Session*: the conflicts are between calls on one slot or on
neighbouring slots of one session row; two callers and two sequence numbers contain every
pair of statements that touch the same row, and crashes are unbounded. Effects across
sessions exist only through fork, which takes the second session; `ForksAlone` explores it
with packets of the first sequence number only. *Order*: four nodes
have every diamond, every cycle of length up to four and a cycle behind or in front of an
acyclic part; the inputs are all graphs, so there is nothing to choose. *Execution*: rules
reach from a node to its parents and through them to its grandparents (a skip reaches one
step, the next node runs as a root), which takes chains of three and a fourth node
for a merge of both. Three levels lie on both sides of COHERENT and of the preconditions, and two
attempts have a retry that succeeds and one that is the last. Whether a condition raises depends on its
value alone (the context always has the same types), so it is a constant of the node (`faulty`). *Glyph loop*: two generations have
to mature for the feedback to
show; `FirstCount` is 3 instead of 10 because only "the count is reached" matters, and six
casts make two generations possible. The levels give, under a soft contradiction, a partial and a
coherent cast on both sides of the
thresholds 0.45 and 0.75. *Task service*: the policy swap needs an overlap of two calls
and a third, later one to see what stayed behind. *Causal graph*: three casts and three edges make
triangles, parallel edges and self-loops; `LIMIT` 2 cuts off a node with three edges
(the code's 1000 plays no other role). One write between the SELECTs is enough to move an edge from
one side of the search to the other. *Lifecycle*: the scripts are the code's own; the nine
that add a column are told apart because they cannot be repeated. A registration needs a second
one to overlap with, and a second start to be seen after it; `OneOldRow` leaves
at most one row of an earlier release to it, an aspect or a proposal. Two rebuilds of the reference vectors
are what one can stamp the vectors of the other with. *Executor*: every conflict is
between two read-modify-writes of one row; the third request finds what two others left. The levels 30,
60 and 90 are INCOHERENT, PARTIAL and COHERENT. *MCP server*: a cast, its child and its grandchild make the
lineage that can break in the middle; one change of thresholds divides reports into those before and
those after; the second sigil is one that the other process cannot resolve; and three starts
let each process end and the other see it.

**Bounds in guards.** `MaxSequence`, `ReplayLimit` (session), `MaxEdges` (order),
`MaxLevel`, `MaxAttempts` (execution), `MaxCasts` (glyph loop), `Id` and `MaxRestarts` (task service),
`MaxDepth`, `MaxWrites` (causal graph), `LastScript`, `MaxCalls`, `MaxEmbeds`, `MaxStarts` (lifecycle),
`MaxRequests` (executor), `MaxCasts`, `MaxChain`, `MaxSets`, `MaxStarts`, `FillLimit`, `MaxAnswers` (MCP
server). `ForksAlone` and `EmbedsApart` (reference vectors, which follow the registry alone, are not
rebuilt beside sigils and proposals, nor a second time beside another process) are state constraints, and `OneOldRow` is a condition on the
initial states.
`CHECK_DEADLOCK FALSE` stands only where the
system does stop: the call returned, or the bound is used up.

**Fairness.** One run checks liveness, `ExecutionEnds`, under weak fairness of the whole next-state
relation: `execute_program` is a sequential loop, and an attempt at a node either returns or raises;
an engine that hangs forever is not in the model. Nothing fair is assumed of threads,
processes, clients or the scheduler, and no liveness is claimed for them: an interrupted session packet,
for one, is *not* eventually answered (`OrphansStayLost` says so).

### Findings

1. **`last_sequence` can go down** (`session_advance_race`). `advance_session_sequence`
   reads the row, compares, and writes all columns back later with no condition. A caller
   that read 0 for packet 1 overwrites the row another one has advanced to 2. The contract
   says "Monotonically advance last_sequence for replay protection"
   (`contracts/_legacy.py:383`). `AtMostOnceExecution` still holds: the protection against replays is
   in fact the primary key.
2. **A stored crystal is not found** (`glyph_lookup`). `crystallized_for_aspects` compares
   JSON text built in the iteration order of a frozenset, which depends on the hash seed of
   the process. After a restart the pattern may be spelt the other way, and "the most recent crystallized
   Sigil for aspects" (`contracts/_legacy.py:343`) is `None`.
3. **Retries are not replay-safe while the first attempt runs** (`task_retry`). The
   gateway looks the key up before the handler and stores the answer after it; nothing
   marks the key as in progress (`docs/a2a.md:25`).

Met while modelling, and part of the models as the code has them, though no document says
otherwise:

* `tool_predictive_cast` (`mcp/tools/causal.py:159`) calls `cast_result_to_dict` without its first
  argument and raises after it has stored the end of its chain; the casts it descends from are never
  stored, and it gets no report.
* `tool_decide` without aspects and vector does the same (`engine/operations/decisions.py:47`,
  `mcp/tools/decisions.py:144`), and returns. A cast whose chain was dropped by either of the two is in the history
  `detached`: `ReportsAreJustified` says that it never has a report, `LineageIsGrounded` that the
  walk up from it, or from any cast below it, stops there.
* A pre- or postcondition that compares with a value of another type raises `TypeError` out of `execute_program`
  (`engine/operations/programs.py:149`, `:332`): no status, no receipt, no rollback of the casts made so far.
  `ExecutionEnds` names this as the one other way for the loop to end.
* A projection between the two statements of `register_aspect` (`schema/_legacy.py:93`) takes reference vectors for
  fresh that lack a dimension, and two rebuilds in one process can leave the vectors of the one under the
  version of the other (`engine/projection_backends.py:293`), for as long as the version stands. Both are in the
  model, and `ReferencesCoverTheBasis` holds outside of them.
* An ALTER script cut off before its version row takes the file out of service for good (`TornIsFinal`).
* A program may compile, be stored, and be refused at every execution when
  `VERMYTH_DENY_PROGRAM_VALIDATION_WARNINGS` is set (`engine/operations/programs.py:80`).
* Chained, fluid and auto casts bypass the ceiling of a crystal and feed the seed of its
  pattern, so a ceiling that is final among plain casts is not among all (`bypassed`).
* A frame with a bad header, or whose payload is no object, ends the stdio server, and so does a line that is not
  UTF-8 or nests too deep; a SESSION_CLOSE frame does not.

## 4. Proofs

TLC checks the instances above; TLAPS proves the following for every value of the
constants.

**`VermythSessionProofs`**: any sets of sessions and callers, any `MaxSequence` and `ReplayLimit`.
`AtMostOnceExecution` is not inductive: a step may start a handler only because
nobody else could have. The inductive invariant `IInv` adds what makes that so:

* `Equipped`: a caller past the sequence check holds a packet;
* `SlotKey`: one stored packet per slot (the primary key);
* `Replaying`: a replay only ever holds packets that are already stored, and so stops at
  the insert;
* `Custody`: from the insert of a packet until its call ends, its caller holds a stored,
  unanswered packet whose handler has started exactly if the call is past the dispatch of a
  known type;
* `Exclusive`: no two such callers hold packets of one slot;
* `ExecutedOnce`: only stored packets were executed, and once;
* `ResponsesAreTruthful` itself.

Each action has a lemma that it preserves `IInv`; `NextIInv` combines them. From
`Invariance` follow `AtMostOnce`, `Truthful`, `ReplayInert`, and, with a case analysis of what one
step can do to a slot (`NextSlotStep`), `OrphansLost` and `Refinement`: every step of the
session layer is a step of `AtMostOnceLog` on one slot, or a stutter. Assumption: `SessionAssumption` only.

`OrphansLost` also needs that no call takes an orphan up
(`NextOwner`): only an insert makes a caller work on a slot, and only on a free one.

`SignedNeedsKey` needs that what a call saw at its checks still holds when it stores the packet (`KeyInv`): a
session keeps its scheme even through the calls that write back a row they read earlier (`SchemesStay`), and a key
leaves memory only when all calls do.

**`ProgramExecutionProofs`**: any finite set of nodes, any set of programs on them, any levels and any number
of attempts. The loop visits a node once, after its predecessors, so what is known of the predecessors of a
visited node is known for good (`PastIsSettled`), and each property speaks of a node, its predecessors and its receipt.
It is therefore enough to look at the node whose turn it is (`PassSettles`), given the invariant `Loop`:

* `TurnInv`: a node with an attempt behind it is still due: not visited, not blocked, its predecessors visited, its
  precondition met, an attempt left;
* `VisitInv`, `BlockInv`: the visited nodes are closed under predecessors; exactly the nodes behind a skipped one
  are blocked;
* `ReceiptInv`, `ResultInv`: a receipt of success or of a skip is that of a visited node; a result is a cast, made by a
  visited node, with its receipt;
* `QueueInv`: the rollback queue holds the nodes of the receipts of casts, in the same order. `FailureIsUndone`
  reads `FailureRollsBack` off it, the queue being reversed.

`KnownInv` (what is executed was compiled, so names no unknown successor) keeps the blocked nodes nodes.
`BestIsHighest` and `MergedIsCoherent` say what `max` and the merge strategies choose. An execution that raised has lost
what the loop knew (`RaiseKeeps`), so each part of the invariant holds of it as it does of one not begun (`UnstartedIsWell`).
Assumption: `ExecutionAssumption` only.

The same module proves `ProgramOrder`: any finite set of ids, any graph on them, any bound on repeated
edges. The counting in the code is tied to the graph by two conjuncts: `IndegreeIsPending` (the in-degree
of `m` is the number of edges into `m` from nodes not placed yet) and `ReadyIsFree` (the ready
list is the set of unplaced nodes all of whose predecessors are placed). `PlaceStep`
shows that subtracting the placed node's edges and releasing the nodes that come down to 0
keeps both; this is where the multiplicity of an edge matters. With `OrderIsTopological`,
`OrderIsLeast` and `VerdictIsLast` they form `OrderInv`. `CycleDetection` follows: when the ready list
is empty, what is not placed is a knot (each has an unplaced predecessor), and a set of placed
nodes never is (its first one has all predecessors in front of it). The least element of a set of
numbers (`LeastNumber`, a lemma that several proof modules need) comes from the library's well-foundedness of `<`.
`VerdictIsOrdered` joins the two models: on the graph of a program, `topological_order` places every node exactly
when the program is one `execute_program` may be handed (`Ordered`), and then each behind its predecessors.
Assumptions: `OrderAssumption` and `ExecutionAssumption`.

**`GlyphLoopProofs`**: any finite set of callers, any spellings, resonances and casts, any demands on the count of
a generation. The argument of `Earned` and `TypeCorrect` is a balance, `Accounts`:

* `Spent` is the number of casts evaluated and accumulated, or lost. It grows by one when a cast is accumulated and
  never shrinks; a crash or a failing call only adds to it (`SpentGrows`).
* A row has *taken* its own observations and those its earlier generations needed (`Took`). Every row, in the table,
  in the hands of a call or stale, has taken no more than was spent (`Honest`): to observe adds one to both
  (`ObservedTakesOne`), to reset trades the observations of a mature seed for its next generation
  (`ResetKeepsAccount`), to copy or to overwrite adds nothing. No serial order of the calls is needed.
* The seed_ids in the table and in the hands of calls are no more than was spent (`SpentIsEnough`), so a fresh one is always left.

What a generation needs is counted as the cardinality of a set of pairs (`Needed`), so `NeededStep` is one union and
needs no induction. `OneSeedFollows` and `LowIsFinal` rest on `CalmInv`: in calm one call is in flight (`OneAtATime`),
whatever is stored is spelt as that call spells it (`Spelt`), there is at most one seed (`OneSeed`), and what the call
is about to write fits what is stored (`CallFits`): from the promotion to the reset the seed in its hand is the
whole table. Under a low ceiling the seed of the next generation has observed nothing coherent (`Dull`), while
maturity takes a coherent cast (`MatureTookAll`). That is why the sigil can be written again, after a call
that died before the reset, but only with the same generation. Assumption: `GlyphAssumption` only.

**`CausalGraphProofs`**: any finite set of casts, any depth, any LIMIT, any number of
writes. `TypeCorrect` needs that entries are queued only on behalf of a query
(`QueuedForQuery`), which bounds the depth of the queue; `EdgesStayClosed` needs that a search starts
with no edge (`FoundForQuery`). Reach is defined by walks (`Within`), so that one step further
(`Leads`) is one lemma, and more rows only reach further. `FoundStaysReachable` follows from `ReachInv`: a queued entry is within its
depth over the rows the table has held. `SteadyIsAlwaysFound` is breadth-first search under
interference: the queue is sorted and holds two depths at most (`QueueIsSorted`); nodes nearer than its
first entry have all their untouched edges noted (`NearerIsComplete`), those as near are complete or queued with
that depth (`LevelIsQueued`), and so are, at any depth, the visited ones (`VisitedIsQueued`). Other callers
only shrink the set of untouched rows. At the end nothing is queued, so all is complete (`AllComplete`).
Assumption: `CausalAssumption` only.

**`VermythProcessProofs`**: any number of processes and scripts, and of everything they serve.
`ServedSchema` rests on an invariant of the file and its openers: what is recorded was finished,
a process in a script has begun it, and one past its last script has seen every number recorded. No
registry or sigil call touches the file's schema, so the invariant is carried through `VermythProcess` by
its migration steps alone. `TornForGood` adds that an ALTER script begun, unrecorded and run by nobody
cannot be begun again, so that its version never gets recorded, and that a process opens only when every version
is. Assumption: `MigrationAssumption` only.

Accepted aspects, for any sets of processes, threads and aspects, any number of calls, any file of
an earlier release: `AcceptedIsRegistered` speaks of a table, a call in flight or a failure, while what an
accept looks at is the memory of its process. The inductive invariant ties the two:

* `Typed`: the variables the argument reads have their types;
* `MemoryIsBacked`: an aspect in the memory of a process has a row, a call that is still to write one,
  or a failed write on record ("backed");
* `CallInv`, per call: an accept about to write its decision holds a reviewed proposal and its
  aspect is backed, and so does any call that holds a copy of an accepted row;
* `AcceptedIsBacked`: the property itself.

Being backed is for good (`BackedStays`): rows are never deleted, a call in flight ends in a row or a failure, and
the end of a process with a call in flight is itself a failure on record. That is why a decision
written late, or an accepted row put back by a slower review, is as good as an early one. `DecidedForGood` looks at the
one write that changes a status: it writes back a copy with one column changed, so a proposal is undecided again only
by a copy that was.

Four more properties follow from three further invariants, each resting on the one before:

* `DatedInv`, for `ReferencesCover`: while no registration failed or overlapped another one, one call at most is
  registering (`Alone`), and memory is at most one version ahead of the table, only between the bump of that call and
  its row (`BasisInv`, `Ahead`). Vectors stamped with a version of the past are stale; those with the version memory has now
  cover what it knows, unless a call has appended an aspect and not bumped the version yet (`Covered`, `Bumping`).
  That holds of the cache (`CacheInv`) and of what a rebuild has read, which is for a newer version than the
  cache until the rebuild has stamped its own vectors, as long as it is alone (`RebuildInv`). A process that is down has
  nothing in memory and nobody calls it (`OffInv`);
* `PlacedInv`, for `PositionsSurvive`: with no trouble at all, the rows are numbered 1, 2, ... without a gap, in the
  order memory has, up to the aspect a call has in memory and not yet in the table. A table numbered so can be
  listed by ordinal in one way only (`OneListing`), the way a restart will;
* `SigilInv`, for `SigilsSurvive`: as long as no sigil was contested, the rows, those on their way included, have names
  and patterns of their own (`RowsDiffer`), and the aspects they need are backed; with no trouble either, a row
  in place of a sigil of the data files is marked as an override, and memory holds, pattern by pattern, the row or the
  data files (`Holds`). So each row is loaded once, wherever it comes in the order (`LoadedRow`), and none is refused.

`StartsFailForAReason` puts the file and the sigils together: a start in a quiet moment loads every row
(`QuietLoads`), and what stops it earlier is a script that was cut off or is being run by another process.
Assumptions: `MigrationAssumption`, `RegistryAssumption` and `SigilAssumption`.

**`TaskExecutorProofs`**: any sets of executions and task ids, any number of requests. `cancel` finds
the event under the task id, so `CancelIsHonoured` needs that the event there is the execution's own:

* `EventsAreOwned`: a stored event is that of an execution of its task id which is not over;
* `CompanyIsShared`: two executions of one task id have each been marked as sharing it;
* `AloneIsStored`: an execution that shares its id with nobody has its event in place until it is done;
* `CancelIsSeen`: what a cancel did, or did not yet do, to an execution that still runs.

Assumption: `TaskAssumption`, that the absent task and event are none of the present ones.

Casts, channel and swarm, for any executions, sessions, levels and requests: each of the three tables is read, changed
and written back with commits in between, and each invariant says what the copy in a call's hands
is worth. The types (`Typed`) hold always; the rest is layered:

* `CountInv`, for `CountBacked`: no copy of the channel row counts more than what was written plus the cast in hand;
  as long as no two read-modify-writes overlapped, one call at most holds a copy and it is exact (`OneCopy`);
* `LastInv`, for `LastCastKnown`: the last cast a channel or swarm names, and the one in each copy of a channel row, is
  stored, or its call still has to store it, or failed (`KnownCasts`); it stays so (`KnownStays`).
  `PlaceInv` ties the outcome of an execution to how far its call got;
* `SwarmInv`, for `SwarmFollows`: no streak, written or planned, is longer than the casts with consensus
  (`StreakInv`, which overlap cannot break); and with one writer at a time (`OneWriter`) the members agree with
  its plan wherever they are written already (`Plans`), so that they follow the status once it is written too.

Assumption: `CastAssumption` only.

**`TaskServiceProofs`**: any sets of threads, ids, models, keys and payloads, any number of restarts. The
invariant has one part for each of the three frames of a thread, and each part says what a frame is worth
always, and what it is worth as long as a kind of overlap has not happened yet:

* `DecideInv`: a decide call knows the row it wrote (`DecideFrame`). Until a call that asks for a model has
  overlapped another one (`mixed`), the attribute names what the call in the window asked for
  (`DecideCalm`), and calls together in the window all asked for the base model (`Windows`). With that,
  `DecidedAsAsked` and `ModelIsRestored` are inductive;
* `ProgramInv`: an execution that returned is stored (`ProgramFrame`); until two were in flight together
  (`crossed`), the last receipt is its own (`ProgramCalm`);
* `GatewayInv`: a thread's request, its handler and its answer fit (`Serves`), and the answer it is about to
  store is backed by rows, as those stored already are. For a key whose attempts came one after the other
  (not `troubled`) one thread at most works on it, and nothing ran before the first (`OneAttempt`).

Rows are never deleted (`TablesGrow`), so that an answer stays backed while other threads go on. The handler
steps of the two tools are proved about once, in terms of their own frame, and lifted to the gateway.
Assumption: `ServiceAssumption`.

**`McpServerProofs`**: any processes and callers, sigils, distances and thresholds, any number of
casts, calls and starts. The argument is that whatever a call read of a parent still holds when its own cast is
stored, because a stored row never changes, a report is written before its row, and an id is its call's own until
its row is stored. The invariant says so:

* `LoopInv`: the loop owes exactly the answer to the message in hand, for `EachRequestIsAnsweredOnce`;
* `ThresholdInv`: thresholds in a process were in force once; unless two calls of
  `set_divergence_thresholds` overlapped (`contended`), the processes agree with the row but for the
  one whose call is between row and memory (`Agreed`), for `ThresholdsSurviveRestart`;
* `TableInv`: the parent of a stored cast is an older one, stored and one level up (`Child`), and its report follows
  from both sigils by thresholds that were in force (`Justified`); a detached cast is the child of an id
  nobody will ever write (`Skipped`). `ReportsAreJustified` follows;
* `CacheInv`: no process has a report in memory that the table has not, so that a cast stored without one is
  also told without one;
* `CallInv`, per call: the casts it has to write are a chain of ids that are stored nowhere
  and in nobody else's hands (`TodoInv`); what it read of a parent for the first of them holds
  (`HeadInv`); what it returns is what is stored (`AnswerInv`), for `AnswersMatchTheTable`; a backfill holds pairs that
  may have no report (`FillInv`).

`LineageIsGrounded` speaks of all ancestors. They are defined as the least set of ids that is closed upward, and
a least counterexample replaces an induction: the smallest stored id without its ancestors has a parent, which is smaller and so
has its own. Assumptions: `LineageAssumption` and `McpAssumption`.

**Only model-checked**:

* `ExecutionEnds`, which is liveness under fairness;
* the three claims that fail (section 3): a counterexample on a small instance settles them.

## 5. Abstractions

* A cast is its resonance level, an aspect pattern its spelling, a proof "verifies or not", a JWT
  "accepted or not". Floating-point values are whole percentages where thresholds matter. In
  `LineageCasts` a sigil stands for its vector, with a table of distances.
* What the engine computes is arbitrary: any level, or an exception, at every cast.
* Read-only operations are left out, except the reads an operation acts on later.
* A repository call is atomic. Python threads can switch inside one, but SQLite's
  statement is atomic and the methods issue one statement that changes data; the
  two that do more in the modelled parts (`advance_session_sequence`, `close_session`) are two steps.
  A commit that fails leaves nothing behind; a migration script, which `executescript` commits
  statement by statement, can be cut off after its first ALTER.
* An answer counts as sent once the loop has handed it to `_send`; the one that cannot be written, to a closed pipe or
  as JSON, is dropped there without a trace (`mcp/server.py:116`).
* The last cast of `auto_cast` for an AUTO_CAST node without predecessors keeps the lineage within its own chain
  (`engine/operations/programs.py:264`); `ProgramExecution` follows lineage between nodes only.
* The cast tools appear in three views of one call, each with what its properties need: seeds and crystals
  (`GlyphLoop`), channels and swarms (`ChannelCasts`, `SwarmCasts`), lineage and reports
  (`LineageCasts`). Each leaves the tables of the other two out.
* The consensus threshold of a swarm is its default. The constraint vector of a channel, which only blends into
  the evaluation, and the seeds and crystals in a gossip payload are left out.
* Crystallizing composes a sigil, and the sigil data holds every pattern of up to three canonical
  aspects, so that composition never fails for them.
* Of the warnings of `validate_program` the models can raise the one about dead-end gates; its errors are out of
  reach behind the schema, which refuses such nodes first.
* What the A2A SDK itself does to the coroutine of a canceled task is outside `src`, and left out.

### Not modelled

* *TypeScript edge*: a second implementation of the cast tools for another runtime. The Python package is the
  reference here and no claim is made for the other.
* *Schema and contracts*: pydantic types and abstract interfaces. Their constraints appear as guards, their
  docstrings in the findings.
* *Observability, telemetry counters*: a bounded deque and counters under one lock; nothing else reads them.
* *Vector arithmetic and projection providers*: numeric, or calls to other services.
* *Seeds and crystals of a gossip payload*: a second delivery inserts every seed again (the hazard is listed);
  the glyph loop with two rows per pattern is beyond what TLC enumerates in minutes.
* *Queries, resource contents, CLI parsing and printing, benchmarks and examples*: they only read.

## 6. Plan

Done, in this order: the session layer with its proof, program order with its proof, program
execution with compilation and its proof, the crystallization loop, the task service with its two tools, the causal
graph with its proof, the life of a process (migrations, registry, genesis, sigils) with two proofs, channels and swarms
under the A2A executor with two proofs, lineage under the MCP server, the proofs of the task service and of the MCP
server, the reach of a causal search and the accounts and the calm of the crystallization loop. Every invariant and
action property that a passing run checks is a theorem.

Next modules: an abstract specification of a read-modify-write row (channel, session, proposal)
that the three detailed ones implement outside overlaps; seeds in gossip, with a smaller glyph loop.
