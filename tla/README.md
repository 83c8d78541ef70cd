# A TLA+ model of the XPARQ node

XPARQ is a post-quantum proof-of-work blockchain node in Rust. This directory
holds TLA+ specifications translated from its source, TLC configurations that
check them on small instances, and TLAPS proofs of the results that matter most
for every instance. `PROJECT.json` maps each definition to the lines it models
and lists the runs, their mutants, the hazards of the code and the theorems.

    tlc -workers 2 -config MCLedger.cfg MCLedger      # model-check one run
    tlapm LedgerProofs.tla                            # check the proofs of a module

## 1. The system

| Part | State | Operations | What is hard about it |
|---|---|---|---|
| Canonical ledger (`kernel/ledger/canonical`) | headers, bodies, journals by height, the ledger state | apply genesis and blocks, preview, roll back, prune journals, evict bodies, snapshot, restore | a block fails half way; journals must undo exactly; pruning, rollback and restore in any order |
| Ledger state (`kernel/ledger/utxo`, `applied`) | coins, owner lookup, supply totals, programs, assets | transfer, deploy, VM call, asset call, emission, and the inverse of each | redundant copies (lookup, totals) drift; validation and application are different code |
| Emission, burns (`kernel/consensus/policy`) | none | schedule, required burn | boundaries between phases, fees above the subsidy |
| Difficulty (`policy/difficulty.rs`, `target.rs`) | none | weight-based adjustment per epoch, compact targets | off-by-one at an epoch, rounding |
| Fork choice (`kernel/consensus/fork`) | tree of blocks, best tip | insert a block, plan a reorganization | order of arrival, ties, lookups across branches |
| Header validation and synchronization (`header.rs`, `chain_sync.rs`, `p2p.rs`) | a bounded window of headers; a session | locator, chunks, completion; checkpoints in the ledger cache | the chain moves during a session; chunk boundaries; stale checkpoints |
| Node state (`state.rs`, `mining.rs`, `gossip.rs`, `recovery.rs`) | ledger cache, database, mutation lock | append a mined, relayed or submitted block, apply a branch, scratch recovery, restart | work done outside the lock on a stale view; crash between two commits |
| Database and snapshots (`storage.rs`, `snapshot.rs`) | blocks, indexes, mempool, snapshots | append, replace the chain, rebuild indexes, keep two snapshots | which tables agree after a crash or a replacement |
| Mempool (`mempool.rs`) | ordered operations, a cached state, remembered refusals | insert, reconcile, persist | cached results that outlive their reason |
| Indexes (`index.rs`, `storage.rs`) | where blocks, operations and coins are | append, rebuild, look up | a reader with an older ledger rebuilds them; a branch of equal height |
| Gossip (`gossip.rs`) | tips, inventories, early blocks | announce, request, relay | both nodes change meanwhile; both sides wait |
| Outbound connections (`p2p.rs`) | dials, workers, permits, backoff | select, dial, report, wait | lost wake-ups, leaked counts |
| Programs, VM (`kernel/program`) | code, storage, the call tree | validate, execute, call, settle | the interpreter trusts the validator; nested calls share coins |
| Inbound connections, admission gate, peer store, nonce search, assets, state map, wallet | | | not modelled, see section 5 |
| Cryptography, RPC, configuration, vendored code | | | computation or formatting |

The parts interact as follows. A peer session obtains headers, judges the branch
by fork choice and downloads the bodies; the branch is then applied to the
ledger under one mutation lock, by rollback and re-application when the journals
reach the fork and by replay in a scratch database when they do not; the result
is committed in one database transaction and published in the ledger cache.
Mined, relayed and submitted blocks extend the tip under the same lock. The
mempool is reconciled with every change of the chain.

`PROJECT.json` lists all components with what is and is not modelled, and each
hazard at the line where it bites.

## 2. Modules

### The ledger

| Module | Models |
|---|---|
| `Emission` | `policy/emission.rs`: subsidy by height, the offset of tail emission by fees |
| `LedgerState` | one state and the operations on it: payment, emission, transfer, deployment, VM settlement, asset calls; validation (`Validates`), application (`Apply`), `Journal`, `CanUndo` and `Undo` |
| `Ledger` | the chain: `headers`, `bodies`, `journals`, `state`, the `snapshot`, and the block being executed or undone (`staged`) |
| `LedgerInv` | the inductive invariants `IInv` and `OriginInv` |
| `MCLedger` | the instance |

Execution is a sequence of steps, one per operation of a block, on a staged copy
(the code clones the state and replaces it at the end), so that a failure or a
preview at every point is a behaviour of the model. Rollback is one step per
journal for the same reason. Between two steps of a block nothing else changes the ledger: the code
has exclusive access (`&mut Ledger`). A state root is modelled as
the content it commits to: two states have the same root exactly if they agree
on everything the encoding contains, and the derived fields (owner lookup,
running total) are not in it. `trace` and `staged.before` are auxiliary
variables: they record the states around each journal and no guard reads them.
Signatures, hashes and encodings are abstracted: an operation is one whose
signature verified, and its size, growth and fuel are inputs.

### Fork choice

| Module | Models |
|---|---|
| `Difficulty` | `policy/difficulty.rs`, compact targets of `target.rs`, `block_work`, with saturating totals; `EpochBits` is the reference definition of a target from the weights of a line |
| `ForkChoice` | `fork/graph.rs`, `ordering.rs`, `reorg.rs`: `nodes`, `best`, `InsertBlock`, `PlanReorg` |
| `MCForkChoice` | a tree of blocks, with invalid ones, offered in every order |

### Header synchronization

| Module | Models |
|---|---|
| `BlockTree` | the blocks there are, each with its line from genesis (`Line`), and the fork-choice order on whole chains |
| `HeaderSync` | `header.rs`, the checkpoints of the ledger cache, `synchronize_headers` and `serve_header_requests` |
| `MCHeaderSync` | a tree with forks below, at and above checkpoints, wrong targets, missing work, weights out of range, and peers that advertise another tip than they serve |

The chain may move (`Adopt`, `Restart`) between any two messages. A session works on
the cache it read when it began: the code holds `Arc`s of it. A request and its
answer are one step, because both sides serve the exchange from pinned data and
the connection is lock-step.

### The node

| Module | Models |
|---|---|
| `Mempool` | `mempool.rs`: the stored pool, its decoded copy with the resulting state, remembered refusals, insertion, reconciliation, and the limits on stored operations and bytes |
| `NodeState` | the database (`chain`, `pool`, `snapshots`, `receipts`), the ledger cache, the state mutation lock, sessions, scratch recovery, the miner, crash and restart |
| `CanonicalChain` | the abstract specification: one variable, the tip, that only moves to a preferred tip of a chain that executes |
| `MCNodeState`, `MCMempool` | the instances |

A chain is its tip in a fixed tree of blocks, some of which do not execute. A
ledger is its tip and the lowest height that still has a rollback journal; what
executing and undoing a block does to coins is the subject of `Ledger`. Each
holder of the mutation lock is cut where others can see it or a crash can fall:
the database commit (`AcceptRelayed`, `SubmitBlock`, `MinerFind`, `ApplyBranch`,
`RecoverPublish`), the publication in the cache (`Publish`), and the snapshot, notification
and release (`Finish`). `lock` holds what its holder has yet to do. Work without
the lock is cut at every read: the miner takes generation, ledger and pool in three
steps, and a recovery reads the snapshot table, then the bodies, and takes the lock at the end.
A restart is one step if it completes and `RestartInterrupted` if the process
ends at some height of the replay. An operation is a name with the coins it
spends, the operations that must precede it and a size, so operations conflict,
depend on each other and fill the pool. Reconciliation counts operations and not bytes;
what it keeps is encoded before anything is stored, and a pool above `MAX_STORED_MEMPOOL_SIZE`
refuses the whole change (`mempool.rs:402`). `RefuseBranch` and the refusing disjunct of
`RecoverPublish` are that outcome: chain, cache and pool stay, and the session ends with an error.

| Module | Models |
|---|---|
| `Indexes` | the lookup tables beside the blocks, the transactions that write them, and readers that rebuild them from an older ledger and look something up |
| `MCIndexes` | the instance |

One simplification: a recovery checks the snapshots it read against the stored
bodies at one moment, the code opens a reader for each of them. Totals are
unbounded in `BlockTree`; the saturation of the code's totals is in `Difficulty`.

### The network

| Module | Models |
|---|---|
| `GossipSession` | a session between two nodes: tips, inventories, announced and early blocks, operations, shallow reorganizations, minimums, and what both do besides |
| `Outbound` | the supervisor, the event channel, one worker per peer, the synchronization gate, backoff |
| `MCGossip`, `MCOutbound` | the instances |

In `Outbound` each lock or channel operation is a step of its own, and time passes in
ticks. In
`GossipSession` a step of the dialing node that reads its own state is separate from the
step in which the other handles the request, so either node may change in
between; handling a request and reading its answer are one step. An operation applies if its coin
is unspent and what it builds on is in the chain or the pool. Calls are offered in the order of the pool;
deployments are not relayed (`read_mempool`), so a call can arrive where its program is missing. An operation is refused besides when the
pool is full by number or bytes or when the admission gate is busy (`Busy`), and a better chain when the pool it would
leave cannot be stored. Each refusal ends the session.

### Programs

| Module | Models |
|---|---|
| `ProgramCalls` | the tree of nested calls: staged state, the lookup of coins, settlements, deposits, identifiers, the net journal and its undoing |
| `ScalarCode` | versions 1 to 3 of the code: the validator and then the interpreter, instruction by instruction |
| `MCCalls`, `MCScalar` | the instances |

In `ProgramCalls` code is not part of the state: each step chooses what the running
program does next, so every program is covered. In `ScalarCode` it is, because validator
and interpreter read the same code; each instruction is chosen when the validator gets to it.

## 3. Runs

| Run | Instance | States | Shows |
|---|---|---|---|
| `ledger` | three accounts, one of them a contract; six operations of all kinds, two of them spending one coin; genesis and two blocks of up to two operations | 144,586 | supply balance, owner lookup, journals, roots, restores and single spends |
| `fork_choice` | a forking tree of offered blocks, windows of two | 377 | tip independent of arrival, targets of the own branch, reorganization plans |
| `header_sync` | lines of up to nine headers, checkpoints every 3, chunks of 3, windows of 2, sessions of at most 8 | 1,852 | checkpoints follow the chain, bounded validation agrees with whole-chain validation, sessions end |
| `node_state` | nine blocks: a fork below the journals, one as heavy that does not execute, a short one; two sessions, relayed blocks, crashes anywhere; journals of 2 blocks | 14,922 | the stored chain implements `CanonicalChain`; cache, snapshots, receipts and remembered invalid blocks follow it |
| `mempool` | dependent, conflicting and large operations, a pool that fills up by number and by bytes, a memory of one refusal, a miner, a session that replaces the chain | 321,787 | the pool applies, nothing is lost in a reorganization, templates are fresh, refusals stay justified, the limit on bytes refuses no append and no restart |
| `convergence` | `node_state` with one session and fairness | 1,896 | the node ends on the best chain that executes, but for one whose adoption would leave a pool too large to store |
| `snapshot_count` | `node_state` | violated | three snapshots after a recovery |
| `outbound` | two configured peers, one of them also discovered, and a discovered one; two workers, two dials, one synchronization | 143,552 | dials are counted exactly, no wake-up is lost, backoff is remembered, the first configured peer is dialed |
| `gossip` | two nodes that start on any stored chains, five blocks, four operations (a deployment and its call, a call that builds on another and conflicts with the first), three choices of minimums, two changes from outside | 88,247 | sessions fail only by a race, a conflict, a deployment that is not relayed or a limit, nodes wait for each other only below a minimum, tips converge |
| `indexes` | two branches with an operation in both, two readers | 240,464 | blocks are refused, and answers wrong, only after a rebuild from a left branch or a race |
| `program_calls` | two applications and a program of an older version, three calls, depth three | 209,420 | an invocation can be undone, a waiting program is untouched |
| `scalar_code` | every body of up to five instructions, two-bit values | 1,513,509 | admitted code never panics |

**Finding.** The repository's `README.md` (776) says of local snapshots that the
node "retains the two newest snapshots". `snapshot_count` reaches three: a scratch recovery
inserts its snapshot in the transaction that replaces the chain
(`storage.rs:1531`), which drops those above the fork and trims no more. The next ordinary
snapshot trims to two again.

Exceptions that the properties had to name. A reader that holds the ledger of a replaced branch
rebuilds the indexes from it; until they are rebuilt again, a block that repeats an operation of that
branch can be refused (`storage.rs:495`), and an append at a fitting height takes such indexes to be
complete (`storage.rs:1297`, the history variable `mixed`). A queued early block that a peer refuses keeps the tips
apart (`Poisoned`), and pools with conflicting operations make sessions fail (`Conflict`). So does a call whose
deployment is pending at the sender and unknown to the receiver (`Undelivered`). A better branch is refused, each time it is offered, while
the operations of the blocks it would leave and the pending ones exceed 64 MiB together (`Crowded` in `NodeState`, `Overfull` in
`GossipSession`); `Converges` and `TipsConverge` exempt it, and `PoolNeverBlocks` shows that this never happens to a block that
extends the tip or to a restart.
Outside the models, the comment at `target.rs:13` speaks of `0x2000ffff` where `POW_LIMIT_BITS` is `0x201fffff`.

**Bounds.** `MaxHeight = 2` in `ledger` gives a block with a settled coin to roll
back, a fork of depth two, and both a scheduled and a tail subsidy; two operations per
block give an operation that depends on one before it in the same block, and a
failure after a success. The operations are chosen so that one spends the output
of another, two compete, and one has fees above the tail subsidy. In
`fork_choice` and `header_sync` an epoch is two blocks, so that lines (up to
height six and nine) cross several epochs; in `header_sync` the interval of checkpoints, the chunk and the
window are chosen pairwise so that boundaries fall together and apart, and the
session limit is reached by the longest line. In `node_state` journals reach two
blocks back and snapshots are due every two, so the chain of four blocks prunes, archives and
snapshots before the fork at genesis is offered, which then needs a recovery; one
invalid block is remembered at a time. In `mempool` the pool holds two
operations and two bytes, of which one operation takes all, and one refusal is remembered, so that each reaches its limit. In
`node_state` and `convergence` one branch leaves operations that fit the pool by number and not by bytes.

In `outbound` there are fewer places than peers and one permit; in `gossip` each node can be
below the other's minimum, pools fill by number and by bytes, forks are deeper than a shallow reorganization may be (`MaxDepth = 1`),
and the queue of early blocks holds more than a session may push, so that the limit is reached (`MaxEarly = 2`, `MaxBlocks = 1`; 16 and 4 in the
code). The queue overflows only after three changes: with `MaxMoves = 3` TLC takes longer (399,865 states) and finds no error either. The limit
on operations is never reached, since neither side sends more than `MaxItems` between two inventories. In `program_calls` calls and
actions reach their limits (two applications cannot nest deep enough to reach that of the depth, which the proofs cover); in `scalar_code` an addition overflows.
A peer's failures are counted up to one in `outbound` and one finished invocation is kept in `program_calls`; `BackoffIsKept` and
`InvocationsCanBeUndone` are about any number. What needs more actors, blocks or calls than a row of the table names is not examined.

**Deadlock** is not checked where the modelled thing ends: `fork_choice` (all blocks known)
and `scalar_code`. The other runs check it.

**Fairness.** `header_sync`, `convergence`, `gossip` and `outbound` state liveness. In `outbound` it is
weak fairness of the supervisor's steps, of time, and of each worker until its session begins; a
session may last for ever, and no order is assumed among the waiters of the gate. In `gossip` it is
weak fairness of the two threads, whose reads and writes have time limits (`P2P_SESSION_TIMEOUT`,
60 s), and strong fairness of `SendInventory`: the interval elapses however often a round skips it. `header_sync` assumes that an open session
takes its next step: the answer arrives, or the read fails. The code sets a read
timeout on every peer stream, so one of the two happens. Nothing is assumed about the peer's honesty, the local
chain, or restarts. `convergence` (`NodeState!Fairness`) assumes that from some time on the
process is not stopped, that a thread that holds the lock or runs a recovery goes
on (they wait for nothing but the lock), that a peer that keeps offering a tip is
asked again (the supervisor reconnects for ever), and that not every download of
a branch offered for ever is lost before it can be applied. It does not assume
that the blocks execute or that the best branch is offered first.

**Mutants.** Each property of each run is broken by a change to a mapped
definition that a plausible bug would make (a journal applied in the wrong order, a burn not recorded, a
checkpoint kept by height alone, a tie decided by arrival). The mutated
definitions stand before the ones they replace; nothing in the specification uses
them.

## 4. Proofs

The theorems hold for every value of the constants: all accounts, operations, amounts, heights and lengths,
all block trees, peers and limits. Each rests on an inductive invariant, which TLC checked on an instance before
it was proved (but for conjuncts that quantify over all functions, such as `Walked`). Where a leaf names two
time limits, the prover tries it again with the second, so that a busy machine does not fail it.

### The ledger

`LedgerStateProofs` proves what one operation does to a state and that its journal undoes it,
`LedgerProofs` what holds of the chain and its history and where coins come from.

* `Invariance`: `Spec => []IInv`, and from it `TypeCorrect`, `SupplyIsBalanced`, `OwnerIndexIsExact`,
  `BlocksAreAccounted`, `RollbackSucceeds`, `StateHasTipRoot`, `JournalsAreASuffix`;
* `OriginInvariance`: `Spec => []OriginInv`, and from it `NothingSpentTwice`, `ValidatedAlwaysApplies` and
  `SnapshotsAreRestorable`.

*Why an invariant.* `RollbackNeverRefused` says that the next journal applies to
the state at hand. Whether it does depends on what the journals after it
restored, and those on the states they were written in; neither is in the
property. `IInv` says that all journals kept (committed, staged, or in the
snapshot) connect the recorded states: each takes the state after its operation back to the state
before it, the first and last have the roots of the headers around the block,
and each of these states is sound and balanced. An execution step extends the
sequence by one (`OperationUndone`), commit moves it into the history, pruning
and rollback shorten it, snapshot and restore copy it.

*Why a second one.* Application refuses an operation whose shares or program exist already; validation does not look.
That the refusal never happens is a fact about the whole past of the chain: an operation that already ran consumed
its inputs, so it cannot be valid again (`FreshApplies`). `OriginInv` says for every height that the coins
of that state and the inputs of the blocks up to it were created by operations or emissions of those blocks, that no input is
still unspent, and that none was consumed twice; it says the same of the block in progress and of the chain in a snapshot. Its
conjunct on programs (deployed at or below the height, one per owner and nonce) is what a restore checks.

*Assumptions* are those of the modules: the schedule's constants are numbers and
the tail subsidy pays the miner burn (`EmissionAssumption`, `TailPaysBurn`); operations are well formed and one
that has the identifier of another is that operation (the identifier is a digest of all of it). TLC evaluates them in each run.

### Branches and sessions

`BranchProofs` proves for every set of candidate blocks that the chosen tip
is the preferred one of the known blocks (`ArrivalOrderIsIrrelevant`). The invariant `TreeInv` adds to the typing of the graph
that the tip is greater than every other node; the argument is that the order on
totals and hashes is total and that an insertion changes no other node.

With `LineInv` it proves that a reorganization plan leads from one chain to the other (`PlansConnect`) and that
every block has the target its own branch determines (`TargetsFollowOwnBranch`), whatever other branches know. The graph has
parent hashes only, so both are about what walks compute. `LineInv` says that each node but genesis has its parent in the
graph one height below and that the walk from it ends. From it follow, by induction on heights, that the walk down from a node is its line to genesis, that two
walks that meet stay together below (so the first common block is the fork), and that an insertion leaves the lines of the
others as they were. `BitsFollowOwnBranch` then needs that the weights found by height on the branch are those of
`EpochBits`, which the invariant keeps for every node (`RightBits`).

Of gossip it proves for every block tree, set of operations and pair of minimums that gossip sessions fail only by a race,
a conflict or a deployment that is not relayed (`SessionsFailOnlyByRace`; limits and a busy gate aside) and wait only below a minimum (`WaitsOnlyBelowMinimum`). A failure is a check of one side against
what it holds now, of something the other read earlier. The invariant (`Quiet`) says what each phase of an undisturbed session
still knows: the tips it compared are the tips held, a batch ends in the tip, inventories are those of the
pools, and after the blocks are exchanged the tips are equal. Of the operations still to be sent it says (`Sendable`) that what each builds on is at
the receiver, among them, or a deployment of the sender's pool; that follows from the order in which they are taken and from the pools:
each is unspent and closed on its chain (`PoolsSound`), whatever was reconciled. So the next one is rejected only for a
coin that a pending operation of the receiver spends or for a deployment it lacks.

`HeaderProofs` proves the safety properties of header synchronization for every block tree, target window, interval of
checkpoints, chunk and locator: the cached checkpoints and totals follow the chain (`CachesFollowChain`), the state a
session has after any chunks is the one the whole line gives (`StatesIndependentOfChunks`), a peer that serves
the valid chain it advertised is not refused within the session limit (`ValidPeersNotRefused`), a finished branch attaches to the local chain (`BranchesAttach`), and
is preferred exactly when fork choice prefers it (`PreferencesFollowForkChoice`). The invariant `HeaderInv` has two parts. The cache
is that of a valid line: every checkpoint is where its height says, with the totals up to it, whatever appends,
reorganizations and restarts came before. And a session holds the cache it read when it began, right at that time, with
a state that is the window, work and weight of the last header it took, and headers that lead from the ancestor to
it. The step that matters is a chunk: validation with a window of recent headers accepts exactly the headers that
validation with the whole line accepts, because the window reaches back over every epoch a target is computed from.

Two assumptions are needed besides those on types. Totals of the blocks there are do not saturate (`TotalsFit`): 512 bits
hold the sum of 2^64 works of 256 bits, and weights are bounded per block. The chains a node adopts are valid (`LocalTipsValid`): it
verified each before it stored it, which `ImplementsChain` below shows for bodies.

### The node

`NodeStateProofs` proves for every block tree, journal window, snapshot interval
and number of sessions that the node implements `CanonicalChain` (`ImplementsChain`) and
that the published ledger is the stored chain's whenever the lock is free
(`CacheIsCurrent`). The invariant `IndInv` adds what the holder of the lock carries (its
ledger has the stored tip), that a session's ancestor lies below its
tip on the same line, that a replayed recovery holds a branch that executes and
its ledger, and that every snapshot's journals start at or below its tip. Then
every step either leaves the stored chain alone or replaces it by the tip of a branch
that was compared with it under the lock.

With `StoreInv` it proves that snapshots stay on the chain (`SnapshotsStayOnChain`) and receipts stay available
(`ReceiptsStayAvailable`). Receipts are archived when journals are pruned, so the published ledger alone is not enough: a
restart or a recovery goes on from a snapshot, and the ledger about to be published is pruned before. `StoreInv` says of each of
them that the blocks below its journals are in the archive.

`NodePoolProofs` proves that the stored pool applies (`PoolStaysValid`), that no operation is lost when the chain moves
(`OperationsSurvive`), that remembered refusals and invalid blocks are right (`RefusalsStayRight`,
`NoValidBlockRemembered`), that templates are fresh (`TemplateStaysFresh`), and that the limits on the stored pool refuse no append and no
restart (`PoolsStayStorable`). Pool and chain are written in one transaction, so
the invariant about them holds at all times, not only with the lock free; it adds that the state kept beside the decoded pool
is the one the pool results in, and what the miner has read in each phase. Reconciliation is a fold over the candidates;
what it keeps, and why it left out the others, is proved by induction on them, and so is that what it keeps of a pool is
no longer and no larger than the pool (`ReconcileShrinks`), since sizes are numbers.

The assumptions: blocks form a tree
(`BlockTreeAssumption`), every block above genesis has work (`WorkAssumption`: `block_work` divides 2^256 by
at most 2^256), and an absent option is none of its values (`NoneAssumption`). That a chain has more work than its parts, which makes a child preferred to its parent, is proved
from them (`WorkGrows`).

### Programs, connections and indexes

`ProgramProofs` proves for all lengths of code, limits and values that admitted code
never panics (`AdmittedNeverPanics`), that execution follows the validator
(`ExecutionFollowsValidator`), and that requests are sound and kept (`SettlementGetsSoundRequests`,
`RequestsKept`). The invariant adds that each instruction was admitted at the depth, fuel and
requests recorded for it (`Checked`) and that the return comes last (`ReturnLast`).

It also proves for all programs, limits and trees of calls that an applied invocation can be undone (`InvocationsCanBeUndone`)
and that nothing of a waiting program changes (`WaitersAreUntouched`). The invariant (`Sound`) says of the staged copy after
every instruction that its journal already undoes all of it, that the lookup of a program has exactly its coins, and that no
consumed coin belongs to someone outside; with the programs being called distinct, an instruction of the innermost
one moves only its own coins.

`ConcurrencyProofs` proves for all peers and limits that dials, workers and permits are
counted exactly (`DialsCounted`, `OneWorkerPerPeer`, `GateCounts`), that no wake-up is lost
(`GateWakes`) and that backoff is remembered (`BackoffIsKept`). The invariant adds that a worker's report is in the channel at most once and that a
worker whose dial is reported has dialed (`Reports`), and that the failures of a configured peer are where its worker's
progress puts them: in the table, in the worker or in the channel (`BackoffInv`).

It also proves for all chains, contents and readers that a block is refused only for an operation of a branch the indexes were
rebuilt from (`RefusalsNameAnotherBranch`), and that an answer is wrong only after a race or a rebuild from a left branch
(`AnswersWrongOnlyByRace`). The invariant `IndexInv` says that the tables have all of the chain whose tip they name, each thing at its place, and
besides it at most coins of the stored chain, unless an append took the tables of another branch to be complete (`mixed`);
and of a reader nobody disturbed since its check that the tables are those of its ledger, and what it found is what its ledger has.

**Induction over data.** The induction theorems of the library take an operator as a parameter, which the provers
cannot instantiate. Where a proof needs induction (chained blocks, lines, totals, reconciliation) it is
an argument about sets of numbers: the lemma `Induct` follows from the least element of a set (`Least`), which
follows from the well-foundedness of the numbers. A recursive function of the model is reasoned about as a function that
satisfies its equation: a lemma builds one for every length, so the chosen one satisfies it too (`SumsExist`, `AlongIs`).

**Only model-checked.** Liveness, which is out of the prover's reach: `ConfiguredDialed`, `TipsConverge`, `Converges`
and `SessionEnds`. Every safety and action property that a passing run checks has a theorem. The other way
round, `TypeOK` and `JournalsCoverSuffix` of the ledger, `FollowsValidator`, `RequestsSettleable`, `NoRequestLost`,
`WorkersBounded` and `PermitsExact` are proved and not listed in a run.

## 5. Not modelled

Hash functions, signatures, proof-of-work computation and byte encodings are
outside a model checker's reach; they appear as distinct values and predicates.
RPC, explorer, configuration, NAT mapping and the command line format or parse what other
parts own. Left for later, although a model checker reaches them: inbound limits and cooldowns, the
admission gate, the peer store, the compact form of a relayed block, the parallel nonce search, asset shares and
supply records, the decoder and machine of version 4 code, the digit algorithms of targets and work, the state map
with its root cache, and the wallet's choice of inputs and fees; `PROJECT.json` lists their hazards without a property.
`LedgerState` takes the results of a program call as part of the operation and is not composed
with `ProgramCalls` and `ScalarCode`. In `GossipSession` rate limits are left out and the admission gate refuses at any time, in
`Indexes` the paging of answers. Extensions, the development kit and the vendored libraries under `src/depend`,
most of the lines in the tree, are not modelled.

## 6. Plan

Next are the parts left for later in section 5, the compact relay and the asset records first. To prove next: that
`LedgerState` settles what `ProgramCalls` requests, once the two are composed.
