----------------------------- MODULE NodeState -----------------------------
(***************************************************************************)
(* The canonical chain of a running node: the database (chain, mempool,    *)
(* snapshots, execution receipts), the ledger cache, the state mutation    *)
(* lock, and the threads that change the chain: relayed and submitted      *)
(* blocks, the miner, peer sessions that apply a downloaded branch, and    *)
(* the scratch recovery of branches that fork below the rollback journals. *)
(* The node may crash between any two steps and start again.               *)
(*                                                                         *)
(* runtime/src/node/state.rs, chain_sync.rs, recovery.rs, mining.rs,       *)
(* journal.rs, gossip.rs; runtime/src/storage.rs, snapshot.rs.             *)
(*                                                                         *)
(* A chain is its tip.  A ledger is a record of its tip and of base, the   *)
(* lowest height that still has a rollback journal.                        *)
(***************************************************************************)
EXTENDS Mempool

CONSTANTS
  Session,           \* concurrent sessions with peers
  PeerTip,           \* tips whose headers a peer can prove
  Relayed,           \* blocks that arrive by relay
  Offered,           \* blocks that arrive by submission
  Mined,             \* blocks the miner can find
  Submitted,         \* operations that arrive by RPC or relay
  JournalBlocks,     \* JOURNAL_BLOCKS
  SnapshotInterval,  \* SNAPSHOT_INTERVAL
  MaxInvalid,        \* the 64 of INVALID_CANDIDATES
  MaxBlockOps,       \* how many operations fit in a block
  MinimumWork,       \* the configured chain minimums
  MinimumWeight

ASSUME NodeStateAssumption ==
  /\ PeerTip \subseteq Block /\ Relayed \cup Offered \subseteq Block \ {Genesis}
  /\ Mined \subseteq Block \ {Genesis} /\ Submitted \subseteq Op
  /\ JournalBlocks \in Nat \ {0} /\ SnapshotInterval \in Nat \ {0}
  /\ MaxInvalid \in Nat \ {0} /\ MaxBlockOps \in Nat
  /\ MinimumWork \in Nat /\ MinimumWeight \in Nat

(* block_work is at least 1. *)
ASSUME WorkAssumption == \A b \in Block \ {Genesis} : WorkOf[b] >= 1

VARIABLES
  chain,      \* stored blocks: their tip
  snapshots,  \* stored snapshots, one per height
  receipts,   \* blocks whose execution receipts are archived
  cache,      \* LEDGER_CACHE: the published ledger, None before it is loaded
  lock,       \* STATE_MUTATION_LOCK: None, or what its holder has yet to do
  session,    \* the verified branch each session is about to apply
  recovery,   \* the recovery in flight (RECOVERY), or None
  invalid,    \* INVALID_CANDIDATES, oldest first
  miner       \* the mining template

(* What the options hold when they hold something. *)
Ledgers == [tip : Block, base : Nat]
Snapshots == [tip : Block, base : Nat, checked : BOOLEAN]
Branches == [ancestor : Block, tip : Block]
Locks ==
  [phase : {"publish"}, ledger : Ledgers, snapshot : BOOLEAN]
    \cup [phase : {"finish"}, snapshot : BOOLEAN]
    \cup [phase : {"pool"}, ledger : Ledgers]
Recoveries ==
  [session : Session, phase : {"begun", "read", "restored", "replayed"},
   captured : Ledgers, table : SUBSET Snapshots, ledger : Ledgers]

ASSUME NoneAssumption == None \notin Ledgers \cup Branches \cup Locks \cup Recoveries

disk == <<chain, pool, snapshots, receipts>>
vars == <<chain, pool, snapshots, receipts, pending, refusals,
          cache, lock, session, recovery, invalid, miner>>

-----------------------------------------------------------------------------
(* prune_journals: receipts of a block are archived before its journal goes. *)
AtLeast(lower, n) == IF n < lower THEN lower ELSE n

FirstKept(tip) == AtLeast(0, HeightOf(tip) - (JournalBlocks - 1))

Pruned(ledger) == [ledger EXCEPT !.base = AtLeast(FirstKept(ledger.tip), @)]

WithReceipt(blocks) == {b \in blocks : OpsOf[b] # <<>>}

ArchivesNothing(ledger) == {}

Archived(ledger) ==
  WithReceipt({HeaderAt(ledger.tip, h) : h \in ledger.base .. FirstKept(ledger.tip) - 1})

(* protocol_burns: from the journal, or from the archive. *)
HasReceipt(ledger, b) ==
  OpsOf[b] = <<>> \/ HeightOf(b) >= ledger.base \/ b \in receipts

CanRollbackTo(ledger, ancestor) == ledger.base <= HeightOf(ancestor) + 1

Above(tip, ancestor) == SubSeq(Line[tip], HeightOf(ancestor) + 2, Len(Line[tip]))

OpsAbove(tip, ancestor) ==
  LET upTo[n \in 0 .. HeightOf(tip) - HeightOf(ancestor)] ==
        IF n = 0 THEN <<>> ELSE upTo[n - 1] \o OpsOf[HeaderAt(tip, HeightOf(ancestor) + n)]
  IN  upTo[HeightOf(tip) - HeightOf(ancestor)]

CommonHeight(a, b) ==
  Max({h \in 0 .. HeightOf(a) : h <= HeightOf(b) /\ HeaderAt(a, h) = HeaderAt(b, h)})

Allowed(tip) == TotalWork[tip] >= MinimumWork /\ TotalWeight[tip] >= MinimumWeight

-----------------------------------------------------------------------------
(* Snapshots: the ledger, and whether a validation checkpoint vouches for   *)
(* the stored bodies up to it.                                              *)
SnapshotOf(ledger, checked) ==
  [tip |-> ledger.tip, base |-> ledger.base, checked |-> checked]

SnapshotHeight(s) == HeightOf(s.tip)

TwoNewest(table) ==
  {s \in table : Cardinality({t \in table : SnapshotHeight(t) > SnapshotHeight(s)}) < 2}

(* put_validated_snapshot *)
WithSnapshot(table, ledger) ==
  TwoNewest({s \in table : SnapshotHeight(s) # HeightOf(ledger.tip)}
              \cup {SnapshotOf(ledger, TRUE)})

Due(tip) == HeightOf(tip) # 0 /\ HeightOf(tip) % SnapshotInterval = 0

KeepsAllSnapshots(table, tip) == table

(* What replacing the chain leaves in the table. *)
SnapshotsThrough(table, tip) ==
  {s \in table : SnapshotHeight(s) <= CommonHeight(chain, tip)}

GenesisLedger == [tip |-> Genesis, base |-> 0]

Usable(table, stored) == {s \in table : OnLine(s.tip, stored)}

(* Where a replay starts: the newest snapshot of a table, else genesis. *)
StartFrom(table) ==
  IF table = {} THEN {GenesisLedger}
  ELSE {[tip |-> s.tip, base |-> s.base] :
          s \in {s \in table : \A t \in table : SnapshotHeight(t) <= SnapshotHeight(s)}}

-----------------------------------------------------------------------------
NoMiner == [phase |-> "idle"]

Notified(m) == IF m.phase = "idle" THEN m ELSE [m EXCEPT !.stale = TRUE]

(* The first start stores and publishes genesis. *)
Init ==
  /\ chain = Genesis /\ pool = <<>> /\ snapshots = {} /\ receipts = {}
  /\ pending = None /\ refusals = <<>>
  /\ cache = GenesisLedger /\ lock = None
  /\ session = [s \in Session |-> None] /\ recovery = None /\ invalid = <<>>
  /\ miner = NoMiner

Running == cache # None
Unlocked == Running /\ lock = None

(* After a commit the holder of the lock publishes the ledger, writes a     *)
(* snapshot if one is due, and wakes those who wait for a change.           *)
Publishing(ledger, large) ==
  [phase |-> "publish", ledger |-> ledger, snapshot |-> large \/ Due(ledger.tip)]

(* update_ledger_cache *)
Publish ==
  /\ lock # None /\ lock.phase = "publish"
  /\ cache' = Pruned(lock.ledger)
  /\ receipts' = receipts \cup Archived(lock.ledger)
  /\ lock' = [phase |-> "finish", snapshot |-> lock.snapshot]
  /\ UNCHANGED <<chain, pool, snapshots, pending, refusals, session, recovery, invalid, miner>>

(* write_if_due, write_after_large_sync, notify_gossip *)
Finish ==
  /\ lock # None /\ lock.phase = "finish"
  /\ snapshots' = IF lock.snapshot THEN WithSnapshot(snapshots, cache) ELSE snapshots
  /\ lock' = None
  /\ miner' = Notified(miner)
  /\ UNCHANGED <<chain, pool, receipts, pending, refusals, cache, session, recovery, invalid>>

-----------------------------------------------------------------------------
ReleasesEarly(b) ==
  /\ chain' = b
  /\ pool' = Reconcile(b, pool, Range(OpsOf[b]))
  /\ pending' = LoadPending(pool)
  /\ UNCHANGED lock

(* append_block_and_replace_mempool after apply_block.  The pool has shrunk, *)
(* so its encoding is not refused (PoolNeverBlocks).                         *)
CommitAppend(b) ==
  /\ chain' = b
  /\ pool' = Reconcile(b, pool, Range(OpsOf[b])) /\ Encodable(pool')
  /\ pending' = LoadPending(pool)
  /\ lock' = Publishing([cache EXCEPT !.tip = b], FALSE)

ExtendTip(b) ==
  /\ Unlocked
  /\ Parent(b) = cache.tip
  /\ Executes(b)
  /\ CommitAppend(b)
  /\ UNCHANGED <<snapshots, receipts, refusals, cache, session, recovery, invalid, miner>>

(* accept_relayed_block, when it accepts. *)
AcceptRelayed(b) == Allowed(b) /\ ExtendTip(b)

(* submit_block, when it accepts. *)
SubmitBlock(b) == ExtendTip(b)

(* insert_pending_operation *)
Insert(op) ==
  /\ Unlocked
  /\ \/ InsertAccepted(cache.tip, op) /\ miner' = Notified(miner)
     \/ InsertRefused(cache.tip, op) /\ UNCHANGED miner
  /\ UNCHANGED <<chain, snapshots, receipts, cache, lock, session, recovery, invalid>>

-----------------------------------------------------------------------------
(* The miner takes the generation, then the published ledger and the stored *)
(* pool, without the lock; it validates a template and searches until it    *)
(* finds a nonce or the generation has changed (stale).                     *)
MinerStart ==
  /\ Running /\ Mined # {} /\ miner.phase = "idle"
  /\ miner' = [phase |-> "started", stale |-> FALSE]
  /\ UNCHANGED <<chain, pool, snapshots, receipts, pending, refusals, cache, lock,
                 session, recovery, invalid>>

MinerReadLedger ==
  /\ miner.phase = "started"
  /\ miner' = [phase |-> "ledger", tip |-> cache.tip, stale |-> miner.stale]
  /\ UNCHANGED <<chain, pool, snapshots, receipts, pending, refusals, cache, lock,
                 session, recovery, invalid>>

MinerReadPool ==
  /\ miner.phase = "ledger"
  /\ miner' = [phase |-> "pool", tip |-> miner.tip, stale |-> miner.stale, entries |-> pool]
  /\ UNCHANGED <<chain, pool, snapshots, receipts, pending, refusals, cache, lock,
                 session, recovery, invalid>>

(* select_block_operations: a prefix of the pool. *)
Selected(entries) ==
  SubSeq(entries, 1, IF Len(entries) < MaxBlockOps THEN Len(entries) ELSE MaxBlockOps)

(* validate_pending_operations *)
ValidTemplate(tip, ops) == Encodable(ops) /\ Replays(tip, ops)

(* mine_next_block_database with the generation taken after the template. *)
LateGeneration ==
  IF ValidTemplate(miner.tip, Selected(miner.entries))
  THEN [phase |-> "search", tip |-> miner.tip, stale |-> FALSE,
        ops |-> Selected(miner.entries)]
  ELSE NoMiner

Template ==
  IF ValidTemplate(miner.tip, Selected(miner.entries)) /\ ~ miner.stale
  THEN [phase |-> "search", tip |-> miner.tip, stale |-> FALSE,
        ops |-> Selected(miner.entries)]
  ELSE NoMiner

MinerBuild ==
  /\ miner.phase = "pool"
  /\ pending' = LoadPending(miner.entries)
  /\ miner' = Template
  /\ UNCHANGED <<chain, pool, snapshots, receipts, refusals, cache, lock,
                 session, recovery, invalid>>

(* mine_until_cancelled sees another generation. *)
MinerCancel ==
  /\ miner.phase = "search" /\ miner.stale
  /\ miner' = NoMiner
  /\ UNCHANGED <<chain, pool, snapshots, receipts, pending, refusals, cache, lock,
                 session, recovery, invalid>>

(* persist_mined_block: a block on another tip is stale and dropped. *)
MinerFind(b) ==
  /\ Unlocked /\ miner.phase = "search"
  /\ Parent(b) = miner.tip /\ OpsOf[b] = miner.ops
  /\ \/ miner.tip = cache.tip /\ Executes(b) /\ CommitAppend(b)
     \/ miner.tip # cache.tip /\ UNCHANGED <<chain, pool, pending, lock>>
  /\ miner' = NoMiner
  /\ UNCHANGED <<snapshots, receipts, refusals, cache, session, recovery, invalid>>

-----------------------------------------------------------------------------
(* A session has verified the headers of a branch, found it better than the *)
(* chain it then saw, and downloads its blocks (each queued for relay).     *)
BeginSession(s, tip) ==
  /\ Running /\ session[s] = None
  /\ Better(tip, cache.tip) /\ Allowed(tip)
  /\ \E ancestor \in {a \in Block : OnLine(a, tip) /\ OnLine(a, cache.tip)} :
       session' = [session EXCEPT ![s] = [ancestor |-> ancestor, tip |-> tip]]
  /\ miner' = Notified(miner)
  /\ UNCHANGED <<chain, pool, snapshots, receipts, pending, refusals, cache, lock,
                 recovery, invalid>>

InRecovery(s) == recovery # None /\ recovery.session = s

(* The connection breaks, or a body does not match its header. *)
AbandonSession(s) ==
  /\ session[s] # None /\ ~ InRecovery(s)
  /\ session' = [session EXCEPT ![s] = None]
  /\ UNCHANGED <<chain, pool, snapshots, receipts, pending, refusals, cache, lock,
                 recovery, invalid, miner>>

Attaches(branch) == OnLine(branch.ancestor, cache.tip)

BetterWhenDownloaded(branch) == TRUE

StillBetter(branch) == Better(branch.tip, cache.tip)

BranchExecutes(branch) == \A b \in Range(Above(branch.tip, branch.ancestor)) : Executes(b)

PendingFirst(branch) == pool \o OpsAbove(cache.tip, branch.ancestor)

Candidates(branch) == OpsAbove(cache.tip, branch.ancestor) \o pool

(* The pool on the new chain.  The operations of the blocks left come       *)
(* before those that were pending.                                          *)
Requeued(branch) ==
  Reconcile(branch.tip, Candidates(branch), Range(OpsAbove(branch.tip, branch.ancestor)))

StoresAnyPool(branch, extra) ==
  /\ chain' = branch.tip
  /\ pool' = Requeued(branch)
  /\ pending' = LoadPending(pool)
  /\ snapshots' = SnapshotsThrough(snapshots, branch.tip) \cup extra

(* The new chain, the mempool and the snapshots in one transaction, if the  *)
(* pool can be stored.                                                      *)
CommitBranch(branch, extra) ==
  /\ Encodable(Requeued(branch))
  /\ chain' = branch.tip
  /\ pool' = Requeued(branch)
  /\ pending' = LoadPending(pool)
  /\ snapshots' = SnapshotsThrough(snapshots, branch.tip) \cup extra

(* apply_verified_branch_stream, when the journals reach the ancestor. *)
ApplyBranch(s) ==
  /\ Unlocked /\ session[s] # None /\ ~ InRecovery(s)
  /\ LET branch == session[s]
         staged == [cache EXCEPT !.tip = branch.tip]
     IN  /\ StillBetter(branch) /\ Attaches(branch) /\ CanRollbackTo(cache, branch.ancestor)
         /\ BranchExecutes(branch)
         /\ CommitBranch(branch, {})
         /\ receipts' = receipts \cup Archived(staged)
         /\ lock' = Publishing(Pruned(staged),
                      Len(Above(branch.tip, branch.ancestor)) >= SnapshotInterval)
  /\ session' = [session EXCEPT ![s] = None]
  /\ UNCHANGED <<refusals, cache, recovery, invalid, miner>>

FirstOfBranch(branch) == Above(branch.tip, branch.ancestor)[1]

FirstInvalid(branch) ==
  LET blocks == Above(branch.tip, branch.ancestor)
  IN  blocks[CHOOSE i \in 1 .. Len(blocks) :
               ~ Executes(blocks[i]) /\ \A j \in 1 .. i - 1 : Executes(blocks[j])]

(* ... when it has nothing to apply, a block of the branch fails, or the    *)
(* pool on the new chain is too large to store.  The receipts archived      *)
(* while staging the blocks stay.                                           *)
RefuseBranch(s) ==
  /\ Unlocked /\ session[s] # None /\ ~ InRecovery(s)
  /\ LET branch == session[s]
     IN  \/ /\ ~ StillBetter(branch) \/ ~ Attaches(branch)
            /\ UNCHANGED <<receipts, pending>>
         \/ /\ StillBetter(branch) /\ Attaches(branch) /\ CanRollbackTo(cache, branch.ancestor)
            /\ ~ BranchExecutes(branch)
            /\ receipts' = receipts
                 \cup Archived([cache EXCEPT !.tip = Parent(FirstInvalid(branch))])
            /\ UNCHANGED pending
         \/ /\ StillBetter(branch) /\ Attaches(branch) /\ CanRollbackTo(cache, branch.ancestor)
            /\ BranchExecutes(branch) /\ ~ Encodable(Requeued(branch))
            /\ receipts' = receipts \cup Archived([cache EXCEPT !.tip = branch.tip])
            /\ pending' = LoadPending(pool)
  /\ session' = [session EXCEPT ![s] = None]
  /\ UNCHANGED <<chain, pool, snapshots, refusals, cache, lock, recovery, invalid, miner>>

-----------------------------------------------------------------------------
(* recover_branch: the lock is released; one recovery runs at a time, and   *)
(* none for a branch with a block known to be invalid.                      *)
BeginRecovery(s) ==
  /\ Unlocked /\ session[s] # None /\ ~ InRecovery(s)
  /\ LET branch == session[s]
     IN  /\ StillBetter(branch) /\ Attaches(branch) /\ ~ CanRollbackTo(cache, branch.ancestor)
         /\ IF \/ recovery # None
               \/ Range(Above(branch.tip, branch.ancestor)) \cap Range(invalid) # {}
            THEN /\ session' = [session EXCEPT ![s] = None]
                 /\ UNCHANGED recovery
            ELSE /\ recovery' = [session |-> s, phase |-> "begun", captured |-> cache,
                                 table |-> {}, ledger |-> GenesisLedger]
                 /\ UNCHANGED session
  /\ UNCHANGED <<chain, pool, snapshots, receipts, pending, refusals, cache, lock,
                 invalid, miner>>

RecoveryBranch == session[recovery.session]

EndRecovery ==
  /\ recovery' = None
  /\ session' = [session EXCEPT ![recovery.session] = None]

(* load_streamed_through: the table is read first ... *)
RecoverReadSnapshots ==
  /\ recovery # None /\ recovery.phase = "begun"
  /\ recovery' = [recovery EXCEPT !.phase = "read",
       !.table = {s \in snapshots : SnapshotHeight(s) <= HeightOf(RecoveryBranch.ancestor)}]
  /\ UNCHANGED <<chain, pool, snapshots, receipts, pending, refusals, cache, lock,
                 session, invalid, miner>>

(* ... and each snapshot then checked against the stored bodies; what is    *)
(* restored must be a prefix of the chain the recovery started from.        *)
RecoverRestore ==
  /\ recovery # None /\ recovery.phase = "read"
  /\ \E start \in StartFrom(Usable(recovery.table, chain)) :
       \/ /\ OnLine(start.tip, recovery.captured.tip)
          /\ recovery' = [recovery EXCEPT !.phase = "restored", !.ledger = start, !.table = {}]
          /\ UNCHANGED session
       \/ ~ OnLine(start.tip, recovery.captured.tip) /\ EndRecovery
  /\ UNCHANGED <<chain, pool, snapshots, receipts, pending, refusals, cache, lock,
                 invalid, miner>>

RememberInvalid(b) ==
  Append(IF Len(invalid) >= MaxInvalid THEN Tail(invalid) ELSE invalid, b)

(* The replay in the scratch database: the stored prefix must still be the  *)
(* captured one and every block of it have its receipts; then the branch.   *)
PrefixAvailable ==
  LET ancestor == RecoveryBranch.ancestor
  IN  /\ OnLine(ancestor, chain)
      /\ \A b \in Range(Line[ancestor]) : HasReceipt(recovery.captured, b)

RecoverReplay ==
  /\ recovery # None /\ recovery.phase = "restored"
  /\ LET branch == RecoveryBranch
     IN  \/ /\ PrefixAvailable /\ BranchExecutes(branch)
            /\ recovery' = [recovery EXCEPT !.phase = "replayed",
                 !.ledger = Pruned([@ EXCEPT !.tip = branch.tip])]
            /\ UNCHANGED <<session, invalid>>
         \/ /\ PrefixAvailable /\ ~ BranchExecutes(branch)
            /\ invalid' = RememberInvalid(FirstInvalid(branch))
            /\ EndRecovery
         \/ ~ PrefixAvailable /\ EndRecovery /\ UNCHANGED invalid
  /\ UNCHANGED <<chain, pool, snapshots, receipts, pending, refusals, cache, lock, miner>>

(* Publication under the lock, if the ancestor is still on the chain, the   *)
(* branch still better and the pool not too large; receipts are copied      *)
(* before the pool is encoded.                                              *)
RecoverPublish ==
  /\ Unlocked /\ recovery # None /\ recovery.phase = "replayed"
  /\ LET branch == RecoveryBranch
     IN  \/ /\ Attaches(branch) /\ StillBetter(branch)
            /\ CommitBranch(branch, {SnapshotOf(recovery.ledger, FALSE)})
            /\ receipts' = receipts \cup WithReceipt(Range(Line[branch.tip]))
            /\ lock' = Publishing(recovery.ledger, FALSE)
         \/ /\ Attaches(branch) /\ StillBetter(branch) /\ ~ Encodable(Requeued(branch))
            /\ receipts' = receipts \cup WithReceipt(Range(Line[branch.tip]))
            /\ pending' = LoadPending(pool)
            /\ UNCHANGED <<chain, pool, snapshots, lock>>
         \/ /\ ~ (Attaches(branch) /\ StillBetter(branch))
            /\ UNCHANGED <<chain, pool, snapshots, receipts, pending, lock>>
  /\ EndRecovery
  /\ UNCHANGED <<refusals, cache, invalid, miner>>

-----------------------------------------------------------------------------
(* The process ends between any two steps; the database remains. *)
Crash ==
  /\ cache # None \/ lock # None
  /\ pending' = None /\ refusals' = <<>>
  /\ cache' = None /\ lock' = None
  /\ session' = [s \in Session |-> None] /\ recovery' = None /\ invalid' = <<>>
  /\ miner' = NoMiner
  /\ UNCHANGED disk

(* load_streamed: snapshots that a checkpoint vouches for. *)
Vouched == {s \in Usable(snapshots, chain) : s.checked}

(* replay_body_reader up to a height: every block is applied and journals   *)
(* pruned; due snapshots are written on the way.                            *)
ReplayedTo(start, height) == Pruned([start EXCEPT !.tip = HeaderAt(chain, height)])

SnapshotsTo(start, height) ==
  LET due == {h \in HeightOf(start.tip) + 1 .. height : Due(HeaderAt(chain, h))}
  IN  TwoNewest({s \in snapshots : SnapshotHeight(s) \notin due}
                  \cup {SnapshotOf(ReplayedTo(start, h), TRUE) : h \in due})

(* What the end of a replay writes: a snapshot of the tip if it was reached *)
(* by replay, or if there was none to start from.                           *)
FinalSnapshots(start) ==
  IF start.tip = chain /\ Vouched # {}
  THEN snapshots
  ELSE WithSnapshot(SnapshotsTo(start, HeightOf(chain)), ReplayedTo(start, HeightOf(chain)))

(* load_existing *)
Restart ==
  /\ ~ Running /\ lock = None
  /\ \E start \in StartFrom(Vouched) :
       /\ snapshots' = FinalSnapshots(start)
       /\ receipts' = receipts \cup Archived([start EXCEPT !.tip = chain])
       /\ lock' = [phase |-> "pool", ledger |-> ReplayedTo(start, HeightOf(chain))]
  /\ UNCHANGED <<chain, pool, pending, refusals, cache, session, recovery, invalid, miner>>

(* The process ends before the replay does. *)
RestartInterrupted(height) ==
  /\ ~ Running /\ lock = None
  /\ \E start \in StartFrom(Vouched) :
       /\ height \in HeightOf(start.tip) .. HeightOf(chain)
       /\ snapshots' = SnapshotsTo(start, height)
       /\ receipts' = receipts \cup Archived([start EXCEPT !.tip = HeaderAt(chain, height)])
  /\ UNCHANGED <<chain, pool, pending, refusals, cache, lock, session, recovery, invalid, miner>>

(* recover_mempool *)
RecoverPool ==
  /\ lock # None /\ lock.phase = "pool"
  /\ pool' = Reconcile(lock.ledger.tip, pool, {}) /\ Encodable(pool')
  /\ pending' = LoadPending(pool)
  /\ lock' = Publishing(lock.ledger, FALSE)
  /\ UNCHANGED <<chain, snapshots, receipts, refusals, cache, session, recovery, invalid, miner>>

-----------------------------------------------------------------------------
Next ==
  \/ Publish
  \/ Finish
  \/ \E b \in Relayed : AcceptRelayed(b)
  \/ \E b \in Offered : SubmitBlock(b)
  \/ \E op \in Submitted : Insert(op)
  \/ MinerStart
  \/ MinerReadLedger
  \/ MinerReadPool
  \/ MinerBuild
  \/ MinerCancel
  \/ \E b \in Mined : MinerFind(b)
  \/ \E s \in Session, tip \in PeerTip : BeginSession(s, tip)
  \/ \E s \in Session : AbandonSession(s)
  \/ \E s \in Session : ApplyBranch(s)
  \/ \E s \in Session : RefuseBranch(s)
  \/ \E s \in Session : BeginRecovery(s)
  \/ RecoverReadSnapshots
  \/ RecoverRestore
  \/ RecoverReplay
  \/ RecoverPublish
  \/ Crash
  \/ Restart
  \/ \E height \in 0 .. HeightOf(chain) : RestartInterrupted(height)
  \/ RecoverPool

Spec == Init /\ [][Next]_vars

TakeUp(s, tip) ==
  /\ session[s] # None /\ session[s].tip = tip
  /\ ApplyBranch(s) \/ BeginRecovery(s)

(* In the end the process is not stopped.  Its threads keep running, a peer *)
(* that offers a tip is asked again, and of the downloads of a branch not   *)
(* every one is lost before it can be applied.                              *)
Fairness ==
  /\ <>[][~ Crash]_vars
  /\ WF_vars(Publish) /\ WF_vars(Finish)
  /\ WF_vars(Restart) /\ WF_vars(RecoverPool)
  /\ \A s \in Session :
       /\ WF_vars(ApplyBranch(s) \/ RefuseBranch(s) \/ BeginRecovery(s))
       /\ \A tip \in PeerTip :
            SF_vars(BeginSession(s, tip)) /\ SF_vars(TakeUp(s, tip))
  /\ WF_vars(RecoverReadSnapshots \/ RecoverRestore \/ RecoverReplay \/ RecoverPublish)

FairSpec == Spec /\ Fairness

-----------------------------------------------------------------------------
(* Every variable has the shape its comment says, and every bounded memory   *)
(* keeps its bound.                                                          *)
TypeOK ==
  /\ chain \in Block
  /\ pool \in Seq(Op) /\ Encodable(pool)
  /\ snapshots \subseteq Snapshots
  /\ receipts \subseteq Block
  /\ pending = None \/ pending.entries \in Seq(Op)
  /\ Len(refusals) <= MaxRefusals
  /\ cache \in Ledgers \cup {None}
  /\ lock \in Locks \cup {None}
  /\ session \in [Session -> Branches \cup {None}]
  /\ recovery = None \/ (recovery \in Recoveries /\ session[recovery.session] # None)
  /\ invalid \in Seq(Block) /\ Len(invalid) <= MaxInvalid

(* The stored chain and the published ledger change in separate steps; while *)
(* nobody holds the state mutation lock they name the same tip, and the tip  *)
(* can be rolled back.                                                       *)
CacheMatchesDisk ==
  /\ Unlocked => cache.tip = chain
  /\ Running => cache.base <= HeightOf(cache.tip)

(* Whatever threads, reorganisations, recoveries and crashes do, the stored  *)
(* chain executes and only ever gives way to one that fork choice prefers.   *)
Canonical == INSTANCE CanonicalChain WITH
  tip <- chain, Root <- Genesis, Preferred <- Better,
  Acceptable <- {b \in Block : ValidChain(b)}

ImplementsCanonicalChain == Canonical!Spec

(* The stored pool applies, in order, to the stored chain while the lock is  *)
(* free, although insertion trusts the state kept beside the decoded pool.   *)
PoolApplies == Unlocked => Replays(chain, pool)

(* When the chain moves, an operation that was pending or was in a block it  *)
(* leaves stays pending unless it is in the new chain, pays too little,      *)
(* cannot follow what is pending, or the pool is full.                       *)
NoOperationLost ==
  [][chain' # chain =>
       \A op \in Range(pool) \cup (Done[chain] \ Done[chain']) :
         \/ op \in Done[chain'] \cup Range(pool') \cup LowFee
         \/ Len(pool') = MaxPool
         \/ ~ Applies(Done[chain'] \cup Range(pool'), op)]_vars

(* The execution receipts of every block of the published chain are in its   *)
(* journals or in the archive.                                               *)
ReceiptsAvailable ==
  Running => \A b \in Range(Line[cache.tip]) : HasReceipt(cache, b)

(* Every stored snapshot is of the stored chain and can be rolled back, also *)
(* after a reorganisation or a crash.                                        *)
SnapshotsOnChain ==
  \A s \in snapshots : OnLine(s.tip, chain) /\ s.base <= HeightOf(s.tip)

(* Only blocks that do not execute are remembered as invalid candidates.     *)
OnlyInvalidRemembered == \A b \in Range(invalid) : ~ Executes(b)

(* A template whose generation is current extends the stored chain with a    *)
(* prefix of the stored pool.                                                *)
TemplateFresh ==
  Unlocked /\ miner.phase = "search" /\ ~ miner.stale =>
    miner.tip = chain /\ miner.ops = Selected(pool)

(* A remembered refusal is of an operation that would be refused again.      *)
RefusalsHold ==
  \A k \in Range(refusals) :
    ~ Encodable(Append(k.entries, k.op)) \/ ~ Replays(k.anchor, Append(k.entries, k.op))

(* The limit on stored bytes can keep a node from a better branch.  It never *)
(* refuses a block that extends the tip, nor a restart: what these leave of  *)
(* the stored pool can be stored, whatever reorganizations went before.      *)
PoolNeverBlocks ==
  /\ Encodable(Reconcile(chain, pool, {}))
  /\ \A b \in Block \ {Genesis} :
       Parent(b) = chain /\ Executes(b) => Encodable(Reconcile(b, pool, Range(OpsOf[b])))

(* "It retains the two newest snapshots." *)
AtMostTwoSnapshots == Cardinality(snapshots) <= 2

(* The pool that leaving the chain for a tip would result in is refused by   *)
(* encode_pending_operations.                                                *)
Crowded(tip) == ~ Encodable(Reconcile(tip, OpsAbove(chain, Genesis) \o pool, {}))

(* The node ends on the best chain that executes among those offered to it,  *)
(* also from below its journals and with an invalid chain that promises more *)
(* work, but for branches it refuses every time because the operations of    *)
(* the blocks it would leave, with the pending ones, are too large to store. *)
Converges ==
  <>[](\A tip \in PeerTip :
         ValidChain(tip) /\ Allowed(tip) =>
           tip = chain \/ Better(chain, tip) \/ Crowded(tip))

=============================================================================
