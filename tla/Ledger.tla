------------------------------- MODULE Ledger -------------------------------
(***************************************************************************)
(* The canonical ledger: kernel/src/ledger/canonical/ on top of            *)
(* kernel/src/blockchain/chain.rs.                                         *)
(*                                                                         *)
(* A block is executed on a private copy of the state, one operation at a  *)
(* time, and committed in one assignment; rolling back the tip undoes the  *)
(* block's journals, last first, on a private copy.  Both are calls on an  *)
(* exclusive reference, so at most one is in progress and nothing else     *)
(* touches the ledger meanwhile; the variable staged holds its progress.   *)
(*                                                                         *)
(* Heights are 0 .. Len(headers) - 1; header h is headers[h + 1].          *)
(***************************************************************************)
EXTENDS LedgerState

CONSTANTS
  Miner,        \* accounts that mine
  MaxHeight,    \* bound: no block is applied above this height
  MaxBlockOps,  \* bound: operations per block
  NoSnapshot    \* snapshot before the first one is taken

ASSUME LedgerAssumption ==
  /\ Miner \subseteq Owner
  /\ MaxHeight \in Nat /\ MaxBlockOps \in Nat

VARIABLES
  headers,   \* the canonical headers, each with its block's contents
  bodies,    \* heights whose block bodies are resident
  state,     \* the canonical state
  journals,  \* rollback journals by height
  staged,    \* execution or rollback in progress, or Idle
  snapshot,  \* the last snapshot taken, or NoSnapshot
  trace      \* auxiliary: for each height with journals, the state before
             \* each of them and the state after the last

vars == <<headers, bodies, state, journals, staged, snapshot, trace>>

-----------------------------------------------------------------------------
(* The value of staged when nothing is in progress. *)
Idle == [kind |-> "idle"]

Tip == Len(headers) - 1

TipRoot == headers[Len(headers)].root

(* The canonical root that the ledger's state must have: of the tip, or of  *)
(* the empty state if there is no block.                                    *)
RootAt(chain) ==
  IF chain = << >> THEN StateRoot(EmptyState) ELSE chain[Len(chain)].root

(* A block's identity is that of its parent chain, its miner and its        *)
(* operations: the hash chain without the hashing.                          *)
ParentId(chain) ==
  [i \in DOMAIN chain |->
     <<chain[i].miner, [k \in DOMAIN chain[i].ops |-> chain[i].ops[k].id]>>]

FeesOf(ops) == FoldFunction(LAMBDA op, fees : op.fee + fees, 0, ops)

BlockOps == UNION {[1 .. n -> Operation] : n \in 0 .. MaxBlockOps}

Init ==
  /\ headers = << >>
  /\ bodies = {}
  /\ state = EmptyState
  /\ journals = EmptyMap
  /\ staged = Idle
  /\ snapshot = NoSnapshot
  /\ trace = EmptyMap

(* The genesis block carries no emission and no operation. *)
ApplyGenesis ==
  /\ staged = Idle
  /\ headers = << >>
  /\ StateRoot(state) = RootAt(headers)
  /\ headers' = <<[miner |-> Absent, ops |-> << >>, root |-> StateRoot(state)]>>
  /\ bodies' = {0}
  /\ journals' = [h \in {0} |-> << >>]
  /\ trace' = [h \in {0} |-> <<state>>]
  /\ UNCHANGED <<state, staged, snapshot>>

(* Mutant: the miner also receives the protocol burn. *)
EmissionCoinsWithBurn(share, coin) ==
  [id \in {share} |-> [coin EXCEPT !.amount = @ + MinerProtocolBurn]]

(* The miner's coin, unless its amount is zero. *)
EmissionCoins(share, coin) ==
  [id \in (IF coin.amount = 0 THEN {} ELSE {share}) |-> coin]

AfterEmission(s, new, subsidy) ==
  [Replace(s, {}, new) EXCEPT !.mined = s.mined + subsidy,
                              !.burned = s.burned + MinerProtocolBurn]

EmissionJournal(new, subsidy) ==
  [consumed |-> EmptyMap, created |-> DOMAIN new,
   vm_consumed |-> EmptyMap, vm_created |-> {},
   mined |-> subsidy, burned |-> MinerProtocolBurn,
   program |-> [kind |-> "none"], extension |-> EmptyMap]

CanEmit(s, new, subsidy) ==
  /\ CanReplace(s, {}, new)
  /\ s.mined + subsidy \in Zeno
  /\ s.burned + MinerProtocolBurn \in Zeno

(* The first part of execute_block: linkage, the prior root, and the        *)
(* emission, on a copy of the state.                                        *)
BeginBlock(miner, ops) ==
  LET subsidy == ExpectedEmission(Len(headers), FeesOf(ops))
      coin == [owner |-> miner, amount |-> subsidy - MinerProtocolBurn]
      new == EmissionCoins(EmissionShare(ParentId(headers), miner, subsidy), coin)
  IN  /\ staged = Idle
      /\ headers # << >> /\ Len(headers) <= MaxHeight
      /\ Tip \in bodies
      /\ StateRoot(state) = TipRoot
      /\ IsInjective(ops)
      /\ Len(headers) >= FoteActivationHeight => FeesOf(ops) \in Zeno
      /\ subsidy \in Zeno /\ coin.amount \in Zeno
      /\ CanEmit(state, new, subsidy)
      /\ staged' =
           [kind |-> "execute", miner |-> miner, ops |-> ops,
            subsidy |-> subsidy, burns |-> MinerProtocolBurn,
            state |-> AfterEmission(state, new, subsidy),
            journals |-> <<EmissionJournal(new, subsidy)>>,
            before |-> <<state>>]
      /\ UNCHANGED <<headers, bodies, state, journals, snapshot, trace>>

(* The operation that execution validates and applies next: the first       *)
(* journal is the emission's, so operation n follows n journals.            *)
Executing == staged.kind = "execute"

MoreOps == Len(staged.journals) <= Len(staged.ops)

NextOp == staged.ops[Len(staged.journals)]

(* Validation and application of the next operation succeed. *)
Accepts(sel) ==
  /\ ValidOp(staged.state, NextOp, staged.miner, sel)
  /\ CanApply(staged.state, NextOp, staged.miner, Len(headers), sel)

ExecuteOp ==
  LET s == staged.state
  IN  /\ Executing /\ MoreOps
      /\ \E sel \in Selections(s, NextOp) :
           /\ Accepts(sel)
           /\ staged' = [staged EXCEPT
                !.burns = @ + PaymentBurn(s, NextOp, staged.miner),
                !.state = Apply(s, NextOp, staged.miner, Len(headers), sel),
                !.journals = Append(@, Journal(s, NextOp, staged.miner, sel)),
                !.before = Append(@, s)]
      /\ UNCHANGED <<headers, bodies, state, journals, snapshot, trace>>

BlockAccounted ==
  state.total_value + staged.subsidy - staged.burns = staged.state.total_value

(* The last part of execute_block and the commit of apply_validated_block,  *)
(* for a block whose claimed weight and root are the computed ones.         *)
CommitBlock ==
  LET h == Len(headers)
  IN  /\ Executing /\ ~MoreOps
      /\ BlockAccounted
      /\ SupplyValid(staged.state)
      /\ headers' = Append(headers, [miner |-> staged.miner, ops |-> staged.ops,
                                     root |-> StateRoot(staged.state)])
      /\ bodies' = bodies \cup {h}
      /\ state' = staged.state
      /\ journals' = [i \in DOMAIN journals \cup {h} |->
                        IF i = h THEN staged.journals ELSE journals[i]]
      /\ trace' = [i \in DOMAIN trace \cup {h} |->
                     IF i = h THEN Append(staged.before, staged.state) ELSE trace[i]]
      /\ staged' = Idle
      /\ UNCHANGED snapshot

(* An operation fails validation or application, or the claimed weight or   *)
(* root differs, or the block was only previewed: the copy is dropped.      *)
RejectBlock ==
  /\ Executing
  /\ MoreOps => \A sel \in Selections(staged.state, NextOp) : ~Accepts(sel)
  /\ staged' = Idle
  /\ UNCHANGED <<headers, bodies, state, journals, snapshot, trace>>

-----------------------------------------------------------------------------
Undoing == staged.kind = "undo"

BeginRollback ==
  /\ staged = Idle
  /\ headers # << >>
  /\ Tip \in bodies
  /\ StateRoot(state) = TipRoot
  /\ Tip \in DOMAIN journals
  /\ staged' = [kind |-> "undo", state |-> state, left |-> Len(journals[Tip])]
  /\ UNCHANGED <<headers, bodies, state, journals, snapshot, trace>>

UndoJournal ==
  /\ Undoing /\ staged.left > 0
  /\ CanUndo(staged.state, journals[Tip][staged.left])
  /\ staged' = [staged EXCEPT
       !.state = Undo(@, journals[Tip][staged.left]), !.left = @ - 1]
  /\ UNCHANGED <<headers, bodies, state, journals, snapshot, trace>>

(* The checks that a finished rollback must pass before it is committed. *)
RollbackChecks ==
  /\ SupplyValid(staged.state)
  /\ StateRoot(staged.state) = RootAt(SubSeq(headers, 1, Tip))

FinishRollback ==
  /\ Undoing /\ staged.left = 0
  /\ RollbackChecks
  /\ headers' = SubSeq(headers, 1, Tip)
  /\ bodies' = bodies \ {Tip}
  /\ state' = staged.state
  /\ journals' = Restrict(journals, DOMAIN journals \ {Tip})
  /\ trace' = Restrict(trace, DOMAIN trace \ {Tip})
  /\ staged' = Idle
  /\ UNCHANGED snapshot

-----------------------------------------------------------------------------
(* prune_rollback_journals_before: the tip's journals are always kept. *)
PruneJournals(height) ==
  LET first == IF headers # << >> /\ Tip < height THEN Tip ELSE height
      kept == {h \in DOMAIN journals : h >= first}
  IN  /\ staged = Idle
      /\ kept # DOMAIN journals
      /\ journals' = Restrict(journals, kept)
      /\ trace' = Restrict(trace, kept)
      /\ UNCHANGED <<headers, bodies, state, staged, snapshot>>

(* retain_recent_bodies: which old bodies fit depends on their sizes, but   *)
(* the bodies of genesis and of the tip are pinned.                         *)
RetainRecentBodies(keep) ==
  /\ staged = Idle
  /\ bodies \cap {0, Tip} \subseteq keep
  /\ bodies' = keep
  /\ UNCHANGED <<headers, state, journals, staged, snapshot, trace>>

(* cache_known_block: a body of a known header becomes resident again. *)
CacheKnownBlock(height) ==
  /\ staged = Idle
  /\ height \in 0 .. Tip
  /\ bodies' = bodies \cup {height}
  /\ UNCHANGED <<headers, state, journals, staged, snapshot, trace>>

(* A snapshot is written right after a block has been applied, when the     *)
(* tip's journals are present.                                              *)
TakeSnapshot ==
  /\ staged = Idle
  /\ headers # << >> /\ Tip \in DOMAIN journals
  /\ StateRoot(state) = TipRoot
  /\ snapshot' = [headers |-> headers, state |-> StateRoot(state),
                  journals |-> journals, trace |-> trace]
  /\ UNCHANGED <<headers, bodies, state, journals, staged, trace>>

(* Mutant: the asset state is not restored. *)
DecodedWithoutAssets(encoded) ==
  [coins |-> encoded.coins, total_value |-> encoded.total_value,
   by_owner |-> OwnersOf(encoded.coins), mined |-> encoded.mined,
   burned |-> encoded.burned, programs |-> encoded.programs,
   assets |-> [k \in AssetKey |-> Absent]]

(* Decoding rebuilds the owner lookup from the coins. *)
DecodedState(encoded) ==
  [coins |-> encoded.coins, total_value |-> encoded.total_value,
   by_owner |-> OwnersOf(encoded.coins), mined |-> encoded.mined,
   burned |-> encoded.burned, programs |-> encoded.programs,
   assets |-> encoded.assets]

JournalCount(header, height) == (IF height = 0 THEN 0 ELSE 1) + Len(header.ops)

(* restore_snapshot_blocks: the journals are those of a suffix of the       *)
(* history, complete for every block of it, and the state passes the audits *)
(* and has the root of the last block.                                      *)
RestoreAccepts(snap) ==
  LET tip == Len(snap.headers) - 1
      s == snap.state
  IN  /\ \E start \in DOMAIN snap.journals :
           /\ DOMAIN snap.journals = start .. tip
           /\ \A h \in start .. tip :
                Len(snap.journals[h]) = JournalCount(snap.headers[h + 1], h)
      /\ SupplyValid(s) /\ Value(s.coins) = s.total_value
      /\ \A p \in DOMAIN s.programs : s.programs[p].deployed_at <= tip
      /\ \A p, q \in DOMAIN s.programs :
           /\ s.programs[p].owner = s.programs[q].owner
           /\ s.programs[p].nonce = s.programs[q].nonce
           => p = q
      /\ snap.headers[tip + 1].root = s

(* Restart from the snapshot.  Storage drops snapshots of replaced blocks,  *)
(* so the history it is restored against is a prefix of the chain.          *)
RestoreSnapshot ==
  /\ staged = Idle
  /\ snapshot # NoSnapshot
  /\ Len(snapshot.headers) <= Len(headers)
  /\ SubSeq(headers, 1, Len(snapshot.headers)) = snapshot.headers
  /\ RestoreAccepts(snapshot)
  /\ headers' = snapshot.headers
  /\ bodies' = {0, Len(snapshot.headers) - 1}
  /\ state' = DecodedState(snapshot.state)
  /\ journals' = snapshot.journals
  /\ trace' = snapshot.trace
  /\ UNCHANGED <<staged, snapshot>>

-----------------------------------------------------------------------------
Next ==
  \/ ApplyGenesis
  \/ \E miner \in Miner, ops \in BlockOps : BeginBlock(miner, ops)
  \/ ExecuteOp
  \/ CommitBlock
  \/ RejectBlock
  \/ BeginRollback
  \/ UndoJournal
  \/ FinishRollback
  \/ \E height \in 0 .. MaxHeight + 1 : PruneJournals(height)
  \/ \E keep \in SUBSET bodies : RetainRecentBodies(keep)
  \/ \E height \in 0 .. MaxHeight : CacheKnownBlock(height)
  \/ TakeSnapshot
  \/ RestoreSnapshot

Spec == Init /\ [][Next]_vars

-----------------------------------------------------------------------------
(* Properties. *)

StateOK(s) ==
  /\ DOMAIN s.by_owner = Owner
  /\ IsFiniteSet(DOMAIN s.coins) /\ s.coins \in [DOMAIN s.coins -> Coin]
  /\ s.total_value \in Zeno /\ s.mined \in Zeno /\ s.burned \in Zeno
  /\ DOMAIN s.programs \subseteq Owner
  /\ DOMAIN s.assets = AssetKey

(* Type invariant: states are well formed, resident bodies are bodies of    *)
(* known headers and include the genesis body.                              *)
TypeOK ==
  /\ StateOK(state)
  /\ staged # Idle => StateOK(staged.state)
  /\ bodies \subseteq 0 .. Tip
  /\ headers # << >> => 0 \in bodies
  /\ DOMAIN journals = DOMAIN trace

Balanced(s) ==
  /\ s.total_value = Value(s.coins)
  /\ s.mined - s.burned = s.total_value

(* The running coin total is the sum of the unspent coins and equals what   *)
(* has been mined less what has been burned: in the canonical state, and    *)
(* after the emission, after every operation and after every undone journal *)
(* of the staged copy.                                                      *)
SupplyBalanced ==
  /\ Balanced(state)
  /\ staged # Idle => Balanced(staged.state)

(* The owner lookup, which is neither encoded nor committed to by the root  *)
(* but chooses the coins a contract spends, lists exactly the coins of each *)
(* owner: through execution, rollback and restore.                          *)
OwnerIndexAgrees ==
  /\ state.by_owner = OwnersOf(state.coins)
  /\ staged # Idle => staged.state.by_owner = OwnersOf(staged.state.coins)

(* An operation that passes consensus validation on the staged state is     *)
(* never refused by application: no share collides, no total overflows and  *)
(* the supply check after it succeeds.                                      *)
ValidatedOpsApply ==
  Executing /\ MoreOps =>
    \A sel \in Selections(staged.state, NextOp) :
      ValidOp(staged.state, NextOp, staged.miner, sel) =>
        CanApply(staged.state, NextOp, staged.miner, Len(headers), sel)

(* The accounting check at the end of a block never refuses a block whose   *)
(* operations all applied: mined subsidy and collected burns explain the    *)
(* change of the coin total exactly.                                        *)
BlocksAccounted == Executing => BlockAccounted

(* A rollback that has begun is never refused: every journal applies, and   *)
(* at the end the supply check and the comparison with the parent's root    *)
(* succeed, so the parent's state is restored exactly.                      *)
RollbackNeverRefused ==
  Undoing =>
    IF staged.left > 0 THEN CanUndo(staged.state, journals[Tip][staged.left])
    ELSE RollbackChecks

(* The canonical state always has the root of the tip header. *)
StateMatchesTip == StateRoot(state) = RootAt(headers)

(* Journals are those of a suffix of the chain that ends at the tip, with   *)
(* one journal per emission and operation of every block in it.             *)
JournalsCoverSuffix ==
  /\ \A h \in DOMAIN journals :
       /\ h .. Tip \subseteq DOMAIN journals
       /\ Len(journals[h]) = JournalCount(headers[h + 1], h)
  /\ DOMAIN journals \subseteq 0 .. Tip

(* Every snapshot that is written passes all the checks of its restore. *)
SnapshotRestorable == snapshot # NoSnapshot => RestoreAccepts(snapshot)

(* No share is consumed by the payments of two operations of the canonical  *)
(* chain, whatever was rolled back or restored in between.                  *)
NoDoubleSpend ==
  \A i, j \in DOMAIN headers :
    \A k \in DOMAIN headers[i].ops, l \in DOMAIN headers[j].ops :
      <<i, k>> # <<j, l>> =>
        headers[i].ops[k].inputs \cap headers[j].ops[l].inputs = {}

=============================================================================
