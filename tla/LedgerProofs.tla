---------------------------- MODULE LedgerProofs ----------------------------
(***************************************************************************)
(* The inductive invariant IInv of Ledger holds, and with it the safety    *)
(* properties of the canonical ledger, for every set of owners, operations *)
(* and miners, every emission schedule and every bound.                    *)
(*                                                                         *)
(* So does OriginInv, which says where coins come from: no share is        *)
(* created twice, so no share is consumed twice and an operation that      *)
(* passes validation always applies.                                       *)
(***************************************************************************)
EXTENDS LedgerStateProofs, WellFoundedInduction

(* Dropping the staged copy preserves the invariant. *)
LEMMA RejectStep ==
  ASSUME IInv, RejectBlock
  PROVE  IInv'
BY Zenon DEF IInv, RejectBlock, Executing, Undoing, Idle, StateMatchesTip, Tip, HistoryOK, SnapshotOK

(* retain_recent_bodies preserves the invariant: genesis stays pinned. *)
LEMMA RetainStep ==
  ASSUME IInv, NEW keep \in SUBSET bodies, RetainRecentBodies(keep)
  PROVE  IInv'
BY Zenon DEF IInv, RetainRecentBodies, Executing, Undoing, Idle, StateMatchesTip, Tip,
       HistoryOK, SnapshotOK

(* cache_known_block preserves the invariant. *)
LEMMA CacheStep ==
  ASSUME IInv, NEW height, CacheKnownBlock(height)
  PROVE  IInv'
BY Zenon DEF IInv, CacheKnownBlock, Executing, Undoing, Idle, StateMatchesTip, Tip,
       HistoryOK, SnapshotOK

(* prune_rollback_journals_before preserves the invariant: what remains     *)
(* is still a suffix.                                                       *)
LEMMA PruneStep ==
  ASSUME IInv, NEW height \in Int, PruneJournals(height)
  PROVE  IInv'
<1> DEFINE first == IF headers # << >> /\ Tip < height THEN Tip ELSE height
           kept == {h \in DOMAIN journals : h >= first}
<1>1. HistoryOK(headers', journals', trace')
  <2>1. HistoryOK(headers, journals, trace)
    BY Zenon DEF IInv
  <2>2. first \in Int
    BY <2>1 DEF Tip, HistoryOK, IsSeq
  <2>3. /\ headers' = headers /\ journals' = Restrict(journals, kept)
        /\ trace' = Restrict(trace, kept)
    BY Zenon DEF PruneJournals
  <2> HIDE DEF first
  <2> QED
    BY <2>1, <2>2, <2>3, HistoryPruned, Zenon
<1> QED
  BY <1>1, Zenon DEF IInv, PruneJournals, Executing, Undoing, Idle, StateMatchesTip, Tip, SnapshotOK

(* Taking a snapshot preserves the invariant: it copies the history. *)
LEMMA TakeStep ==
  ASSUME IInv, TakeSnapshot
  PROVE  IInv'
<1> DEFINE snap == [headers |-> headers, state |-> StateRoot(state),
                    journals |-> journals, trace |-> trace]
<1>1. SnapshotOK'
  <2>1. snapshot' = snap /\ headers # << >> /\ Len(headers) - 1 \in DOMAIN journals
    BY Zenon DEF TakeSnapshot, Tip
  <2>2. HistoryOK(headers, journals, trace) /\ StateRoot(state) = RootAt(headers)
    BY Zenon DEF IInv, StateMatchesTip
  <2>3. /\ Good(DecodedState(StateRoot(state)))
        /\ StateRoot(DecodedState(StateRoot(state))) = StateRoot(state)
    BY Zenon DEF IInv, Good, Sound
  <2>4. /\ snapshot'.headers = headers /\ snapshot'.state = StateRoot(state)
        /\ snapshot'.journals = journals /\ snapshot'.trace = trace
    BY <2>1, Zenon
  <2> QED
    BY <2>1, <2>2, <2>3, <2>4, Zenon DEF SnapshotOK
<1> QED
  BY <1>1, ZenonT(40) DEF IInv, TakeSnapshot, Executing, Undoing, Idle, StateMatchesTip, Tip, HistoryOK

(* Restoring a snapshot preserves the invariant: decoding gives a good      *)
(* state with an exact owner lookup.                                        *)
LEMMA RestoreStep ==
  ASSUME IInv, RestoreSnapshot
  PROVE  IInv'
<1>1. SnapshotOK /\ SnapshotOK'
  BY Zenon DEF IInv, RestoreSnapshot, SnapshotOK
<1>2. /\ headers' = snapshot.headers /\ journals' = snapshot.journals
      /\ trace' = snapshot.trace /\ state' = DecodedState(snapshot.state)
      /\ staged' = Idle /\ bodies' = {0, Len(snapshot.headers) - 1}
  BY Zenon DEF RestoreSnapshot
<1>3. StateRoot(state') = snapshot.state
  BY <1>1, <1>2, Zenon DEF SnapshotOK
<1>4. Len(headers') \in Nat /\ headers' # << >> /\ Len(headers') # 0
  BY <1>1, <1>2, SMTT(30), SMTT(60) DEF SnapshotOK, HistoryOK, IsSeq
<1> QED
  BY <1>1, <1>2, <1>3, <1>4, SMTT(30), SMTT(60) DEF IInv, SnapshotOK, Executing, Undoing, Idle,
     StateMatchesTip, Tip

(* Genesis starts the history with an empty list of journals. *)
LEMMA GenesisStep ==
  ASSUME IInv, ApplyGenesis
  PROVE  IInv'
<1> DEFINE hd == [miner |-> Absent, ops |-> << >>, root |-> StateRoot(state)]
<1>1. /\ staged' = staged /\ staged = Idle /\ snapshot' = snapshot /\ state' = state
      /\ headers = << >> /\ headers' = <<hd>> /\ bodies' = {0}
      /\ journals' = [h \in {0} |-> << >>] /\ trace' = [h \in {0} |-> <<state>>]
  BY Zenon DEF ApplyGenesis
<1>2. /\ HistoryOK(headers, journals, trace) /\ Good(state)
      /\ StateRoot(state) = RootAt(headers)
  BY Zenon DEF IInv, StateMatchesTip
<1>3. Len(headers) = 0 /\ Append(headers, hd) = <<hd>>
  BY <1>1
<1>4. hd.root = StateRoot(state) /\ Len(hd.ops) = 0 /\ JournalCount(hd, 0) = 0
  BY DEF JournalCount
<1>5. DOMAIN journals = {}
  <2>1. DOMAIN journals \subseteq 0 .. Len(headers) - 1
    BY <1>2, Zenon DEF HistoryOK
  <2>2. 0 .. 0 - 1 = {}
    OBVIOUS
  <2> QED
    BY <1>3, <2>1, <2>2, Zenon
<1>6. /\ DOMAIN journals' = {0} /\ DOMAIN trace' = {0}
      /\ journals'[0] = << >> /\ trace'[0] = <<state>>
  BY <1>1, Zenon
<1>7. Undoable(<<state>>, << >>)
  BY <1>2, UndoableSingle, Zenon
<1>8. Len(<<state>>) = 1 /\ <<state>>[1] = state /\ Len(<< >>) = 0
  BY SeqSingle, SeqEmpty, Zenon
<1> HIDE DEF hd
<1>9. /\ HistoryOK(Append(headers, hd), journals', trace')
      /\ RootAt(Append(headers, hd)) = hd.root
  <2>1. /\ DOMAIN journals' = DOMAIN journals \cup {Len(headers)}
        /\ DOMAIN trace' = DOMAIN journals \cup {Len(headers)}
        /\ \A h \in DOMAIN journals : journals'[h] = journals[h] /\ trace'[h] = trace[h]
    BY <1>3, <1>5, <1>6, Zenon
  <2>2. /\ Len(journals'[Len(headers)]) = JournalCount(hd, Len(headers))
        /\ Undoable(trace'[Len(headers)], journals'[Len(headers)])
        /\ StateRoot(trace'[Len(headers)][1]) = RootAt(headers)
        /\ StateRoot(trace'[Len(headers)][Len(trace'[Len(headers)])]) = hd.root
    BY <1>2, <1>3, <1>4, <1>6, <1>7, <1>8, ZenonT(40)
  <2>3. Extends(headers, journals, trace, hd, journals', trace')
    BY <2>1, <2>2, Zenon DEF Extends
  <2> QED
    BY <1>2, <2>3, HistoryExtended, Zenon
<1>10. HistoryOK(headers', journals', trace') /\ RootAt(headers') = StateRoot(state')
  BY <1>1, <1>3, <1>4, <1>9, Zenon
<1>11. Len(headers') = 1
  BY <1>1, Zenon
<1> QED
  BY <1>1, <1>2, <1>10, <1>11, SMTT(30), SMTT(60) DEF IInv, StateMatchesTip, Tip, Executing, Undoing, Idle,
     SnapshotOK

(* Starting rollback_tip preserves the invariant. *)
LEMMA BeginRollbackStep ==
  ASSUME IInv, BeginRollback
  PROVE  IInv'
<1> DEFINE n == Len(journals[Tip])
<1>1. /\ headers' = headers /\ bodies' = bodies /\ state' = state /\ journals' = journals
      /\ snapshot' = snapshot /\ trace' = trace
      /\ staged' = [kind |-> "undo", state |-> state, left |-> n]
      /\ headers # << >> /\ Tip \in DOMAIN journals /\ StateRoot(state) = TipRoot
  BY Zenon DEF BeginRollback
<1>2. HistoryOK(headers, journals, trace) /\ Good(state)
  BY Zenon DEF IInv
<1>3. Len(headers) \in Nat /\ Tip + 1 = Len(headers)
  BY <1>2, SMTT(30) DEF Tip, HistoryOK, IsSeq
<1>4. /\ Undoable(trace[Tip], journals[Tip])
      /\ StateRoot(trace[Tip][Len(trace[Tip])]) = headers[Tip + 1].root
  BY <1>1, <1>2, ZenonT(40) DEF HistoryOK
<1>5. /\ n \in Nat /\ Len(trace[Tip]) = n + 1 /\ Good(trace[Tip][n + 1])
  BY <1>4, SMTT(30) DEF Undoable, IsSeq
<1>6. StateRoot(trace[Tip][n + 1]) = StateRoot(state)
  BY <1>1, <1>3, <1>4, <1>5, Zenon DEF TipRoot
<1>7. trace[Tip][n + 1] = state
  BY <1>2, <1>5, <1>6, Zenon DEF Good, Sound
<1>8. Tip' = Tip
  BY <1>1, Zenon DEF Tip
<1>9. RollbackOK'
  <2>1. staged'.left = n /\ staged'.state = state
    BY <1>1, Zenon
  <2> QED
    BY <1>1, <1>5, <1>7, <1>8, <2>1, SMTT(30), SMTT(60) DEF RollbackOK
<1>10. staged'.kind = "undo"
  BY <1>1, Zenon
<1> QED
  BY <1>1, <1>9, <1>10, ZenonT(40) DEF IInv, StateMatchesTip, Tip, Executing, Undoing, HistoryOK, SnapshotOK

(* Undoing one journal preserves the invariant: the copy is the state       *)
(* before the undone operation.                                             *)
LEMMA UndoStep ==
  ASSUME IInv, UndoJournal
  PROVE  IInv'
<1> DEFINE js == journals[Tip]
           left == staged.left
<1>1. /\ headers' = headers /\ bodies' = bodies /\ state' = state /\ journals' = journals
      /\ snapshot' = snapshot /\ trace' = trace
      /\ Undoing /\ left > 0
      /\ staged' = [staged EXCEPT !.state = Undo(staged.state, js[left]), !.left = left - 1]
  BY Zenon DEF UndoJournal
<1>2. RollbackOK /\ HistoryOK(headers, journals, trace)
  BY <1>1, Zenon DEF IInv
<1>3. /\ staged = [kind |-> "undo", state |-> staged.state, left |-> left]
      /\ Tip \in DOMAIN journals /\ left \in 0 .. Len(js)
      /\ staged.state = trace[Tip][left + 1]
  BY <1>2, Zenon DEF RollbackOK
<1>4. Undoable(trace[Tip], js)
  BY <1>2, <1>3, Zenon DEF HistoryOK
<1>5. Len(js) \in Nat
  BY <1>4 DEF Undoable, IsSeq
<1>6. Undoes(trace[Tip][left + 1], js[left], trace[Tip][left])
  BY <1>1, <1>3, <1>4, <1>5, SMTT(30), SMTT(60) DEF Undoable
<1>7. Undo(staged.state, js[left]) = trace[Tip][left]
  BY <1>3, <1>6, Zenon DEF Undoes
<1>8. staged' = [kind |-> "undo", state |-> trace[Tip][left], left |-> left - 1]
  <2>1. staged \in [kind : {"undo"}, state : {staged.state}, left : {left}]
    BY <1>3
  <2>2. staged' = [staged EXCEPT !.state = trace[Tip][left], !.left = left - 1]
    BY <1>1, <1>7, Zenon
  <2>3. staged' \in [kind : {"undo"}, state : {trace[Tip][left]}, left : {left - 1}]
    <3> HIDE DEF left
    <3> QED
      BY <2>1, <2>2, Zenon
  <2> QED
    BY <2>3, Zenon
<1>9. Tip' = Tip
  BY <1>1, Zenon DEF Tip
<1>10. RollbackOK'
  <2>1. staged'.left = left - 1 /\ staged'.state = trace[Tip][left]
    BY <1>8, Zenon
  <2>2. left - 1 \in 0 .. Len(js) /\ (left - 1) + 1 = left
    BY <1>1, <1>3, <1>5, SMTT(30)
  <2>3. staged' = [kind |-> "undo", state |-> staged'.state, left |-> staged'.left]
    BY <1>8, <2>1, Zenon
  <2> QED
    BY <1>1, <1>3, <1>9, <2>1, <2>2, <2>3, ZenonT(40) DEF RollbackOK
<1>11. staged'.kind = "undo"
  BY <1>8, Zenon
<1> QED
  BY <1>1, <1>10, <1>11, ZenonT(40) DEF IInv, StateMatchesTip, Tip, Executing, Undoing, HistoryOK, SnapshotOK

(* Committing a finished rollback preserves the invariant. *)
LEMMA FinishStep ==
  ASSUME IInv, FinishRollback
  PROVE  IInv'
<1>1. /\ Undoing /\ staged.left = 0 /\ staged' = Idle /\ snapshot' = snapshot
      /\ headers' = SubSeq(headers, 1, Tip) /\ bodies' = bodies \ {Tip}
      /\ state' = staged.state
      /\ journals' = Restrict(journals, DOMAIN journals \ {Tip})
      /\ trace' = Restrict(trace, DOMAIN trace \ {Tip})
  BY Zenon DEF FinishRollback
<1>2. /\ RollbackOK /\ HistoryOK(headers, journals, trace)
      /\ bodies \subseteq 0 .. Tip
      /\ headers # << >> => 0 \in bodies
  BY <1>1, Zenon DEF IInv
<1>3. /\ IsSeq(headers) /\ Tip \in DOMAIN journals /\ Tip \in 0 .. Len(headers) - 1
      /\ DOMAIN trace = DOMAIN journals /\ Len(headers) \in Nat
  BY <1>2 DEF RollbackOK, HistoryOK, Tip, IsSeq
<1>4. headers # << >> /\ Tip = Len(headers) - 1 /\ Tip \in 0 .. Len(headers)
  BY <1>3, SMTT(30) DEF Tip
<1>5. /\ Undoable(trace[Tip], journals[Tip])
      /\ StateRoot(trace[Tip][1]) = RootAt(SubSeq(headers, 1, Tip))
  BY <1>2, <1>3, Zenon DEF HistoryOK
<1>6. staged.state = trace[Tip][1]
  <2>1. 0 + 1 = 1
    OBVIOUS
  <2> QED
    BY <1>1, <1>2, <2>1, Zenon DEF RollbackOK
<1>7. Good(state') /\ StateRoot(state') = RootAt(headers')
  <2>1. 1 \in 1 .. Len(trace[Tip])
    BY <1>5, SMTT(30) DEF Undoable, IsSeq
  <2>2. Good(trace[Tip][1])
    BY <1>5, <2>1, Zenon DEF Undoable
  <2> QED
    BY <1>1, <1>5, <1>6, <2>2, ZenonT(40)
<1>8. HistoryOK(headers', journals', trace')
  <2> DEFINE kept == DOMAIN journals \ {Len(headers) - 1}
  <2>1. /\ headers' = SubSeq(headers, 1, Len(headers) - 1)
        /\ journals' = Restrict(journals, kept) /\ trace' = Restrict(trace, kept)
    BY <1>1, <1>3, <1>4, Zenon
  <2> HIDE DEF kept
  <2>2. HistoryOK(SubSeq(headers, 1, Len(headers) - 1), Restrict(journals, kept),
                  Restrict(trace, kept))
    BY <1>2, <1>4, HistoryDropped, ZenonT(40) DEF kept
  <2> QED
    BY <2>1, <2>2, Zenon
<1>9. Len(headers') = Tip
  <2>1. Len(SubSeq(headers, 1, Tip)) = Tip
    BY <1>3, <1>4, SeqFront, Zenon
  <2> QED
    BY <1>1, <2>1, Zenon
<1>10. bodies' \subseteq 0 .. Len(headers') - 1
  <2>1. Tip \in Nat
    BY <1>3
  <2>2. ASSUME NEW x \in bodies \ {Tip} PROVE x \in 0 .. Tip - 1
    BY <1>2, <2>1
  <2> QED
    BY <1>1, <1>9, <2>2, Zenon
<1>11. headers' # << >> => 0 \in bodies'
  <2>1. ASSUME headers' # << >> PROVE Tip # 0
    <3>1. IsSeq(headers')
      BY <1>8, Zenon DEF HistoryOK
    <3>2. Len(headers') # 0
      BY <2>1, <3>1, SMTT(30), SMTT(60) DEF IsSeq
    <3> QED
      BY <1>9, <3>2, Zenon
  <2> QED
    BY <1>1, <1>2, <1>4, <2>1, ZenonT(40)
<1> QED
  BY <1>1, <1>7, <1>8, <1>10, <1>11, ZenonT(40) DEF IInv, StateMatchesTip, Tip, Executing, Undoing,
     Idle, SnapshotOK

(* A block starts with its emission on a copy of the canonical state. *)
LEMMA BeginStep ==
  ASSUME IInv, NEW miner \in Miner, NEW ops \in BlockOps, BeginBlock(miner, ops)
  PROVE  IInv'
<1> DEFINE subsidy == ExpectedEmission(Len(headers), FeesOf(ops))
           coin == [owner |-> miner, amount |-> subsidy - MinerProtocolBurn]
           share == EmissionShare(ParentId(headers), miner, subsidy)
           new == EmissionCoins(share, coin)
           t == AfterEmission(state, new, subsidy)
           j == EmissionJournal(new, subsidy)
<1>1. /\ headers' = headers /\ bodies' = bodies /\ state' = state /\ journals' = journals
      /\ snapshot' = snapshot /\ trace' = trace
      /\ headers # << >> /\ subsidy \in Zeno /\ coin.amount \in Zeno
      /\ CanEmit(state, new, subsidy)
      /\ staged' = [kind |-> "execute", miner |-> miner, ops |-> ops,
                    subsidy |-> subsidy, burns |-> MinerProtocolBurn, state |-> t,
                    journals |-> <<j>>, before |-> <<state>>]
  BY Zenon DEF BeginBlock
<1>2. Good(state) /\ miner \in Owner
  BY LedgerAssumption, Zenon DEF IInv
<1> HIDE DEF subsidy, share
<1>3. /\ Good(t) /\ t.total_value = state.total_value + subsidy - MinerProtocolBurn
      /\ Undoes(t, j, state)
  BY <1>1, <1>2, EmissionGood, SMTT(30), SMTT(60)
<1> HIDE DEF t, j, new, coin
<1>4. Undoable(Append(<<state>>, t), <<j>>)
  <2>1. Undoable(<<state>>, << >>)
    BY <1>2, UndoableSingle, Zenon
  <2>2. <<state>>[Len(<<state>>)] = state
    BY SeqSingle, Zenon
  <2>3. Undoable(Append(<<state>>, t), Append(<< >>, j))
    BY <1>3, <2>1, <2>2, UndoableExtended, ZenonT(40)
  <2>4. Append(<< >>, j) = <<j>>
    OBVIOUS
  <2> QED
    BY <2>3, <2>4, Zenon
<1>5. /\ staged'.miner = miner /\ staged'.ops = ops /\ staged'.subsidy = subsidy
      /\ staged'.burns = MinerProtocolBurn /\ staged'.state = t
      /\ staged'.journals = <<j>> /\ staged'.before = <<state>>
      /\ staged'.kind = "execute"
  BY <1>1, Zenon
<1>6. ops \in Seq(Operation)
  BY LedgerAssumption, SMTT(30) DEF BlockOps
<1>7. ExecutionOK'
  <2>1. staged' = [kind |-> "execute", miner |-> staged'.miner, ops |-> staged'.ops,
                   subsidy |-> staged'.subsidy, burns |-> staged'.burns,
                   state |-> staged'.state, journals |-> staged'.journals,
                   before |-> staged'.before]
    BY <1>1, <1>5, Zenon
  <2>2. BlockAccounted'
    <3>1. state.total_value \in Zeno
      BY <1>2, Zenon DEF Good, Sound
    <3>2. Zeno \subseteq Nat
      BY EmissionAssumption DEF Zeno
    <3>3. state.total_value \in Nat
      BY <3>1, <3>2, ZenonT(40)
    <3>4. subsidy \in Nat
      BY <1>1, <3>2, Zenon
    <3>5. MinerProtocolBurn \in Nat
      BY EmissionAssumption, Zenon
    <3> QED
      BY <1>1, <1>3, <1>5, <3>3, <3>4, <3>5, ZenonT(40) DEF BlockAccounted
  <2>3. /\ IsSeq(<<j>>) /\ Len(<<j>>) = 1 /\ IsSeq(<<state>>) /\ Len(<<state>>) = 1
        /\ <<state>>[1] = state
    BY SeqSingle, Zenon
  <2>4. Len(ops) \in Nat /\ MinerProtocolBurn \in Nat
    BY <1>6, EmissionAssumption
  <2> QED
    BY <1>1, <1>2, <1>4, <1>5, <1>6, <2>1, <2>2, <2>3, <2>4, SMTT(30), SMTT(60) DEF ExecutionOK
<1> QED
  BY <1>1, <1>5, <1>7, ZenonT(40) DEF IInv, StateMatchesTip, Tip, Executing, Undoing, HistoryOK, SnapshotOK

(* A finished block commits its copy, its journals and its states. *)
LEMMA CommitStep ==
  ASSUME IInv, CommitBlock
  PROVE  IInv'
<1> DEFINE n == Len(headers)
           hd == [miner |-> staged.miner, ops |-> staged.ops,
                  root |-> StateRoot(staged.state)]
           states == Append(staged.before, staged.state)
<1>1. /\ Executing /\ ~MoreOps /\ staged' = Idle /\ snapshot' = snapshot
      /\ headers' = Append(headers, hd) /\ bodies' = bodies \cup {n}
      /\ state' = staged.state
      /\ journals' = [i \in DOMAIN journals \cup {n} |->
                        IF i = n THEN staged.journals ELSE journals[i]]
      /\ trace' = [i \in DOMAIN trace \cup {n} |->
                     IF i = n THEN states ELSE trace[i]]
  BY Zenon DEF CommitBlock
<1>2. /\ ExecutionOK /\ HistoryOK(headers, journals, trace)
      /\ bodies \subseteq 0 .. Tip
      /\ headers # << >> => 0 \in bodies
      /\ StateRoot(state) = RootAt(headers)
  BY <1>1, Zenon DEF IInv, StateMatchesTip
<1>3. /\ headers # << >> /\ IsSeq(headers) /\ n \in Nat /\ n # 0
      /\ DOMAIN trace = DOMAIN journals /\ DOMAIN journals \subseteq 0 .. n - 1
  BY <1>2, SMTT(30) DEF ExecutionOK, HistoryOK, IsSeq
<1>4. /\ IsSeq(staged.before) /\ Undoable(states, staged.journals)
      /\ Len(staged.before) = Len(staged.journals) /\ staged.before[1] = state
      /\ Len(staged.journals) \in 1 .. Len(staged.ops) + 1
      /\ staged.ops \in Seq(Operation)
  BY <1>2, ZenonT(40) DEF ExecutionOK
<1>5. Len(staged.ops) \in Nat /\ Len(staged.journals) = 1 + Len(staged.ops)
  BY <1>1, <1>4, SMTT(30), SMTT(60) DEF MoreOps
<1>6. /\ Len(states) = Len(staged.before) + 1 /\ states[1] = state
      /\ states[Len(staged.before) + 1] = staged.state
  <2>1. /\ Len(states) = Len(staged.before) + 1
        /\ \A i \in 1 .. Len(staged.before) : states[i] = staged.before[i]
        /\ states[Len(staged.before) + 1] = staged.state
    BY <1>4, SeqAppend, ZenonT(40)
  <2> QED
    BY <1>4, <1>5, <2>1, SMTT(30), SMTT(60)
<1>7. /\ hd.root = StateRoot(staged.state) /\ hd.ops = staged.ops
      /\ JournalCount(hd, n) = 1 + Len(staged.ops)
  BY <1>3, Zenon DEF JournalCount
<1> HIDE DEF states, hd
<1>8. /\ DOMAIN journals' = DOMAIN journals \cup {n} /\ DOMAIN trace' = DOMAIN journals \cup {n}
      /\ journals'[n] = staged.journals /\ trace'[n] = states
      /\ \A h \in DOMAIN journals : journals'[h] = journals[h] /\ trace'[h] = trace[h]
  BY <1>1, <1>3, SMTT(30)
<1>9. Extends(headers, journals, trace, hd, journals', trace')
  <2>1. /\ Len(journals'[n]) = JournalCount(hd, n) /\ Undoable(trace'[n], journals'[n])
        /\ StateRoot(trace'[n][1]) = RootAt(headers)
        /\ StateRoot(trace'[n][Len(trace'[n])]) = hd.root
    BY <1>2, <1>4, <1>5, <1>6, <1>7, <1>8, ZenonT(40)
  <2> QED
    BY <1>8, <2>1, ZenonT(40) DEF Extends
<1>10. HistoryOK(headers', journals', trace') /\ RootAt(headers') = hd.root
  BY <1>1, <1>2, <1>9, HistoryExtended, ZenonT(40)
<1>11. Good(state')
  <2>1. Len(staged.before) + 1 \in 1 .. Len(states)
    BY <1>4, <1>5, <1>6, SMTT(30), SMTT(60)
  <2> QED
    BY <1>1, <1>4, <1>6, <2>1, ZenonT(40) DEF Undoable
<1>12. Len(headers') = n + 1 /\ headers' # << >>
  BY <1>1, <1>3, SMTT(30), SMTT(60)
<1>13. /\ bodies' \subseteq 0 .. Len(headers') - 1
       /\ 0 \in bodies'
  BY <1>1, <1>2, <1>3, <1>12, SMTT(30), SMTT(60) DEF Tip
<1> QED
  BY <1>1, <1>7, <1>10, <1>11, <1>13, ZenonT(40) DEF IInv, StateMatchesTip, Tip, Executing, Undoing,
     Idle, SnapshotOK

(* One operation: its state, journal and burn join those of the block. *)
LEMMA ExecuteStep ==
  ASSUME IInv, ExecuteOp
  PROVE  IInv'
<1> DEFINE s == staged.state
           op == NextOp
<1>1. /\ headers' = headers /\ bodies' = bodies /\ state' = state /\ journals' = journals
      /\ snapshot' = snapshot /\ trace' = trace /\ Executing /\ MoreOps
  BY Zenon DEF ExecuteOp
<1>2. PICK sel :
        /\ Accepts(sel)
        /\ staged' = [staged EXCEPT
             !.burns = @ + PaymentBurn(s, op, staged.miner),
             !.state = Apply(s, op, staged.miner, Len(headers), sel),
             !.journals = Append(@, Journal(s, op, staged.miner, sel)),
             !.before = Append(@, s)]
  BY Zenon DEF ExecuteOp
<1> DEFINE t == Apply(s, op, staged.miner, Len(headers), sel)
           j == Journal(s, op, staged.miner, sel)
           burn == PaymentBurn(s, op, staged.miner)
           js == staged.journals
           before == staged.before
<1>3. ExecutionOK
  BY <1>1, Zenon DEF IInv
<1>4. /\ staged.miner \in Owner /\ staged.ops \in Seq(Operation)
      /\ staged.subsidy \in Zeno /\ staged.burns \in Nat /\ headers # << >>
      /\ IsSeq(before) /\ IsSeq(js) /\ Len(js) \in 1 .. Len(staged.ops) + 1
      /\ Len(before) = Len(js) /\ before[1] = state
      /\ Undoable(Append(before, s), js) /\ BlockAccounted
  BY <1>3, Zenon DEF ExecutionOK
<1>5. Len(staged.ops) \in Nat /\ Len(js) \in 1 .. Len(staged.ops)
  BY <1>1, <1>4, SMTT(30), SMTT(60) DEF MoreOps
<1>6. op \in Operation
  BY <1>4, <1>5, SMTT(30), SMTT(60) DEF NextOp
<1>7. /\ IsSeq(Append(before, s)) /\ Len(Append(before, s)) = Len(before) + 1
      /\ \A i \in 1 .. Len(before) : Append(before, s)[i] = before[i]
      /\ Append(before, s)[Len(before) + 1] = s
  BY <1>4, SeqAppend
<1>8. Good(s)
  <2>1. Len(before) + 1 \in 1 .. Len(Append(before, s))
    BY <1>4, <1>5, <1>7, SMTT(30), SMTT(60)
  <2> QED
    BY <1>4, <1>7, <2>1, ZenonT(40) DEF Undoable
<1>9. Applicable(s, op, staged.miner, sel)
  BY <1>2, <1>6, <1>8, ZenonT(40) DEF Applicable, Callable, Offered, Accepts, CanApply, Good
<1>10. Good(t) /\ burn \in Zeno /\ t.total_value = s.total_value - burn /\ Undoes(t, j, s)
  BY <1>8, <1>9, OperationGood, OperationUndone, SMTT(30), SMTT(60)
<1> HIDE DEF s, t, j, burn, js, before, op
<1>11. Undoable(Append(Append(before, s), t), Append(js, j))
  <2>1. Undoes(t, j, Append(before, s)[Len(Append(before, s))])
    BY <1>7, <1>10, Zenon
  <2> QED
    BY <1>4, <1>10, <2>1, UndoableExtended, ZenonT(40)
<1>12. staged' = [kind |-> "execute", miner |-> staged.miner, ops |-> staged.ops,
                  subsidy |-> staged.subsidy, burns |-> staged.burns + burn,
                  state |-> t, journals |-> Append(js, j), before |-> Append(before, s)]
  <2>1. staged \in [kind : {"execute"}, miner : {staged.miner}, ops : {staged.ops},
                    subsidy : {staged.subsidy}, burns : {staged.burns}, state : {s},
                    journals : {js}, before : {before}]
    BY <1>3 DEF ExecutionOK, s, js, before
  <2>2. staged' = [staged EXCEPT !.burns = staged.burns + burn, !.state = t,
                     !.journals = Append(js, j), !.before = Append(before, s)]
    BY <1>2, Zenon DEF s, t, j, burn, js, before, op
  <2>3. staged' \in [kind : {"execute"}, miner : {staged.miner}, ops : {staged.ops},
                     subsidy : {staged.subsidy}, burns : {staged.burns + burn}, state : {t},
                     journals : {Append(js, j)}, before : {Append(before, s)}]
    BY <2>1, <2>2, Zenon
  <2> QED
    BY <2>3, Zenon
<1>13. /\ staged'.miner = staged.miner /\ staged'.ops = staged.ops
       /\ staged'.subsidy = staged.subsidy /\ staged'.burns = staged.burns + burn
       /\ staged'.state = t /\ staged'.journals = Append(js, j)
       /\ staged'.before = Append(before, s) /\ staged'.kind = "execute"
  BY <1>12, Zenon
<1>14. ExecutionOK'
  <2>1. staged' = [kind |-> "execute", miner |-> staged'.miner, ops |-> staged'.ops,
                   subsidy |-> staged'.subsidy, burns |-> staged'.burns,
                   state |-> staged'.state, journals |-> staged'.journals,
                   before |-> staged'.before]
    BY <1>12, <1>13, Zenon
  <2>2. /\ state.total_value \in Nat /\ staged.subsidy \in Nat /\ s.total_value \in Nat
        /\ burn \in Nat
    <3>1. Good(state)
      BY Zenon DEF IInv
    <3>2. \A x : Good(x) => x.total_value \in Zeno
      BY Zenon DEF Good, Sound
    <3>3. \A x \in Zeno : x \in Nat
      BY EmissionAssumption DEF Zeno
    <3> QED
      BY <1>4, <1>8, <1>10, <3>1, <3>2, <3>3, ZenonT(40)
  <2>3. BlockAccounted'
    <3>1. /\ staged.burns \in Nat /\ t.total_value = s.total_value - burn
          /\ state.total_value + staged.subsidy - staged.burns = s.total_value
      BY <1>4, <1>10, ZenonT(40) DEF BlockAccounted, s
    <3>2. state.total_value + staged.subsidy - (staged.burns + burn) = t.total_value
      BY <2>2, <3>1, SMT, SMTT(30)
    <3> QED
      BY <1>1, <1>13, <3>2, ZenonT(40) DEF BlockAccounted
  <2>4. /\ IsSeq(Append(js, j)) /\ Len(Append(js, j)) = Len(js) + 1
    BY <1>4, SeqAppend, Zenon
  <2>5. Append(before, s)[1] = state
    BY <1>4, <1>5, <1>7, SMTT(30), SMTT(60)
  <2>6. /\ Len(Append(js, j)) \in 1 .. Len(staged.ops) + 1
        /\ Len(Append(before, s)) = Len(Append(js, j))
        /\ staged.burns + burn \in Nat
    BY <1>4, <1>5, <1>7, <2>2, <2>4, SMTT(30), SMTT(60)
  <2> QED
    BY <1>1, <1>4, <1>7, <1>11, <1>13, <2>1, <2>3, <2>4, <2>5, <2>6, ZenonT(40) DEF ExecutionOK
<1> QED
  BY <1>1, <1>13, <1>14, ZenonT(40) DEF IInv, StateMatchesTip, Tip, Executing, Undoing, HistoryOK, SnapshotOK

-----------------------------------------------------------------------------
(* The empty ledger satisfies the invariant. *)
LEMMA InitialState == Init => IInv
<1> SUFFICES ASSUME Init PROVE IInv
  BY Zenon
<1>1. /\ headers = << >> /\ bodies = {} /\ state = EmptyState /\ journals = EmptyMap
      /\ staged = Idle /\ snapshot = NoSnapshot /\ trace = EmptyMap
  BY Zenon DEF Init
<1>2. DOMAIN EmptyMap = {} /\ Value(EmptyMap) = 0 /\ CoinMap(EmptyMap)
  BY EmptyRestrict, Zenon
<1>3. /\ state.coins = EmptyMap /\ state.total_value = 0 /\ state.mined = 0
      /\ state.burned = 0 /\ state.programs = EmptyMap
      /\ state.by_owner = [o \in Owner |-> {}]
      /\ state.assets = [k \in AssetKey |-> Absent]
  BY <1>1, Zenon DEF EmptyState
<1>4. OwnersOf(EmptyMap) = [o \in Owner |-> {}]
  BY <1>2, Zenon DEF OwnersOf
<1>5. state = DecodedState(StateRoot(state))
  BY <1>1, <1>3, <1>4, ZenonT(40) DEF DecodedState, StateRoot, EmptyState
<1>6. ProgramsOK(EmptyMap)
  BY <1>2, Zenon DEF ProgramsOK, Restrict, EmptyMap
<1>7. state.assets = Restrict(state.assets, AssetKey)
  BY <1>3, Zenon DEF Restrict
<1>8. 0 \in Zeno
  BY EmissionAssumption, SMTT(30), SMTT(60) DEF Zeno
<1>9. Good(state)
  BY <1>2, <1>3, <1>5, <1>6, <1>7, <1>8, SMTT(30), SMTT(60) DEF Good, Sound, CoinMap
<1>10. HistoryOK(headers, journals, trace)
  BY <1>1, <1>2, SeqEmpty, ZenonT(40) DEF HistoryOK
<1>11. StateMatchesTip
  BY <1>1, Zenon DEF StateMatchesTip, RootAt
<1> QED
  BY <1>1, <1>9, <1>10, <1>11, ZenonT(40) DEF IInv, Executing, Undoing, Idle

(* Every step of the ledger preserves the invariant. *)
LEMMA NextStep == IInv /\ [Next]_vars => IInv'
<1> SUFFICES ASSUME IInv, [Next]_vars PROVE IInv'
  BY Zenon
<1>1. CASE ApplyGenesis
  BY <1>1, GenesisStep, Zenon
<1>2. CASE \E miner \in Miner, ops \in BlockOps : BeginBlock(miner, ops)
  BY <1>2, BeginStep, ZenonT(40)
<1>3. CASE ExecuteOp
  BY <1>3, ExecuteStep, Zenon
<1>4. CASE CommitBlock
  BY <1>4, CommitStep, Zenon
<1>5. CASE RejectBlock
  BY <1>5, RejectStep, Zenon
<1>6. CASE BeginRollback
  BY <1>6, BeginRollbackStep, Zenon
<1>7. CASE UndoJournal
  BY <1>7, UndoStep, Zenon
<1>8. CASE FinishRollback
  BY <1>8, FinishStep, Zenon
<1>9. CASE \E height \in 0 .. MaxHeight + 1 : PruneJournals(height)
  BY <1>9, PruneStep, LedgerAssumption, SMTT(30), SMTT(60)
<1>10. CASE \E keep \in SUBSET bodies : RetainRecentBodies(keep)
  BY <1>10, RetainStep, Zenon
<1>11. CASE \E height \in 0 .. MaxHeight : CacheKnownBlock(height)
  BY <1>11, CacheStep, ZenonT(40)
<1>12. CASE TakeSnapshot
  BY <1>12, TakeStep, Zenon
<1>13. CASE RestoreSnapshot
  BY <1>13, RestoreStep, Zenon
<1>14. CASE UNCHANGED vars
  BY <1>14, SMTT(30), SMTT(60) DEF vars, IInv, StateMatchesTip, Tip, Executing, Undoing, HistoryOK, SnapshotOK,
     ExecutionOK, RollbackOK, BlockAccounted
<1> QED
  BY <1>1, <1>2, <1>3, <1>4, <1>5, <1>6, <1>7, <1>8, <1>9, <1>10, <1>11, <1>12, <1>13,
     <1>14, ZenonT(40) DEF Next

(* The inductive invariant holds in every reachable state of the ledger. *)
THEOREM Invariance == Spec => []IInv
BY InitialState, NextStep, PTL DEF Spec

(* Every good state satisfies what the type invariant asks of a state. *)
LEMMA GoodStateOK ==
  ASSUME NEW s, Good(s)
  PROVE  StateOK(s) /\ Balanced(s) /\ s.by_owner = OwnersOf(s.coins)
<1>1. s.by_owner = OwnersOf(s.coins)
  BY SoundRecord DEF Good, StateRecord
<1>2. DOMAIN s.by_owner = Owner
  BY <1>1, Zenon DEF OwnersOf
<1>3. DOMAIN s.assets = AssetKey
  BY Zenon DEF Good, Sound, Restrict
<1> QED
  BY <1>1, <1>2, <1>3, ZenonT(40) DEF Good, Sound, StateOK, Balanced, ProgramsOK

(* While something is staged, its copy of the state is good. *)
LEMMA StagedGood == IInv /\ staged # Idle => Good(staged.state)
<1> SUFFICES ASSUME IInv, staged # Idle PROVE Good(staged.state)
  BY Zenon
<1>1. CASE Executing
  <2>1. /\ IsSeq(staged.before) /\ Undoable(Append(staged.before, staged.state), staged.journals)
    BY <1>1, ZenonT(40) DEF IInv, ExecutionOK
  <2> DEFINE states == Append(staged.before, staged.state)
             n == Len(staged.before) + 1
  <2>2. Len(states) = n /\ states[n] = staged.state /\ n \in 1 .. Len(states)
    BY <2>1, SeqAppend
  <2> QED
    BY <2>1, <2>2, ZenonT(40) DEF Undoable
<1>2. CASE Undoing
  <2>1. /\ Tip \in DOMAIN journals /\ staged.left \in 0 .. Len(journals[Tip])
        /\ staged.state = trace[Tip][staged.left + 1]
    BY <1>2, Zenon DEF IInv, RollbackOK
  <2>2. Undoable(trace[Tip], journals[Tip])
    BY <2>1, ZenonT(40) DEF IInv, HistoryOK
  <2>3. staged.left + 1 \in 1 .. Len(trace[Tip])
    BY <2>1, <2>2 DEF Undoable, IsSeq
  <2> QED
    BY <2>1, <2>2, <2>3, ZenonT(40) DEF Undoable
<1> QED
  BY <1>1, <1>2, Zenon DEF IInv

(* Coins have positive amounts, so only an empty set of coins is worth 0. *)
LEMMA NoCoinsNoValue ==
  ASSUME NEW c, CoinMap(c)
  PROVE  (DOMAIN c = {}) <=> (Value(c) = 0)
<1>1. ASSUME NEW id \in DOMAIN c PROVE Units(c) # {}
  <2>1. c[id].amount \in Nat /\ c[id].amount # 0
    BY EmissionAssumption, SMTT(30) DEF CoinMap, Coin, Zeno
  <2>2. <<id, 1>> \in {id} \X (1 .. c[id].amount)
    BY <2>1
  <2> QED
    BY <2>2, Zenon DEF Units
<1>2. IsFiniteSet(Units(c))
  BY UnitsFinite, Zenon
<1>3. Value(c) = 0 => Units(c) = {}
  BY <1>2, FS_EmptySet, Zenon DEF Value
<1> QED
  BY <1>1, <1>3, EmptyValue, Zenon

(* A good state passes validate_supply_invariants. *)
LEMMA GoodSupplyValid ==
  ASSUME NEW s, Good(s)
  PROVE  SupplyValid(s)
<1>1. CoinMap(s.coins) /\ s.total_value = Value(s.coins) /\ s.mined - s.burned = s.total_value
  BY Zenon DEF Good, Sound, CoinMap
<1> QED
  BY <1>1, NoCoinsNoValue, Zenon DEF SupplyValid

(* Type correctness of the canonical ledger: the canonical state and the    *)
(* staged copy stay well formed, and resident bodies belong to known        *)
(* headers, genesis included.                                               *)
THEOREM TypeCorrect == Spec => []TypeOK
<1>1. IInv => TypeOK
  BY GoodStateOK, StagedGood, ZenonT(40) DEF IInv, TypeOK, HistoryOK
<1> QED
  BY <1>1, Invariance, PTL

(* The coin total equals the sum of the unspent coins and mined less burned *)
(* in every state the ledger goes through, including those inside a block   *)
(* and inside a rollback (accounting.rs).                                   *)
THEOREM SupplyIsBalanced == Spec => []SupplyBalanced
<1>1. IInv => SupplyBalanced
  BY GoodStateOK, StagedGood, ZenonT(40) DEF IInv, SupplyBalanced
<1> QED
  BY <1>1, Invariance, PTL

(* The owner lookup of the coin set, which no root commits to, is exact     *)
(* (utxo/coin.rs).                                                          *)
THEOREM OwnerIndexIsExact == Spec => []OwnerIndexAgrees
<1>1. IInv => OwnerIndexAgrees
  BY GoodStateOK, StagedGood, ZenonT(40) DEF IInv, OwnerIndexAgrees
<1> QED
  BY <1>1, Invariance, PTL

(* The block accounting check of execute_block never refuses a block whose  *)
(* operations were all applied.                                             *)
THEOREM BlocksAreAccounted == Spec => []BlocksAccounted
<1>1. IInv => BlocksAccounted
  BY ZenonT(40) DEF IInv, BlocksAccounted, ExecutionOK
<1> QED
  BY <1>1, Invariance, PTL

(* rollback_tip, once it has started, always succeeds and restores exactly  *)
(* the state committed to by the parent's root.                             *)
THEOREM RollbackSucceeds == Spec => []RollbackNeverRefused
<1>1. IInv => RollbackNeverRefused
  <2> SUFFICES ASSUME IInv, Undoing PROVE RollbackNeverRefused
    BY Zenon DEF RollbackNeverRefused
  <2>1. /\ Tip \in DOMAIN journals /\ staged.left \in 0 .. Len(journals[Tip])
        /\ staged.state = trace[Tip][staged.left + 1]
    BY Zenon DEF IInv, RollbackOK
  <2>2. /\ Undoable(trace[Tip], journals[Tip])
        /\ StateRoot(trace[Tip][1]) = RootAt(SubSeq(headers, 1, Tip))
    BY <2>1, ZenonT(40) DEF IInv, HistoryOK
  <2>3. Len(journals[Tip]) \in Nat
    BY <2>2 DEF Undoable, IsSeq
  <2>4. CASE staged.left > 0
    <3>1. Undoes(staged.state, journals[Tip][staged.left], trace[Tip][staged.left])
      BY <2>1, <2>2, <2>3, <2>4, SMTT(30), SMTT(60) DEF Undoable
    <3> QED
      BY <2>4, <3>1, ZenonT(40) DEF RollbackNeverRefused, Undoes
  <2>5. CASE ~(staged.left > 0)
    <3>1. staged.left = 0 /\ staged.state = trace[Tip][1]
      BY <2>1, <2>3, <2>5, SMTT(30), SMTT(60)
    <3>2. staged # Idle
      BY DEF Undoing, Idle
    <3>3. SupplyValid(staged.state)
      BY <3>2, StagedGood, GoodSupplyValid, ZenonT(40)
    <3> QED
      BY <2>2, <2>5, <3>1, <3>3, ZenonT(40) DEF RollbackNeverRefused, RollbackChecks
  <2> QED
    BY <2>4, <2>5, Zenon
<1> QED
  BY <1>1, Invariance, PTL

(* The canonical state always has the root of the canonical tip.            *)
THEOREM StateHasTipRoot == Spec => []StateMatchesTip
<1>1. IInv => StateMatchesTip
  BY ZenonT(40) DEF IInv
<1> QED
  BY <1>1, Invariance, PTL

(* Rollback journals always cover a suffix of the chain, completely, after  *)
(* any commits, rollbacks, prunings and restores.                           *)
THEOREM JournalsAreASuffix == Spec => []JournalsCoverSuffix
<1>1. IInv => JournalsCoverSuffix
  BY Zenon DEF IInv, HistoryOK, JournalsCoverSuffix, Tip
<1> QED
  BY <1>1, Invariance, PTL

-----------------------------------------------------------------------------
(* The coins of a payment to an account that mines are proper coins. *)
LEMMA PaymentOfCoins ==
  ASSUME NEW op \in Operation, NEW miner \in Owner
  PROVE  /\ CoinMap(PaymentCoins(op, miner))
         /\ DOMAIN PaymentCoins(op, miner) \subseteq SharesOf(op)
<1> DEFINE n == Len(op.outputs)
           p == PaymentCoins(op, miner)
<1>1. /\ n \in Nat /\ op.outputs \in Seq(Coin) /\ op.fee \in Zeno
  <2>1. op.outputs \in Seq(Coin) /\ op.fee \in Zeno
    BY OperationAssumption, Zenon DEF Coin
  <2> QED
    BY <2>1
<1>2. ASSUME NEW id \in DOMAIN p
      PROVE  p[id] \in Coin /\ id \in SharesOf(op)
  <2>1. PICK i \in 0 .. n : id = OutputShare(op, i) /\ (op.fee = 0 => i # n)
    BY <1>1 DEF PaymentCoins
  <2>2. id[2] = i
    BY <2>1, Zenon DEF OutputShare
  <2>3. id \in SharesOf(op)
    BY <2>1, Zenon DEF SharesOf
  <2>4. CASE i = n
    <3>1. p[id] = [owner |-> miner, amount |-> op.fee]
      BY <2>2, <2>4, Zenon DEF PaymentCoins
    <3> QED
      BY <1>1, <2>1, <2>3, <2>4, <3>1, SMTT(30), SMTT(60) DEF Coin
  <2>5. CASE i # n
    <3>1. p[id] = op.outputs[i + 1]
      BY <2>2, <2>5, Zenon DEF PaymentCoins
    <3>2. i + 1 \in 1 .. n
      BY <1>1, <2>5, SMTT(30), SMTT(60)
    <3>3. op.outputs[i + 1] \in Coin
      BY <1>1, <3>2, SMTT(30)
    <3> QED
      BY <2>3, <3>1, <3>3, Zenon
  <2> QED
    BY <2>4, <2>5, Zenon
<1> QED
  BY <1>2, PaymentCoinMap, Zenon

(* A VM transfer creates shares of its operation. *)
LEMMA VmShares ==
  ASSUME NEW s, NEW op, NEW sel
  PROVE  DOMAIN VmCoins(s, op, sel) \subseteq SharesOf(op)
BY Zenon DEF VmCoins, SharesOf

(* The two coin replacements of a fresh operation do not interfere. *)
LEMMA FreshTwoPhase ==
  ASSUME NEW s, NEW op, NEW miner \in Owner, NEW sel, Offered(s, op, miner, sel),
         SharesOf(op) \cap DOMAIN s.coins = {}
  PROVE  TwoPhase(s.coins, sel, VmCoins(s, op, sel), op.inputs, PaymentCoins(op, miner))
<1> DEFINE v == VmCoins(s, op, sel)
           p == PaymentCoins(op, miner)
<1>1. CoinMap(s.coins) /\ op \in Operation
  BY Zenon DEF Offered, Sound, CoinMap
<1>2. CoinMap(v) /\ CoinMap(p)
  BY <1>1, VmValue, PaymentOfCoins, Zenon
<1>3. DOMAIN v \cap DOMAIN s.coins = {} /\ DOMAIN p \cap DOMAIN s.coins = {}
  BY <1>1, VmShares, PaymentOfCoins, Zenon
<1>4. DOMAIN p \cap DOMAIN v = {}
  BY SharesDisjoint, Zenon
<1>5. /\ sel \subseteq DOMAIN s.coins /\ op.inputs \subseteq DOMAIN s.coins
      /\ sel \cap op.inputs = {}
  BY SelectionFacts, Zenon
<1> HIDE DEF v, p
<1> QED
  BY <1>1, <1>2, <1>3, <1>4, <1>5, ZenonT(40) DEF TwoPhase, v, p

(* The totals of a fresh operation: what the program spends it pays out,    *)
(* and the payment takes its burn from coins that exist.                    *)
LEMMA FreshTotals ==
  ASSUME NEW s, NEW op, NEW miner \in Owner, NEW sel, Good(s),
         Offered(s, op, miner, sel), SharesOf(op) \cap DOMAIN s.coins = {}
  PROVE  /\ ValueOf(s, sel) \in Zeno
         /\ s.total_value - ValueOf(s, sel) \in Zeno
         /\ ValueOf(s, op.inputs) \in Zeno /\ Value(PaymentCoins(op, miner)) \in Zeno
         /\ s.total_value - ValueOf(s, op.inputs) \in Zeno
         /\ s.total_value - ValueOf(s, op.inputs) + Value(PaymentCoins(op, miner)) \in Zeno
         /\ s.total_value \in Zeno
         /\ s.burned + PaymentBurn(s, op, miner) \in Zeno
<1> DEFINE paid == Value(PaymentCoins(op, miner))
           spent == ValueOf(s, sel)
           in == ValueOf(s, op.inputs)
           total == s.total_value
<1>1. /\ CoinMap(s.coins) /\ total = Value(s.coins) /\ total \in Zeno
      /\ s.mined \in Zeno /\ s.burned \in Zeno /\ s.mined - s.burned = total
  BY ZenonT(40) DEF Good, Sound, CoinMap
<1>2. /\ spent \in Nat /\ spent <= total /\ in \in Nat /\ in <= total
  BY <1>1, SelectionFacts, PartValue, SMTT(30), SMTT(60) DEF ValueOf
<1>3. /\ paid \in Zeno /\ in - paid \in Zeno /\ PaymentBurn(s, op, miner) = in - paid
  BY Zenon DEF Offered, ValidOp, PaymentBurn
<1> HIDE DEF paid, spent, in, total
<1>4. /\ spent \in Zeno /\ total - spent \in Zeno /\ in \in Zeno
      /\ total - in \in Zeno /\ total - in + paid \in Zeno
  BY <1>1, <1>2, <1>3, EmissionAssumption, SMTT(30), SMTT(60) DEF Zeno
<1>5. s.burned + (in - paid) \in Zeno
  BY <1>1, <1>2, <1>3, EmissionAssumption, SMTT(30), SMTT(60) DEF Zeno
<1> QED
  BY <1>1, <1>3, <1>4, <1>5, ZenonT(40) DEF paid, spent, in, total

(* An operation that passes validation and whose shares do not exist yet    *)
(* is accepted by application, the supply check included.                   *)
LEMMA FreshApplies ==
  ASSUME NEW s, NEW op, NEW miner \in Owner, NEW height, NEW sel, Good(s),
         Offered(s, op, miner, sel), SharesOf(op) \cap DOMAIN s.coins = {}
  PROVE  CanApply(s, op, miner, height, sel)
<1> DEFINE v == VmCoins(s, op, sel)
           p == PaymentCoins(op, miner)
           called == AfterCall(s, op, sel)
<1>1. TwoPhase(s.coins, sel, v, op.inputs, p)
  BY FreshTwoPhase, Zenon
<1>2. CoinMap(v) /\ Value(v) = ValueOf(s, sel)
  BY VmValue, ZenonT(40)
<1>3. /\ ValueOf(s, sel) \in Zeno /\ s.total_value - ValueOf(s, sel) \in Zeno
      /\ ValueOf(s, op.inputs) \in Zeno /\ Value(p) \in Zeno
      /\ s.total_value - ValueOf(s, op.inputs) \in Zeno
      /\ s.total_value - ValueOf(s, op.inputs) + Value(p) \in Zeno
      /\ s.total_value \in Zeno /\ s.burned + PaymentBurn(s, op, miner) \in Zeno
  BY FreshTotals, ZenonT(40)
<1>4. CanReplace(s, sel, v)
  <2>1. s.total_value - ValueOf(s, sel) + Value(v) \in Zeno
    <3>1. s.total_value \in Nat /\ ValueOf(s, sel) \in Nat
      BY <1>3, EmissionAssumption, SMTT(30), SMTT(60) DEF Zeno
    <3>2. s.total_value - ValueOf(s, sel) + Value(v) = s.total_value
      BY <1>2, <3>1, SMTT(30)
    <3> QED
      BY <1>3, <3>2, ZenonT(40)
  <2> HIDE DEF v
  <2> QED
    BY <1>1, <1>2, <1>3, <2>1, ZenonT(40) DEF CanReplace, TwoPhase, CoinMap
<1>5. Callable(s, op, miner, sel)
  BY <1>4, Zenon DEF Callable
<1>6. IsCalled(s, op, sel, called)
  BY <1>5, CalledState, Zenon
<1>7. /\ called.coins = After1(s.coins, sel, v) /\ called.burned = s.burned
      /\ called.total_value = Value(called.coins)
  BY <1>6, ZenonT(40) DEF IsCalled, Sound
<1> HIDE DEF v, p, called
<1>8. Restrict(called.coins, op.inputs) = Restrict(s.coins, op.inputs)
  BY <1>1, <1>7, TwoPhaseRestricts, SMTT(30), SMTT(60)
<1>9. called.total_value = s.total_value
  <2>1. Replaceable(s.coins, sel, v)
    BY <1>1, TwoPhaseReplaceable, ZenonT(40)
  <2>2. Value(called.coins) = Value(s.coins) - ValueOf(s, sel) + Value(v)
    BY <1>7, <2>1, ReplaceValue, SMTT(30), SMTT(60) DEF After1, ValueOf
  <2>3. s.total_value = Value(s.coins)
    BY Zenon DEF Good, Sound
  <2>4. s.total_value \in Nat /\ ValueOf(s, sel) \in Nat
    BY <1>3, EmissionAssumption, SMTT(30), SMTT(60) DEF Zeno
  <2> QED
    BY <1>2, <1>7, <2>2, <2>3, <2>4, SMTT(30), SMTT(60)
<1>10. ValueOf(called, op.inputs) = ValueOf(s, op.inputs)
  BY <1>8, Zenon DEF ValueOf
<1>11. CanReplace(called, op.inputs, p)
  <2>1. DOMAIN called.coins = (DOMAIN s.coins \ sel) \cup DOMAIN v
    BY <1>7, Zenon DEF After1, ReplaceCoins
  <2>2. /\ op.inputs \subseteq DOMAIN called.coins
        /\ DOMAIN p \cap (DOMAIN called.coins \ op.inputs) = {}
    BY <1>1, <2>1, Zenon DEF TwoPhase
  <2>3. CoinMap(p)
    BY <1>1, Zenon DEF TwoPhase
  <2> QED
    BY <1>3, <1>9, <1>10, <2>2, <2>3, ZenonT(40) DEF CanReplace, CoinMap
<1>12. PaymentBurn(called, op, miner) = PaymentBurn(s, op, miner)
  BY <1>10, Zenon DEF PaymentBurn
<1>13. PaymentBurn(s, op, miner) \in Zeno
  BY Zenon DEF Offered, ValidOp
<1>14. Applicable(s, op, miner, sel)
  BY <1>3, <1>5, <1>7, <1>11, <1>12, ZenonT(40) DEF Applicable, called, p
<1>15. SupplyValid(Apply(s, op, miner, height, sel))
  BY <1>14, OperationGood, GoodSupplyValid, ZenonT(40)
<1> QED
  BY <1>3, <1>4, <1>7, <1>11, <1>12, <1>13, <1>15, ZenonT(40) DEF CanApply, called, v, p

-----------------------------------------------------------------------------
(* A share names the operation that creates it, and is not an emission's. *)
LEMMA SharesId ==
  ASSUME NEW op, NEW x \in SharesOf(op)
  PROVE  x[1] = op.id /\ Len(x) # 4
<1>1. CASE \E i \in 0 .. Len(op.outputs) : x = OutputShare(op, i)
  BY <1>1 DEF OutputShare
<1>2. CASE x \in {VmShare(op, 0), VmShare(op, 1)}
  BY <1>2 DEF VmShare
<1> QED
  BY <1>1, <1>2, ZenonT(40) DEF SharesOf

(* An operation whose inputs are unspent is not on the line yet, so none of *)
(* its shares was ever created.                                             *)
LEMMA FreshShares ==
  ASSUME NEW line, NEW n, NEW unspent, Lineage(line, n, unspent),
         NEW op \in Operation, op.inputs \subseteq unspent, NEW x \in SharesOf(op)
  PROVE  ~Minted(line, n, x)
<1>1. ASSUME NEW p \in DOMAIN line, x \in SharesOf(line[p]) PROVE FALSE
  <2>1. line[p] \in Operation /\ line[p].id = op.id
    BY <1>1, SharesId, Zenon DEF Lineage
  <2>2. line[p] = op
    BY <2>1, OperationAssumption, Zenon
  <2>3. PICK y : y \in op.inputs
    BY OperationAssumption, Zenon
  <2> QED
    BY <2>2, <2>3, Zenon DEF Lineage
<1>2. Len(x) # 4
  BY SharesId, Zenon
<1> QED
  BY <1>1, <1>2, Zenon DEF Minted

(* A longer line has created at least the shares of the shorter one. *)
LEMMA MintedStays ==
  ASSUME NEW line, NEW n, NEW p, NEW op, NEW x, p \notin DOMAIN line,
         Minted(line, n, x) \/ x \in SharesOf(op)
  PROVE  Minted(Longer(line, p, op), n, x)
<1>1. /\ DOMAIN Longer(line, p, op) = DOMAIN line \cup {p}
      /\ Longer(line, p, op)[p] = op
      /\ \A q \in DOMAIN line : Longer(line, p, op)[q] = line[q]
  BY Zenon DEF Longer
<1> QED
  BY <1>1, Zenon DEF Minted

(* Applying an operation extends the line: the shares it creates were never *)
(* created before, so none of them is an input of the line.                 *)
LEMMA LineageGrows ==
  ASSUME NEW line, NEW n, NEW unspent, Lineage(line, n, unspent),
         NEW op \in Operation, op.inputs \subseteq unspent,
         NEW p, p \notin DOMAIN line,
         NEW after, after \subseteq (unspent \ op.inputs) \cup SharesOf(op)
  PROVE  Lineage(Longer(line, p, op), n, after)
<1> DEFINE longer == Longer(line, p, op)
<1>1. /\ DOMAIN longer = DOMAIN line \cup {p} /\ longer[p] = op
      /\ \A q \in DOMAIN line : longer[q] = line[q]
  BY Zenon DEF Longer
<1>2. \A x : Minted(line, n, x) \/ x \in SharesOf(op) => Minted(longer, n, x)
  BY MintedStays, Zenon
<1>3. \A x \in SharesOf(op) : ~Minted(line, n, x)
  BY FreshShares, Zenon
<1> HIDE DEF longer
<1>4. \A q \in DOMAIN longer : longer[q] \in Operation
  BY <1>1, Zenon DEF Lineage
<1>5. \A x \in after : Minted(longer, n, x)
  BY <1>2, Zenon DEF Lineage
<1>6. ASSUME NEW q \in DOMAIN longer, NEW x \in longer[q].inputs
      PROVE  x \notin after /\ Minted(longer, n, x)
  <2>1. Minted(line, n, x)
    BY <1>1, <1>6, Zenon DEF Lineage
  <2>2. x \notin SharesOf(op)
    BY <1>3, <2>1, Zenon
  <2>3. x \notin unspent \ op.inputs
    BY <1>1, <1>6, Zenon DEF Lineage
  <2> QED
    BY <1>2, <2>1, <2>2, <2>3, ZenonT(40)
<1>7. ASSUME NEW q \in DOMAIN longer, NEW r \in DOMAIN longer, q # r
      PROVE  longer[q].inputs \cap longer[r].inputs = {}
  <2>1. ASSUME NEW k \in DOMAIN line PROVE line[k].inputs \cap op.inputs = {}
    BY Zenon DEF Lineage
  <2>2. CASE q \in DOMAIN line /\ r \in DOMAIN line
    BY <1>1, <1>7, <2>2, Zenon DEF Lineage
  <2>3. CASE q = p \/ r = p
    BY <1>1, <1>7, <2>1, <2>3, ZenonT(40)
  <2> QED
    BY <1>1, <2>2, <2>3, ZenonT(40)
<1> QED
  BY <1>4, <1>5, <1>6, <1>7, ZenonT(40) DEF Lineage, longer

(* An emission creates a share that no earlier block created. *)
LEMMA LineageEmits ==
  ASSUME NEW line, NEW n \in Nat, NEW unspent, Lineage(line, n, unspent),
         NEW x, Len(x) = 4, DOMAIN x[2] = 1 .. n + 1,
         NEW after, after \subseteq unspent \cup {x}
  PROVE  Lineage(line, n + 1, after)
<1>1. ~Minted(line, n, x)
  <2>1. ASSUME NEW m \in 1 .. n PROVE DOMAIN x[2] # 1 .. m
    <3>1. n + 1 \in 1 .. n + 1 /\ n + 1 \notin 1 .. m
      OBVIOUS
    <3> QED
      BY <3>1, Zenon
  <2>2. \A p \in DOMAIN line : x \notin SharesOf(line[p])
    BY SharesId, Zenon
  <2> QED
    BY <2>1, <2>2, ZenonT(40) DEF Minted
<1>2. Minted(line, n + 1, x)
  <2>1. n + 1 \in 1 .. n + 1
    OBVIOUS
  <2> QED
    BY <2>1, Zenon DEF Minted
<1>3. \A y : Minted(line, n, y) => Minted(line, n + 1, y)
  <2>1. 1 .. n \subseteq 1 .. n + 1
    BY SMTT(30), SMTT(60)
  <2> QED
    BY <2>1, Zenon DEF Minted
<1> QED
  BY <1>1, <1>2, <1>3, ZenonT(40) DEF Lineage

-----------------------------------------------------------------------------
(* The positions of a line and the operations at them. *)
LEMMA LineFacts ==
  ASSUME NEW chain, NEW n
  PROVE  /\ \A p \in DOMAIN LineOf(chain, n) :
              /\ p = <<p[1], p[2]>> /\ p[1] \in 1 .. n /\ p[2] \in DOMAIN chain[p[1]].ops
              /\ LineOf(chain, n)[p] = chain[p[1]].ops[p[2]]
         /\ \A i \in 1 .. n : \A k \in DOMAIN chain[i].ops :
              <<i, k>> \in DOMAIN LineOf(chain, n)
BY DEF LineOf

(* The line of a chain depends on the blocks up to its end only. *)
LEMMA SameLine ==
  ASSUME NEW c, NEW d, NEW n, \A i \in 1 .. n : c[i] = d[i]
  PROVE  LineOf(c, n) = LineOf(d, n)
<1>1. DOMAIN LineOf(c, n) = DOMAIN LineOf(d, n)
  BY Zenon DEF LineOf
<1>2. \A p \in DOMAIN LineOf(c, n) : LineOf(c, n)[p] = LineOf(d, n)[p]
  BY <1>1, LineFacts, SMTT(30), SMTT(60)
<1> QED
  BY <1>1, <1>2, Zenon DEF LineOf

(* Operation k + 1 of block n + 1 is new to the line and makes it longer. *)
OneMore(line, n, ops, k) ==
  /\ <<n + 1, k + 1>> \notin DOMAIN WithBlock(line, n + 1, ops, k)
  /\ WithBlock(line, n + 1, ops, k + 1)
       = Longer(WithBlock(line, n + 1, ops, k), <<n + 1, k + 1>>, ops[k + 1])

(* One more operation of the block in progress makes the line longer. *)
LEMMA BlockLineGrows ==
  ASSUME NEW chain, NEW n \in Nat, NEW ops, NEW k \in Nat
  PROVE  OneMore(LineOf(chain, n), n, ops, k)
<1> DEFINE line == LineOf(chain, n)
           short == WithBlock(line, n + 1, ops, k)
           long == WithBlock(line, n + 1, ops, k + 1)
           new == <<n + 1, k + 1>>
<1>1. \A p \in DOMAIN line : p[1] # n + 1
  BY LineFacts
<1>2. new \notin DOMAIN line /\ new[2] = k + 1
  BY <1>1, Zenon
<1>3. DOMAIN short = DOMAIN line \cup ({n + 1} \X (1 .. k))
  BY Zenon DEF WithBlock
<1>4. new \notin DOMAIN short
  BY <1>2, <1>3, SMTT(30), SMTT(60)
<1>5. {n + 1} \X (1 .. k + 1) = ({n + 1} \X (1 .. k)) \cup {new}
  <2>1. 1 .. k + 1 = (1 .. k) \cup {k + 1}
    OBVIOUS
  <2> QED
    BY <2>1
<1>6. DOMAIN long = DOMAIN short \cup {new}
  BY <1>3, <1>5, Zenon DEF WithBlock
<1>7. long[new] = ops[k + 1]
  BY <1>2, <1>6, Zenon DEF WithBlock
<1>8. \A q \in DOMAIN short : long[q] = short[q]
  BY <1>3, <1>6, Zenon DEF WithBlock
<1>9. long = [q \in DOMAIN short \cup {new} |-> IF q = new THEN ops[k + 1] ELSE short[q]]
  <2>1. long = [q \in DOMAIN long |-> long[q]]
    BY Zenon DEF WithBlock
  <2> HIDE DEF long, short, new
  <2> QED
    BY <1>6, <1>7, <1>8, <2>1, ZenonT(40)
<1> QED
  BY <1>4, <1>9, ZenonT(40) DEF OneMore, Longer

(* The line of a chain with one more block is that of the chain with all    *)
(* the operations of the block.                                             *)
LEMMA AppendedLine ==
  ASSUME NEW chain, NEW n \in Nat, NEW longer, NEW ops \in Seq(Operation),
         \A i \in 1 .. n : longer[i] = chain[i], longer[n + 1].ops = ops
  PROVE  LineOf(longer, n + 1) = WithBlock(LineOf(chain, n), n + 1, ops, Len(ops))
<1> DEFINE line == LineOf(chain, n)
           all == WithBlock(line, n + 1, ops, Len(ops))
           new == LineOf(longer, n + 1)
<1>1. DOMAIN ops = 1 .. Len(ops)
  OBVIOUS
<1>2. \A p \in DOMAIN line : p[1] # n + 1
  BY LineFacts
<1>3. 1 .. n + 1 = (1 .. n) \cup {n + 1}
  OBVIOUS
<1>4. DOMAIN new = DOMAIN line \cup ({n + 1} \X (1 .. Len(ops)))
  BY <1>1, <1>3, SMTT(30), SMTT(60) DEF LineOf
<1>5. ASSUME NEW p \in DOMAIN line PROVE new[p] = line[p]
  <2>1. p[1] \in 1 .. n /\ line[p] = chain[p[1]].ops[p[2]]
    BY LineFacts, SMTT(30), SMTT(60)
  <2>2. new[p] = longer[p[1]].ops[p[2]]
    BY <1>4, LineFacts, SMTT(30), SMTT(60)
  <2> QED
    BY <2>1, <2>2, ZenonT(40)
<1>6. ASSUME NEW p \in DOMAIN new, p \notin DOMAIN line PROVE new[p] = ops[p[2]]
  <2>1. p[1] = n + 1
    BY <1>4, <1>6, Zenon
  <2> QED
    BY <2>1, LineFacts, SMTT(30), SMTT(60)
<1>7. DOMAIN all = DOMAIN new
  BY <1>4, Zenon DEF WithBlock
<1>8. \A p \in DOMAIN all : all[p] = IF p \in DOMAIN line THEN line[p] ELSE ops[p[2]]
  BY Zenon DEF WithBlock
<1>9. new = [p \in DOMAIN new |-> new[p]] /\ all = [p \in DOMAIN all |-> all[p]]
  BY Zenon DEF LineOf, WithBlock
<1> HIDE DEF line, all, new
<1>10. \A p \in DOMAIN new : new[p] = all[p]
  BY <1>5, <1>6, <1>7, <1>8, ZenonT(40)
<1>11. new = all
  BY <1>7, <1>9, <1>10, ZenonT(40)
<1> QED
  BY <1>11, Zenon DEF line, all, new

(* A front of a chain inherits the origins of its coins. *)
LEMMA ChainFront ==
  ASSUME NEW chain, IsSeq(chain), ChainOK(chain), NEW n \in 0 .. Len(chain)
  PROVE  ChainOK(SubSeq(chain, 1, n))
<1> DEFINE front == SubSeq(chain, 1, n)
<1>1. Len(front) = n /\ \A i \in 1 .. n : front[i] = chain[i]
  BY SeqFront, Zenon
<1>2. Len(chain) \in Nat
  BY DEF IsSeq
<1> HIDE DEF front
<1>3. ASSUME NEW h \in 1 .. n
      PROVE  /\ Lineage(LineOf(front, h), h - 1, DOMAIN front[h].root.coins)
             /\ Registry(front[h].root.programs, h - 1)
  <2>1. h \in 1 .. Len(chain) /\ \A i \in 1 .. h : front[i] = chain[i]
    BY <1>1, <1>2, SMTT(30), SMTT(60)
  <2>2. LineOf(front, h) = LineOf(chain, h)
    BY <2>1, SameLine, ZenonT(40)
  <2> QED
    BY <1>1, <2>1, <2>2, ZenonT(40) DEF ChainOK
<1> QED
  BY <1>1, <1>3, Zenon DEF ChainOK, front

(* A committed block extends the chain with the origins of its coins. *)
LEMMA ChainGrows ==
  ASSUME NEW chain, IsSeq(chain), ChainOK(chain),
         NEW block, block.ops \in Seq(Operation),
         Lineage(WithBlock(LineOf(chain, Len(chain)), Len(chain) + 1, block.ops,
                           Len(block.ops)),
                 Len(chain), DOMAIN block.root.coins),
         Registry(block.root.programs, Len(chain))
  PROVE  ChainOK(Append(chain, block))
<1> DEFINE n == Len(chain)
           longer == Append(chain, block)
<1>1. /\ n \in Nat /\ Len(longer) = n + 1 /\ longer[n + 1] = block
      /\ \A i \in 1 .. n : longer[i] = chain[i]
  BY SeqAppend, SMTT(30), SMTT(60)
<1> HIDE DEF longer, n
<1>2. ASSUME NEW h \in 1 .. n + 1
      PROVE  /\ Lineage(LineOf(longer, h), h - 1, DOMAIN longer[h].root.coins)
             /\ Registry(longer[h].root.programs, h - 1)
  <2>1. CASE h \in 1 .. n
    <3>1. \A i \in 1 .. h : longer[i] = chain[i]
      BY <1>1, <2>1, SMTT(30), SMTT(60)
    <3>2. LineOf(longer, h) = LineOf(chain, h) /\ longer[h] = chain[h]
      BY <1>1, <2>1, <3>1, SameLine, ZenonT(40)
    <3> QED
      BY <2>1, <3>2, ZenonT(40) DEF ChainOK, n
  <2>2. CASE h = n + 1
    <3>1. LineOf(longer, n + 1)
            = WithBlock(LineOf(chain, n), n + 1, block.ops, Len(block.ops))
      BY <1>1, AppendedLine, SMTT(30), SMTT(60)
    <3>2. h - 1 = n
      BY <1>1, <2>2, SMTT(30), SMTT(60)
    <3> QED
      BY <1>1, <2>2, <3>1, <3>2, ZenonT(40) DEF n
  <2> QED
    BY <1>1, <2>1, <2>2, SMTT(30), SMTT(60)
<1> QED
  BY <1>1, <1>2, ZenonT(40) DEF ChainOK, longer

(* Applying an operation keeps one program per owner and nonce, deployed at *)
(* the height of its block.                                                 *)
LEMMA RegistryApplied ==
  ASSUME NEW s, NEW op, NEW miner, NEW sel, Offered(s, op, miner, sel),
         NEW height \in Nat, Registry(s.programs, height)
  PROVE  Registry(AppliedPrograms(s, op, height), height)
<1> DEFINE after == AppliedPrograms(s, op, height)
           old == s.programs
<1>1. CASE op.kind = "deploy"
  <2>1. /\ op.program \notin DOMAIN old
        /\ \A p \in DOMAIN old : <<old[p].owner, old[p].nonce>> # <<op.signer, op.nonce>>
    BY <1>1, Zenon DEF Offered, ValidOp
  <2>2. /\ DOMAIN after = DOMAIN old \cup {op.program}
        /\ after[op.program] = [owner |-> op.signer, nonce |-> op.nonce, value |-> 0,
                                deployed_at |-> height]
        /\ \A p \in DOMAIN old : after[p] = old[p]
    BY <1>1, <2>1, ZenonT(40) DEF AppliedPrograms, Registered
  <2>3. /\ after[op.program].owner = op.signer /\ after[op.program].nonce = op.nonce
        /\ after[op.program].deployed_at = height
    BY <2>2, SMTT(30), SMTT(60)
  <2> HIDE DEF after
  <2>4. \A p \in DOMAIN after : after[p].deployed_at \in 0 .. height
    BY <2>2, <2>3, SMTT(30), SMTT(60) DEF Registry
  <2>5. \A p \in DOMAIN old : ~(old[p].owner = op.signer /\ old[p].nonce = op.nonce)
    BY <2>1, Zenon
  <2>6. ASSUME NEW p \in DOMAIN after, NEW q \in DOMAIN after,
               after[p].owner = after[q].owner, after[p].nonce = after[q].nonce
        PROVE  p = q
    <3>1. CASE p \in DOMAIN old /\ q \in DOMAIN old
      BY <2>2, <2>6, <3>1, ZenonT(40) DEF Registry
    <3>2. CASE p = op.program /\ q \in DOMAIN old
      BY <2>2, <2>3, <2>5, <2>6, <3>2, ZenonT(40)
    <3>3. CASE q = op.program /\ p \in DOMAIN old
      BY <2>2, <2>3, <2>5, <2>6, <3>3, ZenonT(40)
    <3> QED
      BY <2>2, <3>1, <3>2, <3>3, ZenonT(40)
  <2> QED
    BY <2>4, <2>6, Zenon DEF Registry, after
<1>2. CASE op.kind = "vm" /\ op.value # Absent
  <2>1. op.program \in DOMAIN old /\ ProgramsOK(old)
    BY <1>2, SelectionFacts, ZenonT(40) DEF Offered, Sound
  <2>2. after = [old EXCEPT ![op.program].value = op.value]
    BY <1>2, Zenon DEF AppliedPrograms, CalledPrograms, SetState
  <2>3. DOMAIN after = DOMAIN old
    BY <2>2, Zenon
  <2>4. ASSUME NEW p \in DOMAIN old
        PROVE  /\ after[p].owner = old[p].owner /\ after[p].nonce = old[p].nonce
               /\ after[p].deployed_at = old[p].deployed_at
    <3>1. old[p] = [owner |-> old[p].owner, nonce |-> old[p].nonce,
                    value |-> old[p].value, deployed_at |-> old[p].deployed_at]
      BY <2>1, Zenon DEF ProgramsOK
    <3>2. after[p] = IF p = op.program THEN [old[p] EXCEPT !.value = op.value] ELSE old[p]
      BY <2>2, Zenon
    <3> HIDE DEF after
    <3> QED
      BY <3>1, <3>2, ZenonT(40)
  <2> HIDE DEF after
  <2>5. Registry(after, height)
    BY <2>3, <2>4, Zenon DEF Registry
  <2> QED
    BY <2>5, Zenon DEF after
<1>3. CASE op.kind # "deploy" /\ ~(op.kind = "vm" /\ op.value # Absent)
  BY <1>3, Zenon DEF AppliedPrograms, CalledPrograms
<1> QED
  BY <1>1, <1>2, <1>3, ZenonT(40)

-----------------------------------------------------------------------------
(* Before its first operation, a block adds nothing to the line. *)
LEMMA NoneOfBlock ==
  ASSUME NEW chain, NEW n, NEW i, NEW ops
  PROVE  WithBlock(LineOf(chain, n), i, ops, 0) = LineOf(chain, n)
<1> DEFINE line == LineOf(chain, n)
<1>1. line = [q \in DOMAIN line |-> line[q]]
  BY Zenon DEF LineOf
<1>2. 1 .. 0 = {}
  OBVIOUS
<1>3. DOMAIN line \cup ({i} \X (1 .. 0)) = DOMAIN line
  BY <1>2, Zenon
<1> HIDE DEF line
<1>4. WithBlock(line, i, ops, 0) = line
  BY <1>1, <1>3, ZenonT(40) DEF WithBlock
<1> QED
  BY <1>4, Zenon DEF line

(* The origins of the canonical state are those of the tip. *)
LEMMA TipOrigins ==
  ASSUME IInv, OriginInv, headers # << >>
  PROVE  /\ Len(headers) \in Nat \ {0}
         /\ Lineage(LineOf(headers, Len(headers)), Len(headers) - 1, DOMAIN state.coins)
         /\ Registry(state.programs, Len(headers) - 1)
<1>1. IsSeq(headers)
  BY Zenon DEF IInv, HistoryOK
<1>2. Len(headers) \in Nat \ {0}
  BY <1>1, SMTT(30), SMTT(60) DEF IsSeq
<1>3. headers[Len(headers)].root = StateRoot(state)
  BY Zenon DEF IInv, StateMatchesTip, RootAt
<1>4. /\ headers[Len(headers)].root.coins = state.coins
      /\ headers[Len(headers)].root.programs = state.programs
  BY <1>3 DEF StateRoot
<1> QED
  BY <1>2, <1>4, SMTT(30), SMTT(60) DEF OriginInv, ChainOK

(* The genesis block has no coins and no programs. *)
LEMMA GenesisOrigins ==
  ASSUME IInv, OriginInv, ApplyGenesis
  PROVE  OriginInv'
<1>1. /\ headers' = <<[miner |-> Absent, ops |-> << >>, root |-> StateRoot(state)]>>
      /\ StateRoot(state) = StateRoot(EmptyState)
      /\ staged' = Idle /\ snapshot' = snapshot
  BY Zenon DEF ApplyGenesis, RootAt
<1>2. /\ Len(headers') = 1 /\ headers'[1].ops = << >>
      /\ headers'[1].root = StateRoot(EmptyState)
  BY <1>1, Zenon
<1>3. /\ DOMAIN headers'[1].root.coins = {} /\ DOMAIN headers'[1].root.programs = {}
  <2>1. StateRoot(EmptyState).coins = EmptyMap /\ StateRoot(EmptyState).programs = EmptyMap
    BY Zenon DEF StateRoot, EmptyState
  <2>2. DOMAIN EmptyMap = {}
    BY Zenon DEF EmptyMap
  <2> QED
    BY <1>2, <2>1, <2>2, ZenonT(40)
<1>4. DOMAIN LineOf(headers', 1) = {}
  BY <1>2, SMTT(30), SMTT(60) DEF LineOf
<1>5. ChainOK(headers')
  BY <1>2, <1>3, <1>4, SMTT(30), SMTT(60) DEF ChainOK, Lineage, Registry
<1> QED
  BY <1>1, <1>5, Zenon DEF OriginInv, Executing, Idle

(* The emission of a new block is a share that never existed. *)
LEMMA BeginOrigins ==
  ASSUME IInv, OriginInv, NEW miner \in Miner, NEW ops \in BlockOps,
         BeginBlock(miner, ops)
  PROVE  OriginInv'
<1> DEFINE n == Len(headers)
           subsidy == ExpectedEmission(n, FeesOf(ops))
           coin == [owner |-> miner, amount |-> subsidy - MinerProtocolBurn]
           x == EmissionShare(ParentId(headers), miner, subsidy)
           new == EmissionCoins(x, coin)
           line == LineOf(headers, n)
<1>1. headers # << >> /\ headers' = headers /\ snapshot' = snapshot
  BY Zenon DEF BeginBlock
<1>2. /\ n \in Nat \ {0} /\ Lineage(line, n - 1, DOMAIN state.coins)
      /\ Registry(state.programs, n - 1)
  BY <1>1, TipOrigins, Zenon
<1>3. /\ staged'.state = AfterEmission(state, new, subsidy)
      /\ staged'.journals = <<EmissionJournal(new, subsidy)>> /\ staged'.ops = ops
  BY ZenonT(40) DEF BeginBlock
<1>4. Len(staged'.journals) - 1 = 0
  BY <1>3
<1>5. StagedLine' = line
  BY <1>1, <1>4, NoneOfBlock, ZenonT(40) DEF StagedLine
<1>6. Len(x) = 4 /\ DOMAIN x[2] = 1 .. n
  <2>1. x[2] = ParentId(headers) /\ Len(x) = 4
    BY ZenonT(40) DEF EmissionShare
  <2>2. DOMAIN headers = 1 .. n
    BY DEF IInv, HistoryOK, IsSeq
  <2> QED
    BY <2>1, <2>2, Zenon DEF ParentId
<1>7. /\ DOMAIN staged'.state.coins \subseteq DOMAIN state.coins \cup {x}
      /\ staged'.state.programs = state.programs
  <2> DEFINE r == Replace(state, {}, new)
  <2>1. Sound(state)
    BY Zenon DEF IInv, Good
  <2>2. state = StateRecord(state.coins, state.total_value, OwnersOf(state.coins),
                 state.mined, state.burned, state.programs, state.assets)
    BY <2>1, SoundRecord, ZenonT(40)
  <2>3. /\ r.coins = ReplaceCoins(state.coins, {}, new) /\ r.programs = state.programs
        /\ r \in StateRecords(r.coins, r.total_value, r.by_owner, r.mined, r.burned,
                              r.programs, r.assets)
    <3> HIDE DEF new
    <3> QED
      BY <2>2, WithCoinsRecord, RecordInSet, SMTT(30), SMTT(60) DEF Replace, StateRecord
  <2>4. DOMAIN new \subseteq {x}
    BY Zenon DEF EmissionCoins
  <2> HIDE DEF r, new, x
  <2>5. DOMAIN r.coins \subseteq DOMAIN state.coins \cup {x}
    BY <2>3, <2>4, ZenonT(40) DEF ReplaceCoins
  <2>6. staged'.state = [r EXCEPT !.mined = state.mined + subsidy,
                                  !.burned = state.burned + MinerProtocolBurn]
    BY <1>3, Zenon DEF AfterEmission, r
  <2>7. staged'.state.coins = r.coins /\ staged'.state.programs = r.programs
    BY <2>3, <2>6, Zenon DEF StateRecords
  <2> QED
    BY <2>3, <2>5, <2>7, ZenonT(40)
<1> HIDE DEF x, line, n, new, coin, subsidy
<1>8. Lineage(line, n, DOMAIN staged'.state.coins)
  <2> DEFINE m == n - 1
  <2>1. m \in Nat /\ m + 1 = n
    BY <1>2
  <2>2. Lineage(line, m, DOMAIN state.coins)
    BY <1>2, Zenon
  <2> HIDE DEF m
  <2>3. Lineage(line, m + 1, DOMAIN staged'.state.coins)
    BY <1>6, <1>7, <2>1, <2>2, LineageEmits, ZenonT(40)
  <2> QED
    BY <2>1, <2>3, ZenonT(40)
<1>9. Registry(staged'.state.programs, n)
  BY <1>2, <1>7, SMTT(30), SMTT(60) DEF Registry
<1> QED
  BY <1>1, <1>5, <1>8, <1>9, ZenonT(40) DEF OriginInv, n

(* Every operation of a block creates shares that never existed. *)
LEMMA ExecuteOrigins ==
  ASSUME IInv, OriginInv, ExecuteOp
  PROVE  OriginInv'
<1> DEFINE n == Len(headers)
           k == Len(staged.journals) - 1
           s == staged.state
           op == NextOp
           line == LineOf(headers, n)
<1>1. PICK sel \in Selections(s, op) :
        /\ Accepts(sel)
        /\ staged' = [staged EXCEPT
             !.burns = @ + PaymentBurn(s, op, staged.miner),
             !.state = Apply(s, op, staged.miner, n, sel),
             !.journals = Append(@, Journal(s, op, staged.miner, sel)),
             !.before = Append(@, s)]
  BY Zenon DEF ExecuteOp
<1> DEFINE t == Apply(s, op, staged.miner, n, sel)
<1>2. /\ Executing /\ MoreOps /\ headers' = headers /\ snapshot' = snapshot
  BY Zenon DEF ExecuteOp
<1>3. ExecutionOK
  BY <1>2, ZenonT(40) DEF IInv
<1>4. /\ n \in Nat /\ k \in Nat /\ k + 1 = Len(staged.journals) /\ op \in Operation
      /\ IsSeq(staged.journals) /\ op = staged.ops[k + 1]
  <2>1. /\ staged.ops \in Seq(Operation) /\ Len(staged.journals) \in 1 .. Len(staged.ops) + 1
        /\ IsSeq(staged.journals) /\ n \in Nat
    BY <1>3, SMTT(30), SMTT(60) DEF ExecutionOK, IInv, HistoryOK, IsSeq
  <2>2. Len(staged.journals) \in 1 .. Len(staged.ops)
    BY <1>2, <2>1, SMTT(30), SMTT(60) DEF MoreOps
  <2> QED
    BY <2>1, <2>2, SMTT(30), SMTT(60) DEF NextOp
<1>5. /\ staged'.state = t /\ staged'.ops = staged.ops
      /\ staged'.journals = Append(staged.journals, Journal(s, op, staged.miner, sel))
  <2>1. staged \in [kind : {"execute"}, miner : {staged.miner}, ops : {staged.ops},
                    subsidy : {staged.subsidy}, burns : {staged.burns},
                    state : {staged.state}, journals : {staged.journals},
                    before : {staged.before}]
    BY <1>3, SMTT(30), SMTT(60) DEF ExecutionOK
  <2> HIDE DEF t, op, s
  <2> QED
    BY <1>1, <2>1, ZenonT(40) DEF t, s
<1>6. Len(staged'.journals) - 1 = k + 1
  <2>1. Len(staged'.journals) = Len(staged.journals) + 1
    BY <1>4, <1>5, SeqAppend, SMTT(30), SMTT(60)
  <2> QED
    BY <1>4, <2>1, SMTT(30), SMTT(60)
<1>7. Good(s)
  BY <1>2, StagedGood, SMTT(30), SMTT(60) DEF Executing, Idle
<1>8. Applicable(s, op, staged.miner, sel) /\ Offered(s, op, staged.miner, sel)
  BY <1>1, <1>4, <1>7, ZenonT(40) DEF Applicable, Callable, Offered, Accepts, CanApply, Good
<1>9. /\ Lineage(StagedLine, n, DOMAIN s.coins) /\ Registry(s.programs, n)
  BY <1>2, Zenon DEF OriginInv
<1>10. Registry(t.programs, n)
  <2>1. IsApplied(s, op, staged.miner, n, sel, t)
    BY <1>8, AppliedState, Zenon
  <2>2. t.programs = AppliedPrograms(s, op, n)
    BY <2>1, Zenon DEF IsApplied
  <2> QED
    BY <1>4, <1>8, <1>9, <2>2, RegistryApplied, ZenonT(40)
<1>11. DOMAIN t.coins \subseteq (DOMAIN s.coins \ op.inputs) \cup SharesOf(op)
  <2> DEFINE v == VmCoins(s, op, sel)
             p == PaymentCoins(op, staged.miner)
  <2>1. t.coins = After2(s.coins, sel, v, op.inputs, p)
    <3>1. IsApplied(s, op, staged.miner, n, sel, t)
      BY <1>8, AppliedState, Zenon
    <3> QED
      BY <3>1, ZenonT(40) DEF IsApplied
  <2>2. DOMAIN v \subseteq SharesOf(op)
    BY VmShares, Zenon
  <2>3. DOMAIN p \subseteq SharesOf(op)
    <3>1. staged.miner \in Owner
      BY <1>3, Zenon DEF ExecutionOK
    <3> QED
      BY <1>4, <3>1, PaymentOfCoins, ZenonT(40)
  <2> HIDE DEF v, p, t
  <2> QED
    BY <2>1, <2>2, <2>3, ZenonT(40) DEF After1, After2, ReplaceCoins
<1>12. op.inputs \subseteq DOMAIN s.coins
  BY <1>8, SelectionFacts, ZenonT(40)
<1>13. StagedLine = WithBlock(line, n + 1, staged.ops, k)
  BY Zenon DEF StagedLine
<1>14. StagedLine' = WithBlock(line, n + 1, staged.ops, k + 1)
  BY <1>2, <1>5, <1>6, ZenonT(40) DEF StagedLine
<1>15. /\ <<n + 1, k + 1>> \notin DOMAIN StagedLine
       /\ StagedLine' = Longer(StagedLine, <<n + 1, k + 1>>, op)
  <2>1. n \in Nat /\ k \in Nat
    BY <1>4, Zenon
  <2>2. op = staged.ops[k + 1]
    BY <1>4, Zenon
  <2> HIDE DEF k, op, n
  <2>3. OneMore(line, n, staged.ops, k)
    BY <2>1, BlockLineGrows, ZenonT(40)
  <2>4. QED
    BY <1>13, <1>14, <2>2, <2>3, ZenonT(40) DEF OneMore
<1> HIDE DEF op, s, t, n, k, line
<1>16. Lineage(StagedLine', n, DOMAIN t.coins)
  BY <1>4, <1>9, <1>11, <1>12, <1>15, LineageGrows, ZenonT(40)
<1> QED
  BY <1>2, <1>5, <1>10, <1>16, ZenonT(40) DEF OriginInv, n

(* A committed block leaves the coins that its line explains. *)
LEMMA CommitOrigins ==
  ASSUME IInv, OriginInv, CommitBlock
  PROVE  OriginInv'
<1> DEFINE block == [miner |-> staged.miner, ops |-> staged.ops,
                     root |-> StateRoot(staged.state)]
<1>1. /\ Executing /\ ~MoreOps /\ headers' = Append(headers, block)
      /\ staged' = Idle /\ snapshot' = snapshot
  BY Zenon DEF CommitBlock
<1>2. /\ staged.ops \in Seq(Operation) /\ Len(staged.journals) \in 1 .. Len(staged.ops) + 1
  BY <1>1, ZenonT(40) DEF IInv, ExecutionOK
<1>3. Len(staged.journals) - 1 = Len(staged.ops)
  BY <1>1, <1>2, SMTT(30), SMTT(60) DEF MoreOps
<1>4. /\ Lineage(StagedLine, Len(headers), DOMAIN staged.state.coins)
      /\ Registry(staged.state.programs, Len(headers)) /\ ChainOK(headers)
  BY <1>1, Zenon DEF OriginInv
<1>5. /\ block.ops = staged.ops /\ block.root.coins = staged.state.coins
      /\ block.root.programs = staged.state.programs
  BY Zenon DEF StateRoot
<1>6. IsSeq(headers)
  BY Zenon DEF IInv, HistoryOK
<1> HIDE DEF block
<1>7. ChainOK(headers')
  BY <1>1, <1>2, <1>3, <1>4, <1>5, <1>6, ChainGrows, ZenonT(40) DEF StagedLine
<1> QED
  BY <1>1, <1>7, ZenonT(40) DEF OriginInv, Executing, Idle

(* Every step keeps the origins of the coins. *)
LEMMA OriginStep ==
  ASSUME IInv, OriginInv, [Next]_vars
  PROVE  OriginInv'
<1>1. CASE ApplyGenesis
  BY <1>1, GenesisOrigins, Zenon
<1>2. ASSUME NEW miner \in Miner, NEW ops \in BlockOps, BeginBlock(miner, ops)
      PROVE  OriginInv'
  BY <1>2, BeginOrigins, ZenonT(40)
<1>3. CASE ExecuteOp
  BY <1>3, ExecuteOrigins, Zenon
<1>4. CASE CommitBlock
  BY <1>4, CommitOrigins, Zenon
<1>5. CASE RejectBlock
  BY <1>5, Zenon DEF RejectBlock, OriginInv, Executing, Idle
<1>6. CASE BeginRollback
  BY <1>6, Zenon DEF BeginRollback, OriginInv, Executing
<1>7. CASE UndoJournal
  <2>1. RollbackOK
    BY <1>7, Zenon DEF UndoJournal, IInv
  <2>2. staged'.kind = "undo"
    <3>1. staged \in [kind : {"undo"}, state : {staged.state}, left : {staged.left}]
      BY <2>1, SMTT(30), SMTT(60) DEF RollbackOK
    <3> QED
      BY <1>7, <3>1, ZenonT(40) DEF UndoJournal
  <2> QED
    BY <1>7, <2>2, ZenonT(40) DEF UndoJournal, OriginInv, Executing
<1>8. CASE FinishRollback
  <2>1. IsSeq(headers) /\ Tip \in 0 .. Len(headers)
    BY <1>8, SMTT(30), SMTT(60) DEF FinishRollback, IInv, HistoryOK, RollbackOK, Tip, IsSeq
  <2>2. ChainOK(headers')
    BY <1>8, <2>1, ChainFront, ZenonT(40) DEF FinishRollback, OriginInv
  <2> QED
    BY <1>8, <2>2, ZenonT(40) DEF FinishRollback, OriginInv, Executing, Idle
<1>9. CASE \/ \E height \in 0 .. MaxHeight + 1 : PruneJournals(height)
           \/ \E keep \in SUBSET bodies : RetainRecentBodies(keep)
           \/ \E height \in 0 .. MaxHeight : CacheKnownBlock(height)
  <2>1. headers' = headers /\ staged' = staged /\ snapshot' = snapshot /\ staged = Idle
    BY <1>9, Zenon DEF PruneJournals, RetainRecentBodies, CacheKnownBlock
  <2> QED
    BY <2>1, Zenon DEF OriginInv, Executing, Idle
<1>10. CASE TakeSnapshot
  <2>1. snapshot'.headers = headers
    BY <1>10, Zenon DEF TakeSnapshot
  <2> QED
    BY <1>10, <2>1, ZenonT(40) DEF TakeSnapshot, OriginInv, Executing, Idle
<1>11. CASE RestoreSnapshot
  BY <1>11, Zenon DEF RestoreSnapshot, OriginInv, Executing, Idle
<1>12. CASE UNCHANGED vars
  BY <1>12, Zenon DEF vars, OriginInv, Executing, StagedLine
<1> QED
  BY <1>1, <1>2, <1>3, <1>4, <1>5, <1>6, <1>7, <1>8, <1>9, <1>10, <1>11, <1>12, ZenonT(40) DEF Next

(* The origins of the coins hold in every state. *)
THEOREM OriginInvariance == Spec => []OriginInv
<1>1. Init => OriginInv
  BY DEF Init, OriginInv, ChainOK, Executing, Idle
<1>2. IInv /\ OriginInv /\ [Next]_vars => OriginInv'
  BY OriginStep, Zenon
<1> QED
  BY <1>1, <1>2, Invariance, PTL DEF Spec

(* No share is consumed by the payments of two operations of the canonical  *)
(* chain: a consumed share never exists again (utxo/coin.rs, consume_coin). *)
THEOREM NothingSpentTwice == Spec => []NoDoubleSpend
<1>1. IInv /\ OriginInv => NoDoubleSpend
  <2> SUFFICES ASSUME IInv, OriginInv, NEW i \in DOMAIN headers, NEW j \in DOMAIN headers,
                      NEW k \in DOMAIN headers[i].ops, NEW l \in DOMAIN headers[j].ops,
                      <<i, k>> # <<j, l>>
               PROVE  headers[i].ops[k].inputs \cap headers[j].ops[l].inputs = {}
    BY ZenonT(40) DEF NoDoubleSpend
  <2> DEFINE n == Len(headers)
             line == LineOf(headers, n)
  <2>1. n \in Nat /\ DOMAIN headers = 1 .. n
    BY SMTT(30), SMTT(60) DEF IInv, HistoryOK, IsSeq
  <2>2. Lineage(line, n - 1, DOMAIN headers[n].root.coins)
    BY <2>1, SMTT(30), SMTT(60) DEF OriginInv, ChainOK
  <2>3. /\ <<i, k>> \in DOMAIN line /\ <<j, l>> \in DOMAIN line
        /\ line[<<i, k>>] = headers[i].ops[k] /\ line[<<j, l>>] = headers[j].ops[l]
    BY <2>1, LineFacts, SMTT(30), SMTT(60)
  <2> HIDE DEF line
  <2> QED
    BY <2>2, <2>3, ZenonT(40) DEF Lineage
<1> QED
  BY <1>1, Invariance, OriginInvariance, PTL

(* An operation that passes consensus validation while a block is executed  *)
(* is never refused by application: no share collides, no total overflows   *)
(* and the supply check succeeds (ledger/applied).                          *)
THEOREM ValidatedAlwaysApplies == Spec => []ValidatedOpsApply
<1>1. IInv /\ OriginInv => ValidatedOpsApply
  <2> DEFINE s == staged.state
             op == NextOp
             miner == staged.miner
  <2> SUFFICES ASSUME IInv, OriginInv, Executing, MoreOps,
                      NEW sel \in Selections(s, op), ValidOp(s, op, miner, sel)
               PROVE  CanApply(s, op, miner, Len(headers), sel)
    BY Zenon DEF ValidatedOpsApply
  <2>1. ExecutionOK /\ Good(s)
    BY StagedGood, SMTT(30), SMTT(60) DEF IInv, Executing, Idle
  <2>2. op \in Operation /\ miner \in Owner
    <3>1. /\ staged.ops \in Seq(Operation) /\ Len(staged.journals) \in 1 .. Len(staged.ops) + 1
          /\ miner \in Owner
      BY <2>1, Zenon DEF ExecutionOK
    <3>2. Len(staged.journals) \in 1 .. Len(staged.ops)
      BY <3>1 DEF MoreOps
    <3> QED
      BY <3>1, <3>2, SMTT(30), SMTT(60) DEF NextOp
  <2>3. Offered(s, op, miner, sel)
    BY <2>1, <2>2, ZenonT(40) DEF Offered, Good
  <2>4. Lineage(StagedLine, Len(headers), DOMAIN s.coins)
    BY Zenon DEF OriginInv
  <2>5. op.inputs \subseteq DOMAIN s.coins
    BY <2>3, SelectionFacts, Zenon
  <2> HIDE DEF s, op, miner
  <2>6. \A x \in SharesOf(op) : ~Minted(StagedLine, Len(headers), x)
    BY <2>2, <2>4, <2>5, FreshShares, ZenonT(40)
  <2>7. SharesOf(op) \cap DOMAIN s.coins = {}
    BY <2>4, <2>6, ZenonT(40) DEF Lineage
  <2> QED
    BY <2>1, <2>2, <2>3, <2>7, FreshApplies, ZenonT(40)
<1> QED
  BY <1>1, Invariance, OriginInvariance, PTL

(* A set of numbers that is not empty has a least element. *)
LEMMA LeastNumber ==
  ASSUME NEW S \in SUBSET Nat, S # {}
  PROVE  \E n \in S : \A m \in S : n <= m
<1> DEFINE R == OpToRel(<, Nat)
<1>1. IsWellFoundedOn(R, Nat)
  BY NatLessThanWellFounded, Zenon
<1>2. \A m, n \in Nat : m < n => <<m, n>> \in R
  BY Zenon DEF OpToRel
<1> HIDE DEF R
<1>3. PICK n \in S : \A m \in S : ~ (<<m, n>> \in R)
  BY <1>1, WFMin, Zenon
<1>4. \A m \in S : ~ (m < n)
  BY <1>2, <1>3, ZenonT(40)
<1> QED
  BY <1>4

(* Every snapshot that is written passes all the checks that its restore    *)
(* makes: the journals are those of a suffix, the supply and coin audits    *)
(* hold, and every program was deployed at or below the tip, one per owner  *)
(* and nonce (canonical/, restore_snapshot_blocks).                         *)
THEOREM SnapshotsAreRestorable == Spec => []SnapshotRestorable
<1>1. IInv /\ OriginInv => SnapshotRestorable
  <2> SUFFICES ASSUME IInv, OriginInv, snapshot # NoSnapshot
               PROVE  RestoreAccepts(snapshot)
    BY Zenon DEF SnapshotRestorable
  <2> DEFINE chain == snapshot.headers
             js == snapshot.journals
             s == snapshot.state
             tip == Len(chain) - 1
             decoded == DecodedState(s)
  <2>1. /\ chain # << >> /\ tip \in DOMAIN js /\ HistoryOK(chain, js, snapshot.trace)
        /\ s = RootAt(chain) /\ Good(decoded) /\ ChainOK(chain)
    BY ZenonT(40) DEF IInv, SnapshotOK, OriginInv
  <2>2. Len(chain) \in Nat \ {0} /\ tip \in Nat /\ tip + 1 = Len(chain)
    BY <2>1 DEF HistoryOK, IsSeq
  <2>3. chain[tip + 1].root = s
    BY <2>1, <2>2, Zenon DEF RootAt
  <2>4. /\ DOMAIN js \subseteq 0 .. tip
        /\ \A h \in DOMAIN js : h .. tip \subseteq DOMAIN js
        /\ \A h \in DOMAIN js : Len(js[h]) = JournalCount(chain[h + 1], h)
    BY <2>1, Zenon DEF HistoryOK
  <2>5. /\ decoded.coins = s.coins /\ decoded.total_value = s.total_value
        /\ decoded.mined = s.mined /\ decoded.burned = s.burned
    BY Zenon DEF DecodedState
  <2>6. SupplyValid(s) /\ Value(s.coins) = s.total_value
    <3>1. SupplyValid(decoded) /\ Value(decoded.coins) = decoded.total_value
      BY <2>1, GoodSupplyValid, ZenonT(40) DEF Good, Sound
    <3> HIDE DEF decoded, s
    <3> QED
      BY <2>5, <3>1, ZenonT(40) DEF SupplyValid
  <2>7. Registry(s.programs, tip)
    BY <2>1, <2>2, <2>3, SMTT(30), SMTT(60) DEF ChainOK
  <2> HIDE DEF chain, js, s, tip, decoded
  <2>8. PICK start \in DOMAIN js : \A h \in DOMAIN js : start <= h
    <3>1. DOMAIN js \in SUBSET Nat /\ DOMAIN js # {}
      BY <2>1, <2>2, <2>4, SMTT(30), SMTT(60)
    <3> QED
      BY <3>1, LeastNumber, ZenonT(40)
  <2>9. DOMAIN js = start .. tip
    <3>1. \A h \in DOMAIN js : h \in Nat /\ h <= tip
      BY <2>2, <2>4, SMTT(30), SMTT(60)
    <3>2. start .. tip \subseteq DOMAIN js
      BY <2>4, Zenon
    <3>3. DOMAIN js \subseteq start .. tip
      BY <2>2, <2>8, <3>1, SMTT(30), SMTT(60)
    <3> QED
      BY <3>2, <3>3, ZenonT(40)
  <2>10. \A p \in DOMAIN s.programs : s.programs[p].deployed_at <= tip
    BY <2>2, <2>7, SMTT(30), SMTT(60) DEF Registry
  <2>11. \A p, q \in DOMAIN s.programs :
           /\ s.programs[p].owner = s.programs[q].owner
           /\ s.programs[p].nonce = s.programs[q].nonce
           => p = q
    BY <2>7, Zenon DEF Registry
  <2>12. \E first \in DOMAIN js :
           /\ DOMAIN js = first .. tip
           /\ \A h \in first .. tip : Len(js[h]) = JournalCount(chain[h + 1], h)
    BY <2>4, <2>9, SMTT(30), SMTT(60)
  <2> QED
    BY <2>3, <2>6, <2>10, <2>11, <2>12, ZenonT(40) DEF RestoreAccepts, chain, js, s, tip
<1> QED
  BY <1>1, Invariance, OriginInvariance, PTL

=============================================================================
