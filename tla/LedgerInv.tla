----------------------------- MODULE LedgerInv -----------------------------
(***************************************************************************)
(* The inductive invariant behind the safety properties of Ledger.         *)
(*                                                                         *)
(* RollbackNeverRefused is not inductive: whether the next journal applies *)
(* depends on the state that the journals after it restored.  The          *)
(* auxiliary variable trace names that state, and the invariant says that  *)
(* every journal kept, committed, staged or in the snapshot, takes the     *)
(* state after its operation back to the state before it.                  *)
(***************************************************************************)
EXTENDS Ledger

IsSeq(q) == q \in Seq(Range(q))

(* A registry: a function from program identifiers to program records. *)
ProgramsOK(programs) ==
  /\ programs = Restrict(programs, DOMAIN programs)
  /\ DOMAIN programs \subseteq Owner
  /\ \A p \in DOMAIN programs :
       programs[p] = [owner |-> programs[p].owner, nonce |-> programs[p].nonce,
                      value |-> programs[p].value,
                      deployed_at |-> programs[p].deployed_at]

(* A well formed state whose running total and owner lookup are exact. *)
Sound(s) ==
  /\ s = DecodedState(StateRoot(s))
  /\ IsFiniteSet(DOMAIN s.coins) /\ s.coins \in [DOMAIN s.coins -> Coin]
  /\ s.total_value = Value(s.coins)
  /\ s.total_value \in Zeno /\ s.mined \in Zeno /\ s.burned \in Zeno
  /\ ProgramsOK(s.programs)
  /\ s.assets = Restrict(s.assets, AssetKey)

(* A sound state that is balanced, as every state between operations is. *)
Good(s) == Sound(s) /\ s.mined - s.burned = s.total_value

(* Undoing journal j in state after is accepted and yields state before. *)
Undoes(after, j, before) == CanUndo(after, j) /\ Undo(after, j) = before

(* A sequence of journals js with the states around them. *)
Undoable(states, js) ==
  /\ IsSeq(states) /\ IsSeq(js)
  /\ Len(states) = Len(js) + 1
  /\ \A i \in 1 .. Len(states) : Good(states[i])
  /\ \A i \in 1 .. Len(js) : Undoes(states[i + 1], js[i], states[i])

(* Journals cover a suffix of the chain and connect the roots of its       *)
(* headers.                                                                 *)
HistoryOK(chain, js, tr) ==
  /\ IsSeq(chain)
  /\ DOMAIN tr = DOMAIN js
  /\ DOMAIN js \subseteq 0 .. Len(chain) - 1
  /\ \A h \in DOMAIN js :
       /\ h .. Len(chain) - 1 \subseteq DOMAIN js
       /\ Len(js[h]) = JournalCount(chain[h + 1], h)
       /\ Undoable(tr[h], js[h])
       /\ StateRoot(tr[h][1]) = RootAt(SubSeq(chain, 1, h))
       /\ StateRoot(tr[h][Len(tr[h])]) = chain[h + 1].root

ExecutionOK ==
  /\ staged = [kind |-> "execute", miner |-> staged.miner, ops |-> staged.ops,
               subsidy |-> staged.subsidy, burns |-> staged.burns,
               state |-> staged.state, journals |-> staged.journals,
               before |-> staged.before]
  /\ staged.miner \in Owner /\ staged.ops \in Seq(Operation)
  /\ staged.subsidy \in Zeno /\ staged.burns \in Nat
  /\ headers # << >>
  /\ IsSeq(staged.before) /\ IsSeq(staged.journals)
  /\ Len(staged.journals) \in 1 .. Len(staged.ops) + 1
  /\ Len(staged.before) = Len(staged.journals)
  /\ staged.before[1] = state
  /\ Undoable(Append(staged.before, staged.state), staged.journals)
  /\ BlockAccounted

RollbackOK ==
  /\ staged = [kind |-> "undo", state |-> staged.state, left |-> staged.left]
  /\ Tip \in DOMAIN journals
  /\ staged.left \in 0 .. Len(journals[Tip])
  /\ staged.state = trace[Tip][staged.left + 1]

SnapshotOK ==
  /\ snapshot.headers # << >>
  /\ Len(snapshot.headers) - 1 \in DOMAIN snapshot.journals
  /\ HistoryOK(snapshot.headers, snapshot.journals, snapshot.trace)
  /\ snapshot.state = RootAt(snapshot.headers)
  /\ Good(DecodedState(snapshot.state))
  /\ StateRoot(DecodedState(snapshot.state)) = snapshot.state

(* The inductive invariant. *)
IInv ==
  /\ Good(state)
  /\ StateMatchesTip
  /\ bodies \subseteq 0 .. Tip
  /\ headers # << >> => 0 \in bodies
  /\ HistoryOK(headers, journals, trace)
  /\ staged = Idle \/ Executing \/ Undoing
  /\ Executing => ExecutionOK
  /\ Undoing => RollbackOK
  /\ snapshot # NoSnapshot => SnapshotOK

-----------------------------------------------------------------------------
(* Where coins come from.  NoDoubleSpend and ValidatedOpsApply follow from  *)
(* no invariant about the current coins alone: a share that was consumed    *)
(* must never be created again, and a share names the operation or the      *)
(* block that created it.  A line of operations is a function from          *)
(* positions <<block, index>> to the operations applied there.              *)

(* The operations of the first n blocks of a chain. *)
LineOf(chain, n) ==
  [p \in UNION {{i} \X DOMAIN chain[i].ops : i \in 1 .. n} |-> chain[p[1]].ops[p[2]]]

(* A line with one more operation, or with the first n of one more block. *)
Longer(line, p, op) ==
  [q \in DOMAIN line \cup {p} |-> IF q = p THEN op ELSE line[q]]

WithBlock(line, i, ops, n) ==
  [q \in DOMAIN line \cup ({i} \X (1 .. n)) |->
     IF q \in DOMAIN line THEN line[q] ELSE ops[q[2]]]

(* Every share that an operation may ever create. *)
SharesOf(op) ==
  {OutputShare(op, i) : i \in 0 .. Len(op.outputs)} \cup {VmShare(op, 0), VmShare(op, 1)}

(* Share x was created by an operation of the line or by the emission of    *)
(* one of the first n blocks after genesis, whose parents have 1 .. n       *)
(* blocks.                                                                  *)
Minted(line, n, x) ==
  \/ \E p \in DOMAIN line : x \in SharesOf(line[p])
  \/ Len(x) = 4 /\ \E m \in 1 .. n : DOMAIN x[2] = 1 .. m

(* The unspent shares and the inputs of the line were created by it, no     *)
(* input is unspent, and none is consumed twice.                            *)
Lineage(line, n, unspent) ==
  /\ \A p \in DOMAIN line : line[p] \in Operation
  /\ \A x \in unspent : Minted(line, n, x)
  /\ \A p \in DOMAIN line : \A x \in line[p].inputs :
       x \notin unspent /\ Minted(line, n, x)
  /\ \A p, q \in DOMAIN line :
       p # q => line[p].inputs \cap line[q].inputs = {}

(* Programs were deployed at or below the height, one per owner and nonce. *)
Registry(programs, height) ==
  /\ \A p \in DOMAIN programs : programs[p].deployed_at \in 0 .. height
  /\ \A p, q \in DOMAIN programs :
       /\ programs[p].owner = programs[q].owner
       /\ programs[p].nonce = programs[q].nonce
       => p = q

(* Every block of the chain left coins and programs that its past explains. *)
ChainOK(chain) ==
  \A h \in 1 .. Len(chain) :
    /\ Lineage(LineOf(chain, h), h - 1, DOMAIN chain[h].root.coins)
    /\ Registry(chain[h].root.programs, h - 1)

(* The line of the block in progress, of which n operations were applied. *)
StagedLine ==
  WithBlock(LineOf(headers, Len(headers)), Len(headers) + 1, staged.ops,
            Len(staged.journals) - 1)

(* The second inductive invariant: it holds along with IInv. *)
OriginInv ==
  /\ ChainOK(headers)
  /\ snapshot # NoSnapshot => ChainOK(snapshot.headers)
  /\ Executing =>
       /\ Lineage(StagedLine, Len(headers), DOMAIN staged.state.coins)
       /\ Registry(staged.state.programs, Len(headers))

=============================================================================
