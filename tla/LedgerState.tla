---------------------------- MODULE LedgerState ----------------------------
(***************************************************************************)
(* The canonical state of the kernel and the operations that change it:    *)
(* kernel/src/ledger/{state.rs, applied/, utxo/} with the consensus checks *)
(* of kernel/src/consensus/{program_call/, deploy.rs, policy/burn.rs}.     *)
(*                                                                         *)
(* A state is a record                                                     *)
(*   coins        the unspent coins, a function from shares to coins       *)
(*   total_value  the running total of their amounts                       *)
(*   by_owner     the shares of every owner, a lookup that is not encoded  *)
(*   mined,burned the issuance and burn totals                             *)
(*   programs     the program registry                                     *)
(*   assets       the asset records and shares, keyed; Absent if missing   *)
(*                                                                         *)
(* Operations are signed long before they are applied, so an operation is  *)
(* a constant record: it names its inputs by share, and the shares it      *)
(* creates are functions of its commitment (its id) and an index.          *)
(***************************************************************************)
EXTENDS Emission, FiniteSets, Functions

CONSTANTS
  Owner,               \* program identifiers, accounts and contracts alike
  Operation,           \* the signed operations that exist
  AssetKey,            \* keys of asset records and asset shares
  Absent,              \* the value of a missing asset key
  CoinUtxoStateWeight  \* COIN_UTXO_STATE_WEIGHT

(* What decoding and structural validation establish for an operation: it   *)
(* has an input, it creates something, and no output is zero.  The id is a  *)
(* digest of the whole operation, so it tells operations apart.             *)
ASSUME OperationAssumption ==
  /\ CoinUtxoStateWeight \in Nat
  /\ \A op \in Operation :
       /\ op.kind \in {"transfer", "asset", "vm", "deploy"}
       /\ op.signer \in Owner
       /\ op.inputs # {}
       /\ op.outputs \in Seq([owner : Owner, amount : Zeno \ {0}])
       /\ op.fee \in Zeno
       /\ op.outputs # << >> \/ op.fee # 0
       /\ op.size \in Nat /\ op.growth \in Nat /\ op.fuel \in Nat
       /\ op.pay \in Zeno /\ op.payee \in Owner
       /\ op.kind \in {"vm", "deploy"} => op.program \in Owner
       /\ op.kind # "vm" => op.pay = 0
       /\ DOMAIN op.writes \subseteq AssetKey
  /\ \A op, other \in Operation : op.id = other.id => op = other

-----------------------------------------------------------------------------
(* Coins. *)

Coin == [owner : Owner, amount : Zeno \ {0}]

(* Mutant: emissions of one miner share an origin. *)
EmissionShareOfMiner(parent, miner, subsidy) == <<"emission", miner>>

(* CoinShare::from_output and CoinShare::from_emission: digests of the      *)
(* commitment and index, or of the parent, recipient and subsidy.           *)
OutputShare(op, index) == <<op.id, index>>
VmShare(op, index) == <<op.id, "vm", index>>
EmissionShare(parent, miner, subsidy) == <<"emission", parent, miner, subsidy>>

(* The sum of the amounts of a function from shares to coins, counted as   *)
(* its units: a coin of amount n is n units.                                *)
Units(coins) == UNION {{id} \X (1 .. coins[id].amount) : id \in DOMAIN coins}

Value(coins) == Cardinality(Units(coins))

(* Consuming the shares in gone, then inserting the coins of new. *)
ReplaceCoins(coins, gone, new) ==
  [id \in (DOMAIN coins \ gone) \cup DOMAIN new |->
     IF id \in DOMAIN new THEN new[id] ELSE coins[id]]

(* Mutant: the lookup keeps the shares that were consumed. *)
ReindexKeepingSpent(by_owner, coins, gone, new) ==
  [o \in Owner |-> by_owner[o] \cup {id \in DOMAIN new : new[id].owner = o}]

ReindexOwners(by_owner, coins, gone, new) ==
  [o \in Owner |->
     (by_owner[o] \ {id \in gone : coins[id].owner = o})
        \cup {id \in DOMAIN new : new[id].owner = o}]

WithCoins(s, gone, new, total) ==
  [s EXCEPT !.coins = ReplaceCoins(s.coins, gone, new),
            !.by_owner = ReindexOwners(s.by_owner, s.coins, gone, new),
            !.total_value = total]

ValueOf(s, shares) == Value(Restrict(s.coins, shares))

(* consume_coin and insert_coin refuse a missing share, an existing one, a  *)
(* zero amount, and a total outside u64.                                    *)
CanReplace(s, gone, new) ==
  /\ gone \subseteq DOMAIN s.coins
  /\ DOMAIN new \cap (DOMAIN s.coins \ gone) = {}
  /\ \A id \in DOMAIN new : new[id] \in Coin
  /\ ValueOf(s, gone) \in Zeno
  /\ Value(new) \in Zeno
  /\ s.total_value - ValueOf(s, gone) \in Zeno
  /\ s.total_value - ValueOf(s, gone) + Value(new) \in Zeno

Replace(s, gone, new) ==
  WithCoins(s, gone, new, s.total_value - ValueOf(s, gone) + Value(new))

(* What the encoding commits to: everything but the owner lookup.  The      *)
(* digest is taken to be injective, so a root is the encoded state itself.  *)
StateRoot(s) ==
  [coins |-> s.coins, total_value |-> s.total_value, mined |-> s.mined,
   burned |-> s.burned, programs |-> s.programs, assets |-> s.assets]

OwnersOf(coins) == [o \in Owner |-> {id \in DOMAIN coins : coins[id].owner = o}]

EmptyMap == [x \in {} |-> x]

EmptyState ==
  [coins |-> EmptyMap, total_value |-> 0, by_owner |-> [o \in Owner |-> {}],
   mined |-> 0, burned |-> 0, programs |-> EmptyMap,
   assets |-> [k \in AssetKey |-> Absent]]

(* validate_supply_invariants, without its asset part. *)
SupplyValid(s) ==
  /\ s.mined - s.burned = s.total_value
  /\ (DOMAIN s.coins = {}) <=> (s.total_value = 0)

-----------------------------------------------------------------------------
(* Consensus validation of an operation. *)

(* The coins a payment creates: its outputs in order, then the miner fee.   *)
PaymentCoins(op, miner) ==
  LET n == Len(op.outputs)
      indices == IF op.fee = 0 THEN 0 .. n - 1 ELSE 0 .. n
  IN  [id \in {OutputShare(op, i) : i \in indices} |->
         IF id[2] = n THEN [owner |-> miner, amount |-> op.fee]
         ELSE op.outputs[id[2] + 1]]

(* Mutant: a contract may spend the coins of any owner. *)
VmSelectionsOfAnyOwner(s, op) ==
  IF op.pay = 0 THEN {{}}
  ELSE {sel \in SUBSET DOMAIN s.coins :
          /\ ValueOf(s, sel) >= op.pay
          /\ \E id \in sel : ValueOf(s, sel \ {id}) < op.pay}

(* Contract-owned coins a VM transfer may spend.  Candidates are visited in *)
(* the order of their digests, which the model leaves open, until the       *)
(* amount is covered; so a selection covers it and some member is needed.   *)
VmSelections(s, op) ==
  IF op.pay = 0 THEN {{}}
  ELSE {sel \in SUBSET s.by_owner[op.program] :
          /\ ValueOf(s, sel) >= op.pay
          /\ \E id \in sel : ValueOf(s, sel \ {id}) < op.pay}

(* The coins that an operation's program may choose: none without a VM. *)
Selections(s, op) ==
  IF op.kind # "vm" THEN {{}}
  ELSE IF op.program \in DOMAIN s.programs THEN VmSelections(s, op) ELSE {}

(* The transfer and, unless it is zero, the change back to the contract. *)
VmCoins(s, op, sel) ==
  LET change == ValueOf(s, sel) - op.pay
      indices == IF op.pay = 0 THEN {} ELSE IF change = 0 THEN {0} ELSE {0, 1}
  IN  [id \in {VmShare(op, i) : i \in indices} |->
         IF id[3] = 0 THEN [owner |-> op.payee, amount |-> op.pay]
         ELSE [owner |-> op.program, amount |-> change]]

(* Archival bytes, net growth in coins, growth of other state, and fuel. *)
RequiredBurn(s, op, miner, sel) ==
  LET created  == Cardinality(DOMAIN PaymentCoins(op, miner))
                    + Cardinality(DOMAIN VmCoins(s, op, sel))
      consumed == Cardinality(op.inputs) + Cardinality(sel)
  IN  op.size + CoinUtxoStateWeight * AtLeast(0, created - consumed)
        + op.growth + op.fuel

PaymentBurn(s, op, miner) == ValueOf(s, op.inputs) - Value(PaymentCoins(op, miner))

(* validate_program_call and validate_deploy.  A deployment needs a free    *)
(* identifier and owner nonce, a VM call a registered program and a         *)
(* selection, an asset call the asset state that it was made for.           *)
ValidOp(s, op, miner, sel) ==
  /\ op.signer \notin DOMAIN s.programs
  /\ \A id \in op.inputs : id \in DOMAIN s.coins /\ s.coins[id].owner = op.signer
  /\ ValueOf(s, op.inputs) \in Zeno
  /\ Value(PaymentCoins(op, miner)) \in Zeno
  /\ PaymentBurn(s, op, miner) \in Zeno
  /\ op.kind = "deploy" =>
       /\ op.program \notin DOMAIN s.programs
       /\ \A p \in DOMAIN s.programs :
            <<s.programs[p].owner, s.programs[p].nonce>> # <<op.signer, op.nonce>>
  /\ op.kind = "asset" => \A k \in DOMAIN op.reads : s.assets[k] = op.reads[k]
  /\ sel \in Selections(s, op)
  /\ PaymentBurn(s, op, miner) = RequiredBurn(s, op, miner, sel)

-----------------------------------------------------------------------------
(* Application.  A program call runs its program before its payment; a      *)
(* deployment pays before it registers the program.                         *)

(* set_state: the program's state is replaced, its record stays. *)
SetState(programs, id, value) == [programs EXCEPT ![id].value = value]

AfterCall(s, op, sel) ==
  CASE op.kind = "vm" ->
         LET settled == Replace(s, sel, VmCoins(s, op, sel))
         IN  IF op.value = Absent THEN settled
             ELSE [settled EXCEPT !.programs = SetState(s.programs, op.program, op.value)]
    [] op.kind = "asset" ->
         [s EXCEPT !.assets = [k \in AssetKey |->
            IF k \in DOMAIN op.writes THEN op.writes[k] ELSE s.assets[k]]]
    [] OTHER -> s

AfterPayment(s, op, miner) ==
  [Replace(s, op.inputs, PaymentCoins(op, miner))
     EXCEPT !.burned = s.burned + PaymentBurn(s, op, miner)]

(* Mutant: the deployment height is one too high. *)
RegisteredLate(programs, op, height) ==
  [p \in DOMAIN programs \cup {op.program} |->
     IF p = op.program
     THEN [owner |-> op.signer, nonce |-> op.nonce, value |-> 0,
           deployed_at |-> height + 1]
     ELSE programs[p]]

Registered(programs, op, height) ==
  [p \in DOMAIN programs \cup {op.program} |->
     IF p = op.program
     THEN [owner |-> op.signer, nonce |-> op.nonce, value |-> 0, deployed_at |-> height]
     ELSE programs[p]]

AfterDeploy(s, op, height) ==
  IF op.kind = "deploy"
  THEN [s EXCEPT !.programs = Registered(s.programs, op, height)]
  ELSE s

Apply(s, op, miner, height, sel) ==
  AfterDeploy(AfterPayment(AfterCall(s, op, sel), op, miner), op, height)

(* Every check that application makes once validation has succeeded. *)
CanApply(s, op, miner, height, sel) ==
  LET called == AfterCall(s, op, sel)
  IN  /\ op.kind = "vm" => CanReplace(s, sel, VmCoins(s, op, sel))
      /\ CanReplace(called, op.inputs, PaymentCoins(op, miner))
      /\ PaymentBurn(called, op, miner) \in Zeno
      /\ called.burned + PaymentBurn(called, op, miner) \in Zeno
      /\ SupplyValid(Apply(s, op, miner, height, sel))

-----------------------------------------------------------------------------
(* Rollback journals.  The coin part lists what the payment consumed and    *)
(* created, followed by what the VM did.                                    *)

ProgramJournal(s, op) ==
  CASE op.kind = "deploy" -> [kind |-> "deploy", id |-> op.program]
    [] op.kind = "vm" /\ op.value # Absent ->
         [kind |-> "state", id |-> op.program,
          previous |-> s.programs[op.program].value]
    [] OTHER -> [kind |-> "none"]

Journal(s, op, miner, sel) ==
  LET called == AfterCall(s, op, sel)
  IN  [consumed    |-> Restrict(called.coins, op.inputs),
       created     |-> DOMAIN PaymentCoins(op, miner),
       vm_consumed |-> Restrict(s.coins, sel),
       vm_created  |-> DOMAIN VmCoins(s, op, sel),
       mined       |-> 0,
       burned      |-> PaymentBurn(called, op, miner),
       program     |-> ProgramJournal(s, op),
       extension   |-> IF op.kind = "asset" THEN Restrict(s.assets, DOMAIN op.writes)
                       ELSE EmptyMap]

UndoProgram(programs, journal) ==
  CASE journal.kind = "deploy" -> Restrict(programs, DOMAIN programs \ {journal.id})
    [] journal.kind = "state" -> SetState(programs, journal.id, journal.previous)
    [] OTHER -> programs

(* Mutant: what the operation inserted is not removed again. *)
UndoAssetsKeepingNew(assets, extension) ==
  [k \in AssetKey |-> IF k \in DOMAIN extension /\ extension[k] # Absent
                      THEN extension[k] ELSE assets[k]]

UndoAssets(assets, extension) ==
  [k \in AssetKey |-> IF k \in DOMAIN extension THEN extension[k] ELSE assets[k]]

(* Mutant: the coins the VM consumed are not added back to the total. *)
UndoneTotalWithoutVm(s, j) ==
  s.total_value - ValueOf(s, j.created) - ValueOf(s, j.vm_created) + Value(j.consumed)

UndoneTotal(s, j) ==
  s.total_value - ValueOf(s, j.created) - ValueOf(s, j.vm_created)
    + Value(j.consumed) + Value(j.vm_consumed)

(* rollback_state on a staged copy. *)
Undo(s, j) ==
  LET created  == j.created \cup j.vm_created
      consumed == ReplaceCoins(j.vm_consumed, {}, j.consumed)
  IN  [WithCoins(s, created, consumed, UndoneTotal(s, j)) EXCEPT
         !.mined = s.mined - j.mined,
         !.burned = s.burned - j.burned,
         !.programs = UndoProgram(s.programs, j.program),
         !.assets = UndoAssets(s.assets, j.extension)]

(* What rollback_state requires: the program is registered, the totals do   *)
(* not underflow, every created share is present once, no consumed share is *)
(* present unless it is also to be removed, and the coin total stays a u64. *)
CanUndo(s, j) ==
  /\ j.program.kind # "none" => j.program.id \in DOMAIN s.programs
  /\ s.mined - j.mined \in Zeno
  /\ s.burned - j.burned \in Zeno
  /\ j.created \cap j.vm_created = {}
  /\ j.created \cup j.vm_created \subseteq DOMAIN s.coins
  /\ DOMAIN j.consumed \cap DOMAIN j.vm_consumed = {}
  /\ \A id \in DOMAIN j.consumed \cup DOMAIN j.vm_consumed :
       id \in DOMAIN s.coins => id \in j.created \cup j.vm_created
  /\ s.total_value - ValueOf(s, j.created) - ValueOf(s, j.vm_created) \in Zeno
  /\ UndoneTotal(s, j) \in Zeno

=============================================================================
