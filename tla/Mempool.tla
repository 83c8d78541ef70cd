------------------------------ MODULE Mempool ------------------------------
(***************************************************************************)
(* Pending operations: runtime/src/node/mempool.rs.                        *)
(*                                                                         *)
(* The pool is stored in the database.  Beside it the process keeps a      *)
(* decoded copy with the state that results from applying it (the copy is  *)
(* used only while its entries are exactly those stored) and a bounded     *)
(* memory of refused insertions.  An operation is a name; the coins it     *)
(* spends and the operations that create them decide when it applies.      *)
(***************************************************************************)
EXTENDS BlockTree, FiniteSets

CONSTANTS
  Op,               \* operations
  Spends,           \* [Op -> SUBSET coins]
  Needs,            \* [Op -> SUBSET Op], the operations that create those coins
  LowFee,           \* operations below the minimum relay fee of their size
  OpsOf,            \* [Block -> Seq(Op)], the operations of a block
  Size,             \* [Op -> Nat], the encoded size of an operation
  MaxPool,          \* MAX_MEMPOOL_TRANSACTIONS
  MaxBytes,         \* MAX_STORED_MEMPOOL_SIZE
  MaxRefusals,      \* CAPACITY of Rejections
  None              \* an absent option

ASSUME MempoolAssumption ==
  /\ Needs \in [Op -> SUBSET Op]
  /\ Op = DOMAIN Spends
  /\ LowFee \subseteq Op
  /\ OpsOf \in [Block -> Seq(Op)] /\ OpsOf[Genesis] = <<>>
  /\ Size \in [Op -> Nat] /\ MaxPool \in Nat /\ MaxBytes \in Nat
  /\ MaxRefusals \in Nat \ {0}
  /\ None \notin Block

VARIABLES
  pool,       \* the stored mempool, in order
  pending,    \* PENDING_CACHE: None, or the pool it decoded and its state
  refusals    \* REJECTIONS, oldest first

-----------------------------------------------------------------------------
(* Whether an operation applies to a state, given by what was applied. *)
Applies(done, op) ==
  /\ op \notin done
  /\ Needs[op] \subseteq done
  /\ \A o \in done : Spends[o] \cap Spends[op] = {}

AppliesInOrder(done, ops) ==
  \A i \in 1 .. Len(ops) : Applies(done \cup Range(SubSeq(ops, 1, i - 1)), ops[i])

(* The operations a chain has applied. *)
Done == [tip \in Block |-> UNION {Range(OpsOf[b]) : b \in Range(Line[tip])}]

(* The blocks that execute on their parent. *)
Executable ==
  {b \in Block : b = Genesis \/ AppliesInOrder(Done[Parent(b)], OpsOf[b])}

Executes(b) == b \in Executable

ValidChain(tip) == \A b \in Range(Line[tip]) : Executes(b)

(* replay_pending_pool *)
Replays(tip, entries) ==
  /\ Range(entries) \cap LowFee = {}
  /\ AppliesInOrder(Done[tip], entries)

-----------------------------------------------------------------------------
(* One candidate, tried after those kept so far: what was included, seen,   *)
(* underpaid or fails is dropped.                                           *)
Tried(tip, candidates, included, before, i) ==
  LET seen == Range(SubSeq(candidates, 1, i - 1))
      op   == candidates[i]
  IN  IF /\ Len(before) < MaxPool
         /\ op \notin included \cup seen \cup LowFee
         /\ Applies(Done[tip] \cup Range(before), op)
      THEN Append(before, op) ELSE before

(* reconcile_pending_operations: candidates are tried in order on the new   *)
(* chain.                                                                   *)
Reconcile(tip, candidates, included) ==
  LET kept[i \in 0 .. Len(candidates)] ==
        IF i = 0 THEN <<>> ELSE Tried(tip, candidates, included, kept[i - 1], i)
  IN  kept[Len(candidates)]

(* The bytes of encoded operations. *)
Bytes(ops) ==
  LET total[i \in 0 .. Len(ops)] == IF i = 0 THEN 0 ELSE total[i - 1] + Size[ops[i]]
  IN  total[Len(ops)]

(* encode_pending_operations, and the limits of PendingPool::push.  Every   *)
(* pool is encoded before it is stored; reconciliation counts operations    *)
(* and not bytes, so what it keeps may be too large.                        *)
Encodable(ops) == Len(ops) <= MaxPool /\ Bytes(ops) <= MaxBytes

-----------------------------------------------------------------------------
Decoded(entries) == [entries |-> entries, validated |-> None]

(* load_pending_pool: the cached copy if it holds the stored entries. *)
LoadPending(entries) ==
  IF pending # None /\ pending.entries = entries THEN pending ELSE Decoded(entries)

AnyValidatedState(tip, current) ==
  IF current.validated # None
  THEN {current.validated.done}
  ELSE {d \in {Done[tip] \cup Range(current.entries)} : Replays(tip, current.entries)}

(* The state the pool results in: the one kept beside it if it was computed *)
(* on this chain, otherwise by replay.                                      *)
PoolState(tip, current) ==
  IF current.validated # None /\ current.validated.anchor = tip
  THEN {current.validated.done}
  ELSE {d \in {Done[tip] \cup Range(current.entries)} : Replays(tip, current.entries)}

(* extend_pending_pool: the pools it can result in, none when it refuses. *)
Extended(tip, current, op) ==
  {[entries   |-> Append(current.entries, op),
    validated |-> [anchor |-> tip, done |-> d \cup {op}]] :
     d \in {d \in PoolState(tip, current) :
              Encodable(Append(current.entries, op)) /\ Applies(d, op)}}

KeyWithoutPool(tip, entries, op) == [anchor |-> tip, entries |-> <<>>, op |-> op]

(* RejectionKey: the chain, the fingerprint of the pool and the operation. *)
RefusalKey(tip, entries, op) == [anchor |-> tip, entries |-> entries, op |-> op]

(* Rejections::insert *)
Remember(key) ==
  IF key \in Range(refusals) THEN refusals
  ELSE Append(IF Len(refusals) = MaxRefusals THEN Tail(refusals) ELSE refusals, key)

(* insert_pending_operation, once it holds the mutation lock. *)
InsertAccepted(tip, op) ==
  \E current \in {LoadPending(pool)} :
    /\ op \notin LowFee \cup Range(pool)
    /\ RefusalKey(tip, pool, op) \notin Range(refusals)
    /\ \E next \in Extended(tip, current, op) :
         /\ pool' = next.entries
         /\ pending' = next
    /\ UNCHANGED refusals

InsertRefused(tip, op) ==
  \E current \in {LoadPending(pool)} :
    /\ op \notin LowFee
    /\ pending' = current
    /\ \/ /\ op \in Range(pool) \/ RefusalKey(tip, pool, op) \in Range(refusals)
          /\ UNCHANGED refusals
       \/ /\ op \notin Range(pool) /\ RefusalKey(tip, pool, op) \notin Range(refusals)
          /\ Extended(tip, current, op) = {}
          /\ refusals' = Remember(RefusalKey(tip, pool, op))
    /\ UNCHANGED pool

=============================================================================
