--------------------------- MODULE NodePoolProofs ---------------------------
(***************************************************************************)
(* The mempool of a node, what it remembers of it and of branches, and the *)
(* miner's template, for every block tree and every set of operations.     *)
(***************************************************************************)
EXTENDS NodeStateProofs

(* A remembered refusal. *)
Refusals == [anchor : Block, entries : Seq(Op), op : Op]

(* The state kept beside a decoded pool is the one the pool results in. *)
PendingOK(p) ==
  /\ p.entries \in Seq(Op)
  /\ p.validated # None =>
       /\ Replays(p.validated.anchor, p.entries)
       /\ p.validated.done = Done[p.validated.anchor] \cup Range(p.entries)

(* The stored pool applies to the stored chain at all times: both change in *)
(* one transaction.                                                         *)
PoolInv ==
  /\ pool \in Seq(Op) /\ Encodable(pool) /\ Replays(chain, pool)
  /\ pending # None => PendingOK(pending)

(* Remembered refusals are right. *)
RefusalInv == refusals \in Seq(Refusals) /\ RefusalsHold

(* Remembered invalid blocks are invalid. *)
InvalidInv == invalid \in Seq(Block) /\ OnlyInvalidRemembered

(* What the miner holds in each phase. *)
Miners ==
  [phase : {"idle"}]
    \cup [phase : {"started"}, stale : BOOLEAN]
    \cup [phase : {"ledger"}, stale : BOOLEAN, tip : Block]
    \cup [phase : {"pool"}, stale : BOOLEAN, tip : Block, entries : Seq(Op)]
    \cup [phase : {"search"}, stale : BOOLEAN, tip : Block, ops : Seq(Op)]

(* What the miner has read is current until a notification, or until the     *)
(* lock is taken.                                                            *)
MinerInv ==
  /\ miner \in Miners
  /\ ~ Running => miner = NoMiner
  /\ Unlocked /\ miner.phase # "idle" /\ ~ miner.stale =>
       /\ miner.phase # "started" => miner.tip = chain
       /\ miner.phase = "pool" => miner.entries = pool
       /\ miner.phase = "search" => miner.ops = Selected(pool)

(* What NoOperationLost says of a step. *)
NothingLost ==
  chain' # chain =>
    \A op \in Range(pool) \cup (Done[chain] \ Done[chain']) :
      \/ op \in Done[chain'] \cup Range(pool') \cup LowFee
      \/ Len(pool') = MaxPool
      \/ ~ Applies(Done[chain'] \cup Range(pool'), op)

-----------------------------------------------------------------------------
(* The elements of a sequence after an append, and of what follows its head. *)
LEMMA RangeOfAppend ==
  ASSUME NEW S, NEW q \in Seq(S), NEW x \in S
  PROVE  Append(q, x) \in Seq(S) /\ Range(Append(q, x)) = Range(q) \cup {x}
<1>1. /\ Append(q, x) \in Seq(S) /\ DOMAIN q = 1 .. Len(q) /\ Len(q) \in Nat
      /\ DOMAIN Append(q, x) = 1 .. Len(q) + 1
      /\ \A i \in 1 .. Len(q) : Append(q, x)[i] = q[i]
      /\ Append(q, x)[Len(q) + 1] = x
  OBVIOUS
<1>2. QED
  BY <1>1 DEF Range

(* A queue that drops its oldest entry has no new ones. *)
LEMMA RangeOfTail ==
  ASSUME NEW S, NEW q \in Seq(S), q # <<>>
  PROVE  Tail(q) \in Seq(S) /\ Range(Tail(q)) \subseteq Range(q)
<1>1. /\ Tail(q) \in Seq(S) /\ DOMAIN q = 1 .. Len(q) /\ Len(q) \in Nat \ {0}
      /\ DOMAIN Tail(q) = 1 .. Len(q) - 1
      /\ \A i \in 1 .. Len(q) - 1 : Tail(q)[i] = q[i + 1] /\ i + 1 \in 1 .. Len(q)
  OBVIOUS
<1>2. QED
  BY <1>1, Zenon DEF Range

(* A bounded memory of what a predicate holds of: the oldest entry goes. *)
LEMMA Remembered ==
  ASSUME NEW S, NEW q \in Seq(S), NEW x \in S, NEW n \in Nat \ {0}, NEW full \in BOOLEAN,
         full => Len(q) >= n
  PROVE  /\ Append(IF full THEN Tail(q) ELSE q, x) \in Seq(S)
         /\ Range(Append(IF full THEN Tail(q) ELSE q, x)) \subseteq Range(q) \cup {x}
<1>1. CASE full
  <2>1. q # <<>>
    BY <1>1
  <2> DEFINE rest == Tail(q)
  <2>2. rest \in Seq(S) /\ Range(rest) \subseteq Range(q)
    BY <2>1, RangeOfTail, Zenon
  <2> HIDE DEF rest
  <2>3. Append(rest, x) \in Seq(S) /\ Range(Append(rest, x)) = Range(rest) \cup {x}
    BY <2>2, RangeOfAppend
  <2>4. (IF full THEN Tail(q) ELSE q) = rest
    BY <1>1, Zenon DEF rest
  <2>5. QED
    BY <2>2, <2>3, <2>4, Zenon
<1>2. CASE ~ full
  BY <1>2, RangeOfAppend
<1>3. QED
  BY <1>1, <1>2, Zenon

(* Operations in order, and one more. *)
LEMMA OneMore ==
  ASSUME NEW ops \in Seq(Op), NEW op \in Op, NEW done
  PROVE  AppliesInOrder(done, Append(ops, op)) <=>
           AppliesInOrder(done, ops) /\ Applies(done \cup Range(ops), op)
<1> DEFINE n == Len(ops)
           more == Append(ops, op)
<1>1. /\ n \in Nat /\ Len(more) = n + 1 /\ more[n + 1] = op
      /\ \A i \in 1 .. n : more[i] = ops[i]
  OBVIOUS
<1>2. \A i \in 1 .. n + 1 : SubSeq(more, 1, i - 1) = SubSeq(ops, 1, i - 1)
  OBVIOUS
<1>3. SubSeq(more, 1, n) = ops
  OBVIOUS
<1> HIDE DEF more, n
<1>4. AppliesInOrder(done, more) <=>
        /\ \A i \in 1 .. n : Applies(done \cup Range(SubSeq(ops, 1, i - 1)), ops[i])
        /\ Applies(done \cup Range(ops), op)
  <2>1. AppliesInOrder(done, more) <=>
          /\ \A i \in 1 .. n : Applies(done \cup Range(SubSeq(more, 1, i - 1)), more[i])
          /\ Applies(done \cup Range(SubSeq(more, 1, n)), more[n + 1])
    <3>1. 1 .. Len(more) = (1 .. n) \cup {n + 1} /\ (n + 1) - 1 = n
      BY <1>1
    <3>2. QED
      BY <3>1, Zenon DEF AppliesInOrder
  <2>2. \A i \in 1 .. n : /\ SubSeq(more, 1, i - 1) = SubSeq(ops, 1, i - 1)
                          /\ more[i] = ops[i]
    BY <1>1, <1>2
  <2>3. (\A i \in 1 .. n : Applies(done \cup Range(SubSeq(more, 1, i - 1)), more[i]))
          <=> (\A i \in 1 .. n : Applies(done \cup Range(SubSeq(ops, 1, i - 1)), ops[i]))
    BY <2>2, Zenon
  <2>4. QED
    BY <1>1, <1>3, <2>1, <2>3, Zenon
<1>5. QED
  BY <1>4, Zenon DEF AppliesInOrder, more, n

(* ... for the pool of a chain. *)
LEMMA ReplaysOneMore ==
  ASSUME NEW tip, NEW ops \in Seq(Op), NEW op \in Op
  PROVE  Replays(tip, Append(ops, op)) <=>
           Replays(tip, ops) /\ op \notin LowFee /\ Applies(Done[tip] \cup Range(ops), op)
<1>1. Range(Append(ops, op)) = Range(ops) \cup {op}
  BY RangeOfAppend
<1>2. AppliesInOrder(Done[tip], Append(ops, op)) <=>
        AppliesInOrder(Done[tip], ops) /\ Applies(Done[tip] \cup Range(ops), op)
  BY OneMore, Zenon
<1>3. QED
  BY <1>1, <1>2, Zenon DEF Replays

(* The empty pool applies to every chain. *)
LEMMA EmptyReplays == \A tip : Replays(tip, <<>>)
BY DEF Replays, AppliesInOrder, Range

-----------------------------------------------------------------------------
(* The steps of a reconciliation are well defined, however many there are. *)
IsKept(f, tip, c, included, n) ==
  f = [i \in 0 .. n |-> IF i = 0 THEN <<>> ELSE Tried(tip, c, included, f[i - 1], i)]

(* Reconciliation has its result after every number of candidates. *)
LEMMA KeptExists ==
  ASSUME NEW tip, NEW c, NEW included, NEW n \in Nat
  PROVE  \E f : IsKept(f, tip, c, included, n)
<1> DEFINE S == {k \in Nat : \E f : f = [i \in 0 .. k |->
                    IF i = 0 THEN <<>> ELSE Tried(tip, c, included, f[i - 1], i)]}
<1>1. 0 \in S
  <2> DEFINE f == [i \in 0 .. 0 |-> <<>>]
  <2>1. f = [i \in 0 .. 0 |-> IF i = 0 THEN <<>> ELSE Tried(tip, c, included, f[i - 1], i)]
    OBVIOUS
  <2>2. QED
    BY <2>1, Zenon
<1>2. ASSUME NEW k \in Nat, k \in S
      PROVE  k + 1 \in S
  <2>1. PICK f : f = [i \in 0 .. k |->
                       IF i = 0 THEN <<>> ELSE Tried(tip, c, included, f[i - 1], i)]
    BY <1>2, Zenon
  <2> DEFINE g == [i \in 0 .. k + 1 |->
                     IF i = k + 1 THEN Tried(tip, c, included, f[k], k + 1) ELSE f[i]]
  <2>2. ASSUME NEW i \in 0 .. k + 1
        PROVE  g[i] = IF i = 0 THEN <<>> ELSE Tried(tip, c, included, g[i - 1], i)
    <3>1. CASE i = k + 1
      BY <3>1
    <3>2. CASE i \in 0 .. k
      <4>1. f[i] = IF i = 0 THEN <<>> ELSE Tried(tip, c, included, f[i - 1], i)
        BY <2>1, <3>2, Zenon
      <4>2. i # 0 => g[i - 1] = f[i - 1]
        BY <3>2
      <4>3. QED
        BY <3>2, <4>1, <4>2, SMT, SMTT(30)
    <3>3. QED
      BY <3>1, <3>2
  <2>3. g = [i \in 0 .. k + 1 |->
               IF i = 0 THEN <<>> ELSE Tried(tip, c, included, g[i - 1], i)]
    BY <2>2, Zenon
  <2> HIDE DEF g
  <2>4. QED
    BY <2>3
<1> HIDE DEF S
<1>3. n \in S
  BY <1>1, <1>2, Induct
<1>4. QED
  BY <1>3, Zenon DEF S, IsKept

(* reconcile_pending_operations, step by step. *)
LEMMA ReconcileSteps ==
  ASSUME NEW tip, NEW c \in Seq(Op), NEW included
  PROVE  \E kept :
           /\ kept[0] = <<>>
           /\ \A i \in 1 .. Len(c) : kept[i] = Tried(tip, c, included, kept[i - 1], i)
           /\ Reconcile(tip, c, included) = kept[Len(c)]
<1> DEFINE n == Len(c)
           kept == CHOOSE f : f = [i \in 0 .. n |->
                     IF i = 0 THEN <<>> ELSE Tried(tip, c, included, f[i - 1], i)]
<1>1. n \in Nat
  OBVIOUS
<1>2. Reconcile(tip, c, included) = kept[n]
  BY Zenon DEF Reconcile
<1> HIDE DEF n
<1>3. \E f : f = [i \in 0 .. n |->
                    IF i = 0 THEN <<>> ELSE Tried(tip, c, included, f[i - 1], i)]
  <2>1. \E f : IsKept(f, tip, c, included, n)
    BY <1>1, KeptExists, Zenon
  <2>2. QED
    BY <2>1, Zenon DEF IsKept
<1>4. kept = [i \in 0 .. n |->
                IF i = 0 THEN <<>> ELSE Tried(tip, c, included, kept[i - 1], i)]
  BY <1>3, Zenon
<1> HIDE DEF kept
<1>5. kept[0] = <<>> /\ \A i \in 1 .. n : kept[i] = Tried(tip, c, included, kept[i - 1], i)
  BY <1>1, <1>4, SMTT(30), SMTT(60)
<1>6. QED
  BY <1>2, <1>5, Zenon DEF n

(* What one candidate can do to the operations kept so far. *)
LEMMA TriedKeeps ==
  ASSUME NEW tip, NEW c \in Seq(Op), NEW included, NEW i \in 1 .. Len(c),
         NEW before \in Seq(Op), Len(before) <= MaxPool, Replays(tip, before)
  PROVE  LET after == Tried(tip, c, included, before, i)
         IN  after \in Seq(Op) /\ Len(after) <= MaxPool /\ Replays(tip, after)
<1>1. c[i] \in Op /\ Len(before) \in Nat /\ MaxPool \in Nat
  BY MempoolAssumption, SMTT(30), SMTT(60)
<1>2. CASE /\ Len(before) < MaxPool /\ c[i] \notin LowFee
           /\ Applies(Done[tip] \cup Range(before), c[i])
           /\ Tried(tip, c, included, before, i) = Append(before, c[i])
  <2>1. Replays(tip, Append(before, c[i]))
    BY <1>1, <1>2, ReplaysOneMore, Zenon
  <2>2. Append(before, c[i]) \in Seq(Op) /\ Len(Append(before, c[i])) <= MaxPool
    BY <1>1, <1>2
  <2>3. QED
    BY <1>2, <2>1, <2>2, Zenon
<1>3. CASE Tried(tip, c, included, before, i) = before
  BY <1>3, Zenon
<1>4. QED
  BY <1>2, <1>3, Zenon DEF Tried

(* What is kept applies, in order, to the new chain. *)
LEMMA ReconcileReplays ==
  ASSUME NEW tip, NEW c \in Seq(Op), NEW included
  PROVE  LET kept == Reconcile(tip, c, included)
         IN  kept \in Seq(Op) /\ Len(kept) <= MaxPool /\ Replays(tip, kept)
<1>1. PICK kept :
        /\ kept[0] = <<>>
        /\ \A i \in 1 .. Len(c) : kept[i] = Tried(tip, c, included, kept[i - 1], i)
        /\ Reconcile(tip, c, included) = kept[Len(c)]
  BY ReconcileSteps
<1> DEFINE n == Len(c)
           S == {i \in Nat : /\ kept[i] \in Seq(Op) /\ Len(kept[i]) <= MaxPool
                             /\ Replays(tip, kept[i])}
<1>2. n \in Nat
  OBVIOUS
<1>3. 0 \in S
  <2>1. <<>> \in Seq(Op) /\ Len(<<>>) <= MaxPool /\ Replays(tip, <<>>)
    BY EmptyReplays, MempoolAssumption, SMT, SMTT(30)
  <2>2. QED
    BY <1>1, <2>1, Zenon
<1>4. ASSUME NEW i \in Nat, i \in S, i < n
      PROVE  i + 1 \in S
  <2>1. i + 1 \in 1 .. Len(c) /\ (i + 1) - 1 = i
    BY <1>2, <1>4
  <2>2. kept[i + 1] = Tried(tip, c, included, kept[i], i + 1)
    BY <1>1, <2>1, Zenon
  <2>3. QED
    BY <1>4, <2>1, <2>2, TriedKeeps, SMTT(30), SMTT(60)
<1> HIDE DEF S, n
<1>5. n \in S
  <2>1. \A i \in 0 .. n : i \in S
    BY <1>2, <1>3, <1>4, Induct, Zenon
  <2>2. QED
    BY <1>2, <2>1
<1>6. QED
  BY <1>1, <1>5, Zenon DEF S, n

-----------------------------------------------------------------------------
(* The bytes of the first operations, up to each of them. *)
IsTotal(f, ops, n) ==
  f = [i \in 0 .. n |-> IF i = 0 THEN 0 ELSE f[i - 1] + Size[ops[i]]]

(* There is such a function for every length. *)
LEMMA TotalExists ==
  ASSUME NEW ops, NEW n \in Nat
  PROVE  \E f : IsTotal(f, ops, n)
<1> DEFINE S == {k \in Nat : \E f : f = [i \in 0 .. k |->
                    IF i = 0 THEN 0 ELSE f[i - 1] + Size[ops[i]]]}
<1>1. 0 \in S
  <2> DEFINE f == [i \in 0 .. 0 |-> 0]
  <2>1. f = [i \in 0 .. 0 |-> IF i = 0 THEN 0 ELSE f[i - 1] + Size[ops[i]]]
    OBVIOUS
  <2>2. QED
    BY <2>1, Zenon
<1>2. ASSUME NEW k \in Nat, k \in S
      PROVE  k + 1 \in S
  <2>1. PICK f : f = [i \in 0 .. k |-> IF i = 0 THEN 0 ELSE f[i - 1] + Size[ops[i]]]
    BY <1>2, Zenon
  <2> DEFINE g == [i \in 0 .. k + 1 |-> IF i = k + 1 THEN f[k] + Size[ops[k + 1]] ELSE f[i]]
  <2>2. ASSUME NEW i \in 0 .. k + 1
        PROVE  g[i] = IF i = 0 THEN 0 ELSE g[i - 1] + Size[ops[i]]
    <3>1. CASE i = k + 1
      BY <3>1
    <3>2. CASE i \in 0 .. k
      <4>1. f[i] = IF i = 0 THEN 0 ELSE f[i - 1] + Size[ops[i]]
        BY <2>1, <3>2, Zenon
      <4>2. i # 0 => g[i - 1] = f[i - 1]
        BY <3>2
      <4>3. QED
        BY <3>2, <4>1, <4>2, SMT, SMTT(30)
    <3>3. QED
      BY <3>1, <3>2, SMT, SMTT(30)
  <2>3. g = [i \in 0 .. k + 1 |-> IF i = 0 THEN 0 ELSE g[i - 1] + Size[ops[i]]]
    BY <2>2, Zenon
  <2> HIDE DEF g
  <2>4. QED
    BY <2>3
<1> HIDE DEF S
<1>3. n \in S
  BY <1>1, <1>2, Induct
<1>4. QED
  BY <1>3, Zenon DEF S, IsTotal

(* Bytes is its last value. *)
LEMMA BytesSteps ==
  ASSUME NEW ops \in Seq(Op)
  PROVE  \E total :
           /\ total[0] = 0
           /\ \A i \in 1 .. Len(ops) : total[i] = total[i - 1] + Size[ops[i]]
           /\ \A i \in 0 .. Len(ops) : total[i] \in Nat
           /\ Bytes(ops) = total[Len(ops)]
<1> DEFINE n == Len(ops)
           total == CHOOSE f : f = [i \in 0 .. n |-> IF i = 0 THEN 0 ELSE f[i - 1] + Size[ops[i]]]
<1>1. n \in Nat /\ \A i \in 1 .. n : ops[i] \in Op
  OBVIOUS
<1>2. Bytes(ops) = total[n]
  BY Zenon DEF Bytes
<1> HIDE DEF n
<1>3. \E f : f = [i \in 0 .. n |-> IF i = 0 THEN 0 ELSE f[i - 1] + Size[ops[i]]]
  <2>1. \E f : IsTotal(f, ops, n)
    BY <1>1, TotalExists, Zenon
  <2>2. QED
    BY <2>1, Zenon DEF IsTotal
<1>4. total = [i \in 0 .. n |-> IF i = 0 THEN 0 ELSE total[i - 1] + Size[ops[i]]]
  BY <1>3, Zenon
<1> HIDE DEF total
<1>5. total[0] = 0 /\ \A i \in 1 .. n : total[i] = total[i - 1] + Size[ops[i]]
  BY <1>1, <1>4, SMTT(30), SMTT(60)
<1> DEFINE S == {i \in Nat : total[i] \in Nat}
<1>6. 0 \in S
  BY <1>5
<1>7. ASSUME NEW i \in Nat, i \in S, i < n
      PROVE  i + 1 \in S
  <2>1. i + 1 \in 1 .. n /\ (i + 1) - 1 = i
    BY <1>1, <1>7
  <2>2. total[i + 1] = total[i] + Size[ops[i + 1]] /\ Size[ops[i + 1]] \in Nat
    BY <1>1, <1>5, <2>1, MempoolAssumption, Zenon
  <2>3. QED
    BY <1>7, <2>2
<1> HIDE DEF S
<1>8. \A i \in 0 .. n : i \in S
  BY <1>1, <1>6, <1>7, Induct, Zenon
<1>9. QED
  BY <1>2, <1>5, <1>8, Zenon DEF n, S

(* PendingPool::push adds the size of the operation. *)
LEMMA BytesOfAppend ==
  ASSUME NEW ops \in Seq(Op), NEW op \in Op
  PROVE  Bytes(ops) \in Nat /\ Bytes(Append(ops, op)) = Bytes(ops) + Size[op]
<1> DEFINE more == Append(ops, op)
           n == Len(ops)
<1>1. /\ more \in Seq(Op) /\ Len(more) = n + 1 /\ n \in Nat
      /\ more[n + 1] = op /\ \A i \in 1 .. n : more[i] = ops[i]
  OBVIOUS
<1>2. PICK f :
        /\ f[0] = 0
        /\ \A i \in 1 .. Len(ops) : f[i] = f[i - 1] + Size[ops[i]]
        /\ \A i \in 0 .. Len(ops) : f[i] \in Nat
        /\ Bytes(ops) = f[Len(ops)]
  BY BytesSteps, Zenon
<1> HIDE DEF more
<1>3. PICK g :
        /\ g[0] = 0
        /\ \A i \in 1 .. Len(more) : g[i] = g[i - 1] + Size[more[i]]
        /\ \A i \in 0 .. Len(more) : g[i] \in Nat
        /\ Bytes(more) = g[Len(more)]
  BY <1>1, BytesSteps, Zenon
<1> HIDE DEF n
<1> DEFINE S == {i \in Nat : f[i] = g[i]}
<1>4. 0 \in S
  BY <1>2, <1>3
<1>5. ASSUME NEW i \in Nat, i \in S, i < n
      PROVE  i + 1 \in S
  <2>1. i + 1 \in 1 .. n /\ i + 1 \in 1 .. Len(more) /\ (i + 1) - 1 = i
    BY <1>1, <1>5
  <2>2. f[i + 1] = f[i] + Size[ops[i + 1]] /\ g[i + 1] = g[i] + Size[more[i + 1]]
    BY <1>2, <1>3, <2>1, Zenon DEF n
  <2>3. f[i] = g[i] /\ more[i + 1] = ops[i + 1]
    BY <1>1, <1>5, <2>1, Zenon
  <2>4. i + 1 \in Nat /\ f[i + 1] = g[i + 1]
    <3>1. i + 1 \in Nat
      OBVIOUS
    <3>2. QED
      BY <2>2, <2>3, <3>1, Zenon
  <2>5. QED
    BY <2>4, Zenon
<1> HIDE DEF S
<1>6. \A i \in 0 .. n : i \in S
  BY <1>1, <1>4, <1>5, Induct, Zenon
<1>7. n \in 0 .. n /\ n + 1 \in 1 .. Len(more) /\ (n + 1) - 1 = n
  BY <1>1
<1>8. f[n] = g[n] /\ g[n + 1] = g[n] + Size[op]
  BY <1>1, <1>3, <1>6, <1>7, Zenon DEF S
<1>9. QED
  BY <1>1, <1>2, <1>3, <1>7, <1>8, Zenon DEF n, more

(* Nothing takes no bytes, and can be stored. *)
LEMMA EmptyEncodable == Bytes(<<>>) = 0 /\ Encodable(<<>>)
<1>1. <<>> \in Seq(Op) /\ Len(<<>>) = 0
  OBVIOUS
<1> DEFINE none == <<>>
<1> HIDE DEF none
<1>2. Bytes(none) = 0
  <2>1. none \in Seq(Op) /\ Len(none) = 0
    BY <1>1, Zenon DEF none
  <2>2. PICK total : total[0] = 0 /\ Bytes(none) = total[Len(none)]
    BY <2>1, BytesSteps, Zenon
  <2>3. QED
    BY <2>1, <2>2, Zenon
<1>3. QED
  BY <1>1, <1>2, MempoolAssumption DEF Encodable, none

(* What reconciliation keeps takes no more room than the candidates. *)
LEMMA ReconcileShrinks ==
  ASSUME NEW tip, NEW c \in Seq(Op), NEW included, Encodable(c)
  PROVE  Encodable(Reconcile(tip, c, included))
<1>1. PICK kept :
        /\ kept[0] = <<>>
        /\ \A i \in 1 .. Len(c) : kept[i] = Tried(tip, c, included, kept[i - 1], i)
        /\ Reconcile(tip, c, included) = kept[Len(c)]
  BY ReconcileSteps, SMTT(30), SMTT(60)
<1>2. PICK total :
        /\ total[0] = 0
        /\ \A i \in 1 .. Len(c) : total[i] = total[i - 1] + Size[c[i]]
        /\ \A i \in 0 .. Len(c) : total[i] \in Nat
        /\ Bytes(c) = total[Len(c)]
  BY BytesSteps, Zenon
<1> DEFINE n == Len(c)
           S == {i \in Nat : /\ kept[i] \in Seq(Op) /\ Bytes(kept[i]) \in Nat
                             /\ Bytes(kept[i]) <= total[i]}
<1>3. n \in Nat /\ \A i \in 1 .. n : c[i] \in Op
  OBVIOUS
<1>4. 0 \in S
  <2>1. <<>> \in Seq(Op)
    OBVIOUS
  <2>2. 0 \in Nat /\ 0 <= 0
    OBVIOUS
  <2>3. QED
    BY <1>1, <1>2, <2>1, <2>2, EmptyEncodable, Zenon
<1>5. ASSUME NEW i \in Nat, i \in S, i < n
      PROVE  i + 1 \in S
  <2> DEFINE before == kept[i]
             after == kept[i + 1]
             op == c[i + 1]
  <2>1. i + 1 \in 1 .. Len(c) /\ (i + 1) - 1 = i /\ i \in 0 .. Len(c) /\ op \in Op
    BY <1>3, <1>5
  <2>2. /\ after = Tried(tip, c, included, before, i + 1)
        /\ total[i + 1] = total[i] + Size[op] /\ total[i] \in Nat /\ Size[op] \in Nat
    BY <1>1, <1>2, <2>1, MempoolAssumption, Zenon
  <2>3. after = Append(before, op) \/ after = before
    BY <2>2, Zenon DEF Tried
  <2>4. before \in Seq(Op) /\ Bytes(before) \in Nat /\ Bytes(before) <= total[i]
    BY <1>5, Zenon
  <2>5. Bytes(Append(before, op)) = Bytes(before) + Size[op] /\ Append(before, op) \in Seq(Op)
    BY <2>1, <2>4, BytesOfAppend, SMTT(30), SMTT(60)
  <2> HIDE DEF before, after, op
  <2>6. ASSUME NEW x \in Nat, NEW y \in Nat, NEW z \in Nat, x <= y
        PROVE  x <= y + z /\ x + z <= y + z /\ x + z \in Nat
    BY <2>6
  <2>7. /\ Bytes(before) <= total[i + 1] /\ Bytes(before) + Size[op] <= total[i + 1]
        /\ Bytes(before) + Size[op] \in Nat
    <3>1. /\ Bytes(before) <= total[i] + Size[op]
          /\ Bytes(before) + Size[op] <= total[i] + Size[op]
          /\ Bytes(before) + Size[op] \in Nat
      BY <2>2, <2>4, <2>6, Zenon
    <3>2. QED
      BY <2>2, <3>1, Zenon
  <2>8. after \in Seq(Op) /\ Bytes(after) \in Nat /\ Bytes(after) <= total[i + 1]
    BY <2>3, <2>4, <2>5, <2>7, Zenon
  <2>9. i + 1 \in Nat
    OBVIOUS
  <2>10. QED
    BY <2>8, <2>9, Zenon DEF after
<1> HIDE DEF S, n
<1>6. n \in S
  <2>1. \A i \in 0 .. n : i \in S
    BY <1>3, <1>4, <1>5, Induct, Zenon
  <2>2. QED
    BY <1>3, <2>1
<1>7. /\ Bytes(Reconcile(tip, c, included)) \in Nat
      /\ Bytes(Reconcile(tip, c, included)) <= Bytes(c)
  BY <1>1, <1>2, <1>6, Zenon DEF S, n
<1>8. Bytes(c) \in Nat /\ Bytes(c) <= MaxBytes /\ MaxBytes \in Nat
  <2>1. n \in 0 .. n
    BY <1>3
  <2>2. QED
    BY <1>2, <2>1, MempoolAssumption, Zenon DEF n, Encodable
<1>9. Len(Reconcile(tip, c, included)) <= MaxPool
  BY ReconcileReplays, Zenon
<1>10. QED
  BY <1>7, <1>8, <1>9 DEF Encodable

-----------------------------------------------------------------------------
(* Operations in an order in which each follows what it needs. *)
NeedsFirst(done, ops) ==
  \A j \in 1 .. Len(ops) : \A m \in Needs[ops[j]] :
    m \in done \/ \E k \in 1 .. j - 1 : ops[k] = m

(* What a concatenation holds. *)
LEMMA RangeOfConcat ==
  ASSUME NEW S, NEW p \in Seq(S), NEW q \in Seq(S)
  PROVE  p \o q \in Seq(S) /\ Range(p \o q) = Range(p) \cup Range(q)
<1>1. /\ p \o q \in Seq(S) /\ Len(p) \in Nat /\ Len(q) \in Nat
      /\ DOMAIN p = 1 .. Len(p) /\ DOMAIN q = 1 .. Len(q)
      /\ DOMAIN (p \o q) = 1 .. Len(p) + Len(q)
      /\ \A i \in 1 .. Len(p) : (p \o q)[i] = p[i]
      /\ \A i \in 1 .. Len(q) : (p \o q)[Len(p) + i] = q[i]
  OBVIOUS
<1> DEFINE r == p \o q
           m == Len(p)
           n == Len(q)
<1> HIDE DEF r, m, n
<1>2. /\ m \in Nat /\ n \in Nat /\ DOMAIN p = 1 .. m /\ DOMAIN q = 1 .. n
      /\ DOMAIN r = 1 .. m + n
      /\ \A i \in 1 .. m : r[i] = p[i]
      /\ \A i \in 1 .. n : r[m + i] = q[i]
  BY <1>1, Zenon DEF r, m, n
<1>3. Range(r) \subseteq Range(p) \cup Range(q)
  <2> SUFFICES ASSUME NEW i \in 1 .. m + n PROVE r[i] \in Range(p) \cup Range(q)
    BY <1>2, Zenon DEF Range
  <2>1. CASE i \in 1 .. m
    BY <1>2, <2>1, Zenon DEF Range
  <2>2. CASE i \notin 1 .. m
    <3>1. i - m \in 1 .. n /\ m + (i - m) = i
      BY <1>2, <2>2
    <3>2. r[i] = q[i - m]
      BY <1>2, <3>1, Zenon
    <3>3. QED
      BY <1>2, <3>1, <3>2, Zenon DEF Range
  <2>3. QED
    BY <2>1, <2>2, Zenon
<1>4. Range(p) \subseteq Range(r) /\ Range(q) \subseteq Range(r)
  <2>1. \A i \in 1 .. m : i \in 1 .. m + n
    BY <1>2
  <2>2. \A i \in 1 .. n : m + i \in 1 .. m + n
    BY <1>2
  <2>3. QED
    BY <1>2, <2>1, <2>2, SMT, SMTT(30) DEF Range
<1>5. QED
  BY <1>1, <1>3, <1>4, Zenon DEF r

(* Operations that apply in order come after those they need. *)
LEMMA InOrderNeedsFirst ==
  ASSUME NEW done, NEW ops \in Seq(Op), AppliesInOrder(done, ops)
  PROVE  NeedsFirst(done, ops)
<1> SUFFICES ASSUME NEW j \in 1 .. Len(ops), NEW m \in Needs[ops[j]], m \notin done
             PROVE  \E k \in 1 .. j - 1 : ops[k] = m
  BY Zenon DEF NeedsFirst
<1> DEFINE before == SubSeq(ops, 1, j - 1)
<1>1. m \in Range(before)
  BY Zenon DEF AppliesInOrder, Applies
<1>2. DOMAIN before = 1 .. j - 1 /\ \A k \in 1 .. j - 1 : before[k] = ops[k]
  OBVIOUS
<1> HIDE DEF before
<1>3. QED
  BY <1>1, <1>2, Zenon DEF Range

(* They still do when more is done before, *)
LEMMA NeedsFirstMore ==
  ASSUME NEW done, NEW more, done \subseteq more, NEW ops, NeedsFirst(done, ops)
  PROVE  NeedsFirst(more, ops)
BY Zenon DEF NeedsFirst

(* and one after the other. *)
LEMMA NeedsFirstConcat ==
  ASSUME NEW done, NEW p \in Seq(Op), NEW q \in Seq(Op),
         NeedsFirst(done, p), NeedsFirst(done \cup Range(p), q)
  PROVE  NeedsFirst(done, p \o q)
<1> DEFINE n == Len(p)
           r == p \o q
<1>1. /\ n \in Nat /\ Len(q) \in Nat /\ Len(r) = n + Len(q) /\ DOMAIN p = 1 .. n
      /\ \A i \in 1 .. n : r[i] = p[i]
      /\ \A i \in 1 .. Len(q) : r[n + i] = q[i]
  OBVIOUS
<1> HIDE DEF n, r
<1> SUFFICES ASSUME NEW j \in 1 .. Len(r), NEW m \in Needs[r[j]], m \notin done
             PROVE  \E k \in 1 .. j - 1 : r[k] = m
  BY Zenon DEF NeedsFirst, r
<1>2. CASE j \in 1 .. n
  <2>1. m \in Needs[p[j]]
    BY <1>1, <1>2, Zenon
  <2>2. PICK k \in 1 .. j - 1 : p[k] = m
    BY <1>2, <2>1, Zenon DEF NeedsFirst, n
  <2>3. k \in 1 .. n
    BY <1>1, <1>2, SMT, SMTT(30)
  <2>4. QED
    BY <1>1, <2>2, <2>3, Zenon
<1>3. CASE j \notin 1 .. n
  <2>1. j - n \in 1 .. Len(q) /\ n + (j - n) = j
    BY <1>1, <1>3
  <2>2. m \in Needs[q[j - n]]
    BY <1>1, <2>1, Zenon
  <2>3. m \in Range(p) \/ \E k \in 1 .. (j - n) - 1 : q[k] = m
    BY <2>1, <2>2, Zenon DEF NeedsFirst
  <2>4. CASE m \in Range(p)
    <3>1. PICK k \in 1 .. n : p[k] = m
      BY <1>1, <2>4, Zenon DEF Range
    <3>2. k \in 1 .. j - 1
      BY <1>1, <1>3, SMT, SMTT(30)
    <3>3. QED
      BY <1>1, <3>1, <3>2, Zenon
  <2>5. ASSUME NEW k \in 1 .. (j - n) - 1, q[k] = m
        PROVE  \E i \in 1 .. j - 1 : r[i] = m
    <3>1. n + k \in 1 .. j - 1 /\ k \in 1 .. Len(q)
      BY <1>1, <2>1
    <3>2. QED
      BY <1>1, <2>5, <3>1, Zenon
  <2>6. QED
    BY <2>3, <2>4, <2>5, Zenon
<1>4. QED
  BY <1>2, <1>3, Zenon

-----------------------------------------------------------------------------
(* What a chain has applied grows by the operations of each block. *)
LEMMA DoneGrows ==
  ASSUME NEW t \in Block, NEW h \in 1 .. HeightOf(t)
  PROVE  LET x == HeaderAt(t, h)
             y == HeaderAt(t, h - 1)
         IN  /\ x \in Block /\ y \in Block /\ x # Genesis /\ Parent(x) = y
             /\ Done[x] = Done[y] \cup Range(OpsOf[x])
<1> DEFINE x == HeaderAt(t, h)
           y == HeaderAt(t, h - 1)
<1>1. HeightOf(t) \in Nat /\ h \in 0 .. HeightOf(t) /\ h - 1 \in 0 .. HeightOf(t)
  BY OwnLine
<1>2. x \in Block /\ HeightOf(x) = h /\ OnLine(x, t)
  BY <1>1, AtHeight DEF OnLine
<1>3. y \in Block /\ HeightOf(y) = h - 1 /\ OnLine(y, t)
  <2> DEFINE g == h - 1
  <2> HIDE DEF g
  <2>1. g \in 0 .. HeightOf(t)
    BY <1>1, Zenon DEF g
  <2>2. HeaderAt(t, g) \in Block /\ HeightOf(HeaderAt(t, g)) = g
    BY <2>1, AtHeight, Zenon
  <2>3. QED
    BY <2>1, <2>2, SMTT(30), SMTT(60) DEF g, OnLine
<1>4. x = Line[t][h + 1] /\ y = Line[t][h]
  BY DEF HeaderAt
<1> HIDE DEF x, y
<1>5. \A i \in 1 .. h + 1 : Line[x][i] = Line[t][i]
  BY <1>2, AncestorLine, ZenonT(40)
<1>6. \A i \in 1 .. h : Line[y][i] = Line[t][i]
  BY <1>3, AncestorLine, SMTT(30), SMTT(60)
<1>7. x # Genesis /\ Parent(x) = y
  <2>1. HeightOf(Genesis) = 0 /\ Len(Line[x]) = h + 1
    BY <1>2, GenesisHeight, OwnLine, Zenon
  <2>2. QED
    BY <1>2, <1>4, <1>5, <2>1, SMTT(30), SMTT(60) DEF Parent
<1>8. Range(Line[x]) = Range(Line[y]) \cup {x}
  <2>1. /\ Range(Line[x]) = {Line[x][i] : i \in 1 .. h + 1}
        /\ Range(Line[y]) = {Line[y][i] : i \in 1 .. h}
    <3>1. (h - 1) + 1 = h
      OBVIOUS
    <3>2. QED
      BY <1>2, <1>3, <3>1, LineRange, Zenon
  <2>2. Line[x][h + 1] = x
    BY <1>2, OwnLine, Zenon
  <2>3. \A i \in 1 .. h : Line[x][i] = Line[y][i]
    BY <1>5, <1>6, SMTT(30)
  <2>4. 1 .. h + 1 = (1 .. h) \cup {h + 1}
    OBVIOUS
  <2>5. QED
    BY <2>1, <2>2, <2>3, <2>4, SMTT(30), SMTT(60)
<1>9. Done[x] = Done[y] \cup Range(OpsOf[x])
  <2>1. /\ Done[x] = UNION {Range(OpsOf[b]) : b \in Range(Line[x])}
        /\ Done[y] = UNION {Range(OpsOf[b]) : b \in Range(Line[y])}
    BY <1>2, <1>3, Zenon DEF Done
  <2>2. QED
    BY <1>8, <2>1, Zenon
<1>10. QED
  BY <1>2, <1>3, <1>7, <1>9, ZenonT(40) DEF x, y

(* A chain has applied at least what a part of it has. *)
LEMMA DoneOfAncestor ==
  ASSUME NEW t \in Block, NEW a \in Block, OnLine(a, t)
  PROVE  Done[a] \subseteq Done[t]
<1>1. Range(Line[a]) \subseteq Range(Line[t])
  <2>1. /\ HeightOf(a) \in Nat /\ HeightOf(t) \in Nat /\ HeightOf(a) <= HeightOf(t)
        /\ \A i \in 1 .. HeightOf(a) + 1 : Line[a][i] = Line[t][i]
    BY AncestorLine, OwnLine, Zenon
  <2>2. 1 .. HeightOf(a) + 1 \subseteq 1 .. HeightOf(t) + 1
    BY <2>1
  <2>3. /\ Range(Line[a]) = {Line[a][i] : i \in 1 .. HeightOf(a) + 1}
        /\ Range(Line[t]) = {Line[t][i] : i \in 1 .. HeightOf(t) + 1}
    BY LineRange, Zenon
  <2>4. QED
    BY <2>1, <2>2, <2>3, Zenon
<1>2. /\ Done[t] = UNION {Range(OpsOf[b]) : b \in Range(Line[t])}
      /\ Done[a] = UNION {Range(OpsOf[b]) : b \in Range(Line[a])}
  BY Zenon DEF Done
<1>3. QED
  BY <1>1, <1>2, Zenon

(* The steps of OpsAbove are well defined. *)
Joined(before, t, a, i) == before \o OpsOf[HeaderAt(t, HeightOf(a) + i)]

(* The operations of the first blocks of a branch, as OpsAbove collects     *)
(* them.                                                                    *)
IsUpTo(f, t, a, n) ==
  f = [i \in 0 .. n |-> IF i = 0 THEN <<>> ELSE Joined(f[i - 1], t, a, i)]

(* There is such a function for every length. *)
LEMMA UpToExists ==
  ASSUME NEW t, NEW a, NEW n \in Nat
  PROVE  \E f : IsUpTo(f, t, a, n)
<1> DEFINE S == {k \in Nat : \E f : f = [i \in 0 .. k |->
                    IF i = 0 THEN <<>> ELSE Joined(f[i - 1], t, a, i)]}
<1>1. 0 \in S
  <2> DEFINE f == [i \in 0 .. 0 |-> <<>>]
  <2>1. f = [i \in 0 .. 0 |-> IF i = 0 THEN <<>> ELSE Joined(f[i - 1], t, a, i)]
    OBVIOUS
  <2>2. QED
    BY <2>1, Zenon
<1>2. ASSUME NEW k \in Nat, k \in S
      PROVE  k + 1 \in S
  <2>1. PICK f : f = [i \in 0 .. k |-> IF i = 0 THEN <<>> ELSE Joined(f[i - 1], t, a, i)]
    BY <1>2, Zenon
  <2> DEFINE g == [i \in 0 .. k + 1 |-> IF i = k + 1 THEN Joined(f[k], t, a, k + 1) ELSE f[i]]
  <2>2. ASSUME NEW i \in 0 .. k + 1
        PROVE  g[i] = IF i = 0 THEN <<>> ELSE Joined(g[i - 1], t, a, i)
    <3>1. CASE i = k + 1
      BY <3>1
    <3>2. CASE i \in 0 .. k
      <4>1. f[i] = IF i = 0 THEN <<>> ELSE Joined(f[i - 1], t, a, i)
        BY <2>1, <3>2, Zenon
      <4>2. i # 0 => g[i - 1] = f[i - 1]
        BY <3>2
      <4>3. QED
        BY <3>2, <4>1, <4>2
    <3>3. QED
      BY <3>1, <3>2, SMTT(30), SMTT(60)
  <2>3. g = [i \in 0 .. k + 1 |-> IF i = 0 THEN <<>> ELSE Joined(g[i - 1], t, a, i)]
    BY <2>2, Zenon
  <2> HIDE DEF g
  <2>4. QED
    BY <2>3
<1> HIDE DEF S
<1>3. n \in S
  BY <1>1, <1>2, Induct
<1>4. QED
  BY <1>3, Zenon DEF S, IsUpTo

(* OpsAbove is its last value. *)
LEMMA OpsAboveSteps ==
  ASSUME NEW t \in Block, NEW a \in Block, OnLine(a, t)
  PROVE  \E upTo :
           /\ upTo[0] = <<>>
           /\ \A i \in 1 .. HeightOf(t) - HeightOf(a) :
                upTo[i] = upTo[i - 1] \o OpsOf[HeaderAt(t, HeightOf(a) + i)]
           /\ OpsAbove(t, a) = upTo[HeightOf(t) - HeightOf(a)]
<1> DEFINE n == HeightOf(t) - HeightOf(a)
           upTo == CHOOSE f : f = [i \in 0 .. n |->
             IF i = 0 THEN <<>> ELSE Joined(f[i - 1], t, a, i)]
<1>1. n \in Nat
  BY OwnLine DEF OnLine
<1>2. OpsAbove(t, a) = upTo[n]
  BY Zenon DEF OpsAbove, Joined
<1> HIDE DEF n
<1>3. \E f : f = [i \in 0 .. n |-> IF i = 0 THEN <<>> ELSE Joined(f[i - 1], t, a, i)]
  <2>1. \E f : IsUpTo(f, t, a, n)
    BY <1>1, UpToExists, Zenon
  <2>2. QED
    BY <2>1, Zenon DEF IsUpTo
<1>4. upTo = [i \in 0 .. n |-> IF i = 0 THEN <<>> ELSE Joined(upTo[i - 1], t, a, i)]
  BY <1>3, Zenon
<1> HIDE DEF upTo
<1>5. /\ upTo[0] = <<>>
      /\ \A i \in 1 .. n : upTo[i] = Joined(upTo[i - 1], t, a, i)
  BY <1>1, <1>4
<1>6. QED
  BY <1>2, <1>5, Zenon DEF n, Joined

(* The operations above an ancestor: those the chain has applied since, each *)
(* after what it needs.                                                      *)
LEMMA OpsAboveFacts ==
  ASSUME NEW t \in Block, NEW a \in Block, OnLine(a, t)
  PROVE  /\ OpsAbove(t, a) \in Seq(Op)
         /\ Done[t] = Done[a] \cup Range(OpsAbove(t, a))
         /\ ValidChain(t) => NeedsFirst(Done[a], OpsAbove(t, a))
<1> DEFINE h == HeightOf(a)
           n == HeightOf(t) - HeightOf(a)
<1>1. h \in Nat /\ HeightOf(t) \in Nat /\ n \in Nat /\ h + n = HeightOf(t)
  BY OwnLine DEF OnLine
<1>2. PICK upTo :
        /\ upTo[0] = <<>>
        /\ \A i \in 1 .. n : upTo[i] = upTo[i - 1] \o OpsOf[HeaderAt(t, h + i)]
        /\ OpsAbove(t, a) = upTo[n]
  BY OpsAboveSteps, Zenon
<1> HIDE DEF h, n
<1> DEFINE S == {i \in Nat : /\ upTo[i] \in Seq(Op)
                             /\ Done[HeaderAt(t, h + i)] = Done[a] \cup Range(upTo[i])
                             /\ ValidChain(t) => NeedsFirst(Done[a], upTo[i])}
<1>3. 0 \in S
  <2>1. HeaderAt(t, h + 0) = a
    BY <1>1 DEF OnLine, h
  <2>2. Range(<<>>) = {} /\ NeedsFirst(Done[a], <<>>) /\ <<>> \in Seq(Op)
    BY DEF Range, NeedsFirst
  <2>3. QED
    BY <1>2, <2>1, <2>2, Zenon
<1>4. ASSUME NEW i \in Nat, i \in S, i < n
      PROVE  i + 1 \in S
  <2> DEFINE g == h + (i + 1)
             x == HeaderAt(t, g)
             y == HeaderAt(t, h + i)
             before == upTo[i]
             ops == OpsOf[x]
  <2>1. g \in 1 .. HeightOf(t) /\ g - 1 = h + i
    BY <1>1, <1>4
  <2>2. upTo[i + 1] = before \o ops
    <3>1. i + 1 \in 1 .. n /\ (i + 1) - 1 = i
      BY <1>1, <1>4
    <3>2. QED
      BY <1>2, <3>1, Zenon
  <2>3. /\ before \in Seq(Op) /\ Done[y] = Done[a] \cup Range(before)
        /\ ValidChain(t) => NeedsFirst(Done[a], before)
    BY <1>4, Zenon
  <2> HIDE DEF g, before
  <2>4. /\ x \in Block /\ y \in Block /\ x # Genesis /\ Parent(x) = y
        /\ Done[x] = Done[y] \cup Range(OpsOf[x])
    BY <2>1, DoneGrows
  <2>5. ops \in Seq(Op)
    BY <2>4, MempoolAssumption, Zenon
  <2>6. ValidChain(t) => NeedsFirst(Done[y], ops)
    <3> SUFFICES ASSUME ValidChain(t) PROVE NeedsFirst(Done[y], ops)
      BY Zenon
    <3>1. g + 1 \in 1 .. HeightOf(t) + 1 /\ x = Line[t][g + 1]
      BY <1>1, <2>1, SMTT(30) DEF HeaderAt
    <3>2. Executes(x)
      BY <3>1, ValidByPosition, Zenon
    <3>3. AppliesInOrder(Done[y], ops)
      BY <2>4, <3>2, Zenon DEF Executes, Executable
    <3>4. QED
      BY <2>5, <3>3, InOrderNeedsFirst, Zenon
  <2> HIDE DEF ops
  <2>7. before \o ops \in Seq(Op) /\ Range(before \o ops) = Range(before) \cup Range(ops)
    BY <2>3, <2>5, RangeOfConcat
  <2>8. ValidChain(t) => NeedsFirst(Done[a], before \o ops)
    BY <2>3, <2>5, <2>6, NeedsFirstConcat, Zenon
  <2>9. Done[x] = Done[a] \cup Range(before \o ops)
    BY <2>3, <2>4, <2>7, Zenon DEF ops
  <2> DEFINE r == before \o ops
  <2>10. /\ upTo[i + 1] = r /\ r \in Seq(Op) /\ Done[HeaderAt(t, h + (i + 1))] = Done[a] \cup Range(r)
         /\ ValidChain(t) => NeedsFirst(Done[a], r)
    BY <2>2, <2>7, <2>8, <2>9, ZenonT(40) DEF g
  <2> HIDE DEF r
  <2>11. i + 1 \in Nat
    OBVIOUS
  <2>12. QED
    BY <2>10, <2>11, Zenon
<1> HIDE DEF S
<1>5. n \in S
  <2>1. \A i \in 0 .. n : i \in S
    BY <1>1, <1>3, <1>4, Induct, ZenonT(40)
  <2>2. QED
    BY <1>1, <2>1
<1>6. HeaderAt(t, h + n) = t
  BY <1>1, OwnLine, Zenon
<1>7. QED
  BY <1>2, <1>5, <1>6, Zenon DEF S

(* A candidate that is neither kept nor in the new chain pays too little,    *)
(* found the pool full, or cannot follow what was kept: nothing that is kept *)
(* after it creates what it needs.                                           *)
Accounted(tip, included, kept, op) ==
  \/ op \in included \cup LowFee \cup Range(kept)
  \/ Len(kept) = MaxPool
  \/ ~ Applies(Done[tip] \cup Range(kept), op)

(* Each candidate is kept, or there is a reason it is not: reconciliation   *)
(* drops no operation that still applies.                                   *)
LEMMA ReconcileAccounts ==
  ASSUME NEW tip, NEW c \in Seq(Op), NEW included, NeedsFirst(Done[tip], c)
  PROVE  \A op \in Range(c) : Accounted(tip, included, Reconcile(tip, c, included), op)
<1>1. PICK kept :
        /\ kept[0] = <<>>
        /\ \A i \in 1 .. Len(c) : kept[i] = Tried(tip, c, included, kept[i - 1], i)
        /\ Reconcile(tip, c, included) = kept[Len(c)]
  BY ReconcileSteps, SMTT(30), SMTT(60)
<1> DEFINE n == Len(c)
           S == {i \in Nat : /\ kept[i] \in Seq(Op) /\ Len(kept[i]) <= MaxPool
                             /\ Replays(tip, kept[i])
                             /\ \A j \in 1 .. i : Accounted(tip, included, kept[i], c[j])}
<1>2. n \in Nat /\ DOMAIN c = 1 .. n
  OBVIOUS
<1>3. 0 \in S
  <2>1. <<>> \in Seq(Op) /\ Len(<<>>) <= MaxPool /\ Replays(tip, <<>>)
    BY EmptyReplays, MempoolAssumption, SMTT(30)
  <2>2. 1 .. 0 = {} /\ 0 \in Nat
    OBVIOUS
  <2>3. QED
    BY <1>1, <2>1, <2>2, Zenon
<1>4. ASSUME NEW i \in Nat, i \in S, i < n
      PROVE  i + 1 \in S
  <2> DEFINE before == kept[i]
             after == kept[i + 1]
             op == c[i + 1]
             done == Done[tip]
  <2>1. i + 1 \in 1 .. Len(c) /\ (i + 1) - 1 = i /\ op \in Op
    BY <1>2, <1>4
  <2>2. after = Tried(tip, c, included, before, i + 1)
    BY <1>1, <2>1, Zenon
  <2>3. after \in Seq(Op) /\ Len(after) <= MaxPool /\ Replays(tip, after)
    BY <1>4, <2>1, <2>2, TriedKeeps, Zenon
  <2>4. /\ before \in Seq(Op) /\ Len(before) <= MaxPool
        /\ \A j \in 1 .. i : Accounted(tip, included, before, c[j])
    BY <1>4, Zenon
  <2>5. \A o : o \in Range(SubSeq(c, 1, i)) <=> \E k \in 1 .. i : c[k] = o
    <3> DEFINE seen == SubSeq(c, 1, i)
    <3>1. DOMAIN seen = 1 .. i /\ \A k \in 1 .. i : seen[k] = c[k]
      BY <2>1
    <3> HIDE DEF seen
    <3>2. \A o : o \in Range(seen) <=> \E k \in 1 .. i : c[k] = o
      BY <3>1, Zenon DEF Range
    <3>3. QED
      BY <3>2, Zenon DEF seen
  <2>6. \A j \in 1 .. i + 1 : \A m \in Needs[c[j]] :
          m \in done \/ \E k \in 1 .. j - 1 : c[k] = m
    BY <1>2, <1>4 DEF NeedsFirst
  <2> DEFINE taken == /\ Len(before) < MaxPool
                      /\ op \notin included \cup Range(SubSeq(c, 1, i)) \cup LowFee
                      /\ Applies(done \cup Range(before), op)
  <2>7. after = IF taken THEN Append(before, op) ELSE before
    BY <2>1, <2>2, Zenon DEF Tried
  <2> HIDE DEF before, after, op, done
  <2>8. CASE ~ taken
    <3>1. after = before
      BY <2>7, <2>8, Zenon
    <3>2. Accounted(tip, included, before, op)
      <4>1. CASE op \in Range(SubSeq(c, 1, i))
        BY <2>4, <2>5, <4>1, ZenonT(40)
      <4>2. CASE op \notin Range(SubSeq(c, 1, i))
        <5>1. \/ Len(before) = MaxPool \/ op \in included \/ op \in LowFee
              \/ ~ Applies(done \cup Range(before), op)
          BY <2>4, <2>8, <4>2, MempoolAssumption, SMTT(30), SMTT(60)
        <5>2. QED
          BY <5>1, Zenon DEF Accounted, done
      <4>3. QED
        BY <4>1, <4>2, Zenon
    <3>3. \A j \in 1 .. i + 1 : j \in 1 .. i \/ c[j] = op
      BY DEF op
    <3>4. \A j \in 1 .. i + 1 : Accounted(tip, included, after, c[j])
      BY <2>4, <3>1, <3>2, <3>3, ZenonT(40)
    <3>5. QED
      BY <2>3, <3>4 DEF after
  <2>9. CASE taken
    <3>1. after = Append(before, op) /\ Len(before) < MaxPool
      BY <2>7, <2>9, ZenonT(40)
    <3>2. Range(after) = Range(before) \cup {op}
      BY <2>1, <2>4, <3>1, RangeOfAppend, SMTT(30), SMTT(60)
    <3>3. \A k \in 1 .. i : c[k] # op
      BY <2>5, <2>9, Zenon
    <3> HIDE DEF taken
    <3>4. ASSUME NEW j \in 1 .. i
          PROVE  Accounted(tip, included, after, c[j])
      <4>1. Accounted(tip, included, before, c[j])
        BY <2>4, Zenon
      <4>2. CASE c[j] \in included \cup LowFee \cup Range(before)
        BY <3>2, <4>2, ZenonT(40) DEF Accounted
      <4>3. CASE Len(before) = MaxPool
        BY <2>4, <3>1, <4>3, MempoolAssumption, SMTT(30), SMTT(60)
      <4>4. CASE ~ Applies(done \cup Range(before), c[j])
        <5>1. \A m \in Needs[c[j]] : m \in done \cup Range(after) => m \in done \cup Range(before)
          <6> SUFFICES ASSUME NEW m \in Needs[c[j]], m \in Range(after), m \notin done
                       PROVE  m \in Range(before)
            BY Zenon
          <6>1. PICK k \in 1 .. j - 1 : c[k] = m
            BY <2>6
          <6>2. m # op
            BY <3>3, <6>1
          <6>3. QED
            BY <3>2, <6>2, Zenon
        <5>2. ~ Applies(done \cup Range(after), c[j])
          BY <3>2, <4>4, <5>1, Zenon DEF Applies
        <5>3. QED
          BY <5>2, Zenon DEF Accounted, done
      <4>5. QED
        BY <4>1, <4>2, <4>3, <4>4, ZenonT(40) DEF Accounted, done
    <3>5. Accounted(tip, included, after, op)
      BY <3>2, Zenon DEF Accounted
    <3>6. \A j \in 1 .. i + 1 : j \in 1 .. i \/ c[j] = op
      BY DEF op
    <3>7. \A j \in 1 .. i + 1 : Accounted(tip, included, after, c[j])
      BY <3>4, <3>5, <3>6, Zenon
    <3>8. QED
      BY <2>3, <3>7 DEF after
  <2>10. QED
    BY <2>8, <2>9, Zenon
<1> HIDE DEF S, n
<1>5. n \in S
  <2>1. \A i \in 0 .. n : i \in S
    BY <1>2, <1>3, <1>4, Induct, ZenonT(40)
  <2>2. QED
    BY <1>2, <2>1, SMTT(30)
<1>6. \A j \in 1 .. n : Accounted(tip, included, kept[n], c[j])
  BY <1>5, Zenon DEF S
<1>7. QED
  BY <1>1, <1>2, <1>6, ZenonT(40) DEF n, Range

-----------------------------------------------------------------------------
(* load_pending_pool returns a copy that is what it says. *)
LEMMA LoadedOK ==
  ASSUME NEW entries \in Seq(Op), pending # None => PendingOK(pending)
  PROVE  PendingOK(LoadPending(entries)) /\ LoadPending(entries).entries = entries
BY Zenon DEF LoadPending, PendingOK, Decoded

(* An appended block. *)
LEMMA AppendPools ==
  ASSUME IndInv, PoolInv, Unlocked, NEW b \in Block \ {Genesis}, Parent(b) = cache.tip,
         CommitAppend(b)
  PROVE  PoolInv' /\ NothingLost
<1>1. cache.tip = chain /\ chain \in Block
  BY Zenon DEF IndInv, ChainInv, CacheInv
<1>2. OnLine(chain, b) /\ HeightOf(b) \in Nat /\ HeightOf(b) = HeightOf(chain) + 1
  BY <1>1, ChildBetter, OwnLine, Zenon
<1> DEFINE included == Range(OpsOf[b])
<1>3. /\ chain' = b /\ pool' = Reconcile(b, pool, included) /\ Encodable(pool')
      /\ pending' = LoadPending(pool)
  BY Zenon DEF CommitAppend
<1>4. Done[chain] \subseteq Done[b]
  BY <1>1, <1>2, DoneOfAncestor, ZenonT(40)
<1>5. included \subseteq Done[b]
  <2>1. HeightOf(b) \in 1 .. HeightOf(b)
    BY <1>1, <1>2, OwnLine, SMTT(30), SMTT(60)
  <2>2. HeaderAt(b, HeightOf(b)) = b
    BY OwnLine, Zenon
  <2>3. QED
    BY <2>1, <2>2, DoneGrows, SMTT(30), SMTT(60)
<1> HIDE DEF included
<1>6. pool \in Seq(Op) /\ AppliesInOrder(Done[chain], pool)
  BY Zenon DEF PoolInv, Replays
<1>7. PoolInv'
  <2>1. pool' \in Seq(Op) /\ Encodable(pool') /\ Replays(b, pool')
    BY <1>3, <1>6, ReconcileReplays, Zenon
  <2>2. PendingOK(pending')
    BY <1>3, <1>6, LoadedOK, Zenon DEF PoolInv
  <2>3. QED
    BY <1>3, <2>1, <2>2, Zenon DEF PoolInv, PendingOK
<1>8. NothingLost
  <2>1. NeedsFirst(Done[b], pool)
    BY <1>4, <1>6, InOrderNeedsFirst, NeedsFirstMore, Zenon
  <2>2. \A op \in Range(pool) : Accounted(b, included, pool', op)
    BY <1>3, <1>6, <2>1, ReconcileAccounts, Zenon
  <2>3. QED
    BY <1>3, <1>4, <1>5, <2>2, Zenon DEF NothingLost, Accounted
<1>9. QED
  BY <1>7, <1>8, Zenon

(* A committed branch: what was in the blocks that are left comes before     *)
(* what was pending on top of them.                                          *)
LEMMA BranchPools ==
  ASSUME IndInv, PoolInv, Unlocked, NEW branch, BranchOK(branch), Attaches(branch),
         NEW extra, CommitBranch(branch, extra)
  PROVE  PoolInv' /\ NothingLost
<1> DEFINE a == branch.ancestor
           t == branch.tip
           left == OpsAbove(chain, a)
           included == Range(OpsAbove(t, a))
           c == left \o pool
<1>1. cache.tip = chain /\ chain \in Block /\ ValidChain(chain)
  BY Zenon DEF IndInv, ChainInv, CacheInv
<1>2. a \in Block /\ t \in Block /\ OnLine(a, t) /\ OnLine(a, chain)
  BY <1>1, Zenon DEF BranchOK, Branches, Attaches
<1>3. /\ chain' = t /\ pool' = Reconcile(t, c, included) /\ Encodable(pool')
      /\ pending' = LoadPending(pool)
  BY <1>1, Zenon DEF CommitBranch, Requeued, Candidates
<1>4. /\ left \in Seq(Op) /\ Done[chain] = Done[a] \cup Range(left)
      /\ NeedsFirst(Done[a], left)
  BY <1>1, <1>2, OpsAboveFacts, ZenonT(40)
<1>5. included \subseteq Done[t] /\ Done[a] \subseteq Done[t]
  BY <1>2, OpsAboveFacts, SMTT(30), SMTT(60)
<1> HIDE DEF left, included
<1>6. pool \in Seq(Op) /\ AppliesInOrder(Done[chain], pool)
  BY Zenon DEF PoolInv, Replays
<1>7. c \in Seq(Op) /\ Range(c) = Range(left) \cup Range(pool)
  BY <1>4, <1>6, RangeOfConcat, SMTT(30), SMTT(60)
<1>8. NeedsFirst(Done[t], c)
  <2>1. NeedsFirst(Done[a] \cup Range(left), pool)
    BY <1>4, <1>6, InOrderNeedsFirst, Zenon
  <2>2. NeedsFirst(Done[a], c)
    BY <1>4, <1>6, <2>1, NeedsFirstConcat, ZenonT(40)
  <2> HIDE DEF c
  <2>3. QED
    BY <1>5, <2>2, NeedsFirstMore, Zenon
<1> HIDE DEF c
<1>9. PoolInv'
  <2>1. pool' \in Seq(Op) /\ Encodable(pool') /\ Replays(t, pool')
    BY <1>3, <1>7, ReconcileReplays, Zenon
  <2>2. PendingOK(pending')
    BY <1>3, <1>6, LoadedOK, Zenon DEF PoolInv
  <2>3. QED
    BY <1>3, <2>1, <2>2, Zenon DEF PoolInv, PendingOK
<1>10. NothingLost
  <2>1. \A op \in Range(c) : Accounted(t, included, pool', op)
    BY <1>3, <1>7, <1>8, ReconcileAccounts, Zenon
  <2>2. Range(pool) \cup (Done[chain] \ Done[t]) \subseteq Range(c)
    BY <1>4, <1>5, <1>7, Zenon
  <2>3. QED
    BY <1>3, <1>5, <2>1, <2>2, Zenon DEF NothingLost, Accounted
<1>11. QED
  BY <1>9, <1>10, Zenon

(* recover_mempool *)
LEMMA RecoverPoolPools ==
  ASSUME IndInv, PoolInv, RecoverPool
  PROVE  PoolInv'
<1>1. /\ chain' = chain /\ pool' = Reconcile(chain, pool, {}) /\ Encodable(pool')
      /\ pending' = LoadPending(pool)
  BY Zenon DEF RecoverPool, IndInv, CacheInv, LockOK
<1>2. pool \in Seq(Op)
  BY Zenon DEF PoolInv
<1>3. pool' \in Seq(Op) /\ Encodable(pool') /\ Replays(chain, pool')
  BY <1>1, <1>2, ReconcileReplays, Zenon
<1>4. PendingOK(pending')
  BY <1>1, <1>2, LoadedOK, Zenon DEF PoolInv
<1>5. QED
  BY <1>1, <1>3, <1>4, Zenon DEF PoolInv, PendingOK

(* The state insertion works from, cached or replayed. *)
LEMMA PoolStateIs ==
  ASSUME IndInv, PoolInv
  PROVE  \A d : d \in PoolState(chain, LoadPending(pool)) <=> d = Done[chain] \cup Range(pool)
<1> DEFINE current == LoadPending(pool)
<1>1. PendingOK(current) /\ current.entries = pool
  BY LoadedOK, Zenon DEF PoolInv
<1>2. Replays(chain, pool)
  BY Zenon DEF PoolInv
<1> HIDE DEF current
<1>3. CASE current.validated # None /\ current.validated.anchor = chain
  <2>1. current.validated.done = Done[chain] \cup Range(pool)
    BY <1>1, <1>3, Zenon DEF PendingOK
  <2>2. PoolState(chain, current) = {current.validated.done}
    BY <1>3, Zenon DEF PoolState
  <2>3. QED
    BY <2>1, <2>2, Zenon DEF current
<1>4. CASE ~ (current.validated # None /\ current.validated.anchor = chain)
  <2>1. PoolState(chain, current) =
          {d \in {Done[chain] \cup Range(pool)} : Replays(chain, pool)}
    BY <1>1, <1>4, Zenon DEF PoolState
  <2>2. QED
    BY <1>2, <2>1, Zenon DEF current
<1>5. QED
  BY <1>3, <1>4, Zenon

(* insert_pending_operation accepts. *)
LEMMA AcceptedPools ==
  ASSUME IndInv, PoolInv, NEW op \in Op, InsertAccepted(chain, op), UNCHANGED chain
  PROVE  PoolInv'
<1> DEFINE current == LoadPending(pool)
           d == Done[chain] \cup Range(pool)
           more == Append(pool, op)
<1>1. current.entries = pool /\ pool \in Seq(Op) /\ Replays(chain, pool)
  BY LoadedOK, Zenon DEF PoolInv
<1>2. op \notin LowFee /\ \E next \in Extended(chain, current, op) :
        pool' = next.entries /\ pending' = next
  BY Zenon DEF InsertAccepted
<1> HIDE DEF current
<1>3. /\ Encodable(more) /\ Applies(d, op) /\ pool' = more
      /\ pending' = [entries |-> more, validated |-> [anchor |-> chain, done |-> d \cup {op}]]
  <2>1. PICK next \in Extended(chain, current, op) : pool' = next.entries /\ pending' = next
    BY <1>2, Zenon
  <2>2. PICK e \in {e \in PoolState(chain, current) :
                   Encodable(Append(current.entries, op)) /\ Applies(e, op)} :
          next = [entries |-> Append(current.entries, op),
                  validated |-> [anchor |-> chain, done |-> e \cup {op}]]
    BY Zenon DEF Extended
  <2>3. e = d /\ Encodable(more) /\ Applies(e, op)
    BY <1>1, <2>2, PoolStateIs, ZenonT(40) DEF current
  <2>4. QED
    BY <1>1, <2>1, <2>2, <2>3, ZenonT(40)
<1>4. more \in Seq(Op) /\ Range(more) = Range(pool) \cup {op}
  BY <1>1, RangeOfAppend, SMTT(30), SMTT(60)
<1>5. Replays(chain, more)
  BY <1>1, <1>2, <1>3, ReplaysOneMore, ZenonT(40)
<1>6. PendingOK(pending')
  <2>1. /\ pending'.entries = more /\ pending'.validated.anchor = chain
        /\ pending'.validated.done = d \cup {op}
    BY <1>3, Zenon
  <2>2. d \cup {op} = Done[chain] \cup Range(more)
    BY <1>4, Zenon
  <2> HIDE DEF d, more
  <2>3. QED
    BY <1>4, <1>5, <2>1, <2>2, ZenonT(40) DEF PendingOK
<1>7. QED
  BY <1>3, <1>4, <1>5, <1>6, ZenonT(40) DEF PoolInv, PendingOK

(* ... or refuses, and would refuse again. *)
LEMMA RefusedPools ==
  ASSUME IndInv, PoolInv, RefusalInv, NEW op \in Op, InsertRefused(chain, op), UNCHANGED chain
  PROVE  PoolInv' /\ RefusalInv'
<1> DEFINE current == LoadPending(pool)
           key == RefusalKey(chain, pool, op)
<1>1. /\ PendingOK(current) /\ current.entries = pool
      /\ pool \in Seq(Op) /\ Encodable(pool) /\ Replays(chain, pool)
  BY LoadedOK, Zenon DEF PoolInv
<1>2. /\ op \notin LowFee /\ pending' = current /\ pool' = pool
      /\ \/ UNCHANGED refusals
         \/ /\ Extended(chain, current, op) = {} /\ refusals' = Remember(key)
            /\ key \notin Range(refusals)
  BY Zenon DEF InsertRefused
<1> HIDE DEF current
<1>3. PoolInv'
  BY <1>1, <1>2, Zenon DEF PoolInv, PendingOK
<1>4. CASE UNCHANGED refusals
  BY <1>3, <1>4, Zenon DEF RefusalInv, RefusalsHold
<1>5. CASE /\ Extended(chain, current, op) = {} /\ refusals' = Remember(key)
           /\ key \notin Range(refusals)
  <2>1. ~ Encodable(Append(pool, op)) \/ ~ Replays(chain, Append(pool, op))
    <3> SUFFICES ASSUME Encodable(Append(pool, op)) PROVE ~ Replays(chain, Append(pool, op))
      BY Zenon
    <3> DEFINE d == Done[chain] \cup Range(pool)
    <3>1. d \in PoolState(chain, current)
      BY PoolStateIs, Zenon DEF current
    <3>2. ~ Applies(d, op)
      <4> SUFFICES ASSUME Applies(d, op) PROVE FALSE
        BY Zenon
      <4>1. d \in {e \in PoolState(chain, current) :
                     Encodable(Append(current.entries, op)) /\ Applies(e, op)}
        BY <1>1, <3>1, Zenon
      <4>2. QED
        BY <1>5, <4>1, Zenon DEF Extended
    <3>3. QED
      BY <1>1, <3>2, ReplaysOneMore, Zenon
  <2>2. /\ key \in Refusals /\ key.entries = pool /\ key.anchor = chain /\ key.op = op
    BY <1>1, Zenon DEF RefusalKey, Refusals, IndInv, ChainInv
  <2> DEFINE full == Len(refusals) = MaxRefusals
  <2>3. refusals' = Append(IF full THEN Tail(refusals) ELSE refusals, key)
    BY <1>5, Zenon DEF Remember
  <2>4. refusals \in Seq(Refusals) /\ MaxRefusals \in Nat \ {0} /\ full \in BOOLEAN
        /\ (full => Len(refusals) >= MaxRefusals)
    BY MempoolAssumption DEF RefusalInv
  <2> HIDE DEF full, key
  <2>5. refusals' \in Seq(Refusals) /\ Range(refusals') \subseteq Range(refusals) \cup {key}
    BY <2>2, <2>3, <2>4, Remembered, Zenon
  <2>6. RefusalsHold'
    <3> SUFFICES ASSUME NEW k \in Range(refusals')
                 PROVE  \/ ~ Encodable(Append(k.entries, k.op))
                        \/ ~ Replays(k.anchor, Append(k.entries, k.op))
      BY Zenon DEF RefusalsHold
    <3>1. CASE k = key
      BY <2>1, <2>2, <3>1, Zenon
    <3>2. CASE k \in Range(refusals)
      BY <3>2, Zenon DEF RefusalInv, RefusalsHold
    <3>3. QED
      BY <2>5, <3>1, <3>2, Zenon
  <2>7. QED
    BY <1>3, <2>5, <2>6, Zenon DEF RefusalInv
<1>6. QED
  BY <1>2, <1>4, <1>5, Zenon

-----------------------------------------------------------------------------
(* A branch that does not execute has a first block that does not. *)
LEMMA FirstInvalidFails ==
  ASSUME NEW branch, BranchOK(branch), ~ BranchExecutes(branch)
  PROVE  FirstInvalid(branch) \in Block /\ ~ Executes(FirstInvalid(branch))
<1> DEFINE blocks == Above(branch.tip, branch.ancestor)
           h == HeightOf(branch.ancestor)
           n == HeightOf(branch.tip) - h
           T == {i \in 1 .. n : ~ Executes(blocks[i])}
<1>1. branch.tip \in Block /\ branch.ancestor \in Block /\ OnLine(branch.ancestor, branch.tip)
  BY Zenon DEF BranchOK, Branches
<1>2. h \in Nat /\ n \in Nat /\ HeightOf(branch.tip) = n + h
  BY <1>1, OwnLine DEF OnLine
<1>3. /\ DOMAIN blocks = 1 .. n
      /\ \A i \in 1 .. n : blocks[i] = Line[branch.tip][i + h + 1]
  BY <1>1, AboveShape, Zenon
<1>4. \A i \in 1 .. n : blocks[i] \in Block
  <2> SUFFICES ASSUME NEW i \in 1 .. n PROVE Line[branch.tip][i + h + 1] \in Block
    BY <1>3, ZenonT(40)
  <2>1. i + h + 1 \in 1 .. Len(Line[branch.tip])
    BY <1>1, <1>2, OwnLine, SMTT(30), SMTT(60)
  <2>2. QED
    BY <1>1, <2>1, LinePrefix, Zenon
<1>5. Len(blocks) = n
  <2>1. blocks \in Seq(Block)
    BY <1>1, <1>2, LineShape, OwnLine, SMTT(30), SMTT(60) DEF Above
  <2> HIDE DEF blocks, n
  <2>2. QED
    BY <1>2, <1>3, <2>1, SMTT(30), SMTT(60)
<1>6. ~ \A i \in 1 .. n : Executes(blocks[i])
  <2> SUFFICES ASSUME \A i \in 1 .. n : Executes(blocks[i]) PROVE FALSE
    BY Zenon
  <2>1. BranchExecutes(branch)
    BY <1>3, Zenon DEF BranchExecutes, Range
  <2>2. QED
    BY <2>1, Zenon
<1> HIDE DEF blocks, h, n
<1>7. T \in SUBSET Nat /\ T # {}
  BY <1>2, <1>6
<1>8. PICK k \in T : \A m \in T : k <= m
  <2> HIDE DEF T
  <2>1. QED
    BY <1>7, Least, Zenon
<1>9. k \in 1 .. n /\ ~ Executes(blocks[k]) /\ \A j \in 1 .. k - 1 : Executes(blocks[j])
  <2> SUFFICES ASSUME NEW j \in 1 .. k - 1, ~ Executes(blocks[j]) PROVE FALSE
    BY <1>8, Zenon
  <2>1. j \in T
    BY <1>2, <1>8, SMTT(30), SMTT(60)
  <2>2. QED
    BY <1>2, <1>8, <2>1, SMTT(30), SMTT(60)
<1> DEFINE first(i) == ~ Executes(blocks[i]) /\ \A j \in 1 .. i - 1 : Executes(blocks[j])
<1>10. FirstInvalid(branch) = blocks[CHOOSE i \in 1 .. n : first(i)]
  BY <1>5, Zenon DEF FirstInvalid, blocks
<1>11. \E i \in 1 .. n : first(i)
  BY <1>9, Zenon
<1>12. LET i == CHOOSE i \in 1 .. n : first(i) IN i \in 1 .. n /\ first(i)
  <2> HIDE DEF first
  <2>1. QED
    BY <1>11, Zenon
<1>13. QED
  BY <1>4, <1>10, <1>12, Zenon

(* A replay that fails remembers a block that does not execute. *)
LEMMA ReplayInvalid ==
  ASSUME IndInv, InvalidInv, RecoverReplay
  PROVE  InvalidInv'
<1> DEFINE branch == RecoveryBranch
           b == FirstInvalid(branch)
           full == Len(invalid) >= MaxInvalid
<1>1. CASE UNCHANGED invalid
  BY <1>1, Zenon DEF InvalidInv, OnlyInvalidRemembered
<1>2. CASE ~ BranchExecutes(branch) /\ invalid' = RememberInvalid(b)
  <2>1. BranchOK(branch)
    BY Zenon DEF RecoverReplay, IndInv, RecoveryInv, RecoveryOK, SessionInv, Recoveries, RecoveryBranch
  <2>2. b \in Block /\ ~ Executes(b)
    BY <1>2, <2>1, FirstInvalidFails, Zenon
  <2>3. invalid' = Append(IF full THEN Tail(invalid) ELSE invalid, b)
    BY <1>2, Zenon DEF RememberInvalid
  <2>4. /\ invalid \in Seq(Block) /\ MaxInvalid \in Nat \ {0} /\ full \in BOOLEAN
        /\ (full => Len(invalid) >= MaxInvalid)
    BY NodeStateAssumption DEF InvalidInv
  <2> HIDE DEF full, b
  <2>5. invalid' \in Seq(Block) /\ Range(invalid') \subseteq Range(invalid) \cup {b}
    BY <2>2, <2>3, <2>4, Remembered, ZenonT(40)
  <2>6. QED
    BY <2>2, <2>5, Zenon DEF InvalidInv, OnlyInvalidRemembered
<1>3. QED
  BY <1>1, <1>2, Zenon DEF RecoverReplay

-----------------------------------------------------------------------------
(* Where a step changes the pool, the decoded copy, the refusals. *)
LEMMA PoolsUnchanged ==
  ASSUME PoolInv, RefusalInv, UNCHANGED <<chain, pool, pending, refusals>>
  PROVE  PoolInv' /\ RefusalInv' /\ NothingLost
BY Zenon DEF PoolInv, PendingOK, RefusalInv, RefusalsHold, NothingLost

(* A step that at most decodes the stored pool. *)
LEMMA PoolsLoaded ==
  ASSUME PoolInv, RefusalInv, UNCHANGED <<chain, pool, refusals>>,
         pending' = pending \/ pending' = LoadPending(pool)
  PROVE  PoolInv' /\ RefusalInv' /\ NothingLost
<1>1. pending' # None => PendingOK(pending')
  BY LoadedOK, Zenon DEF PoolInv
<1>2. QED
  BY <1>1, Zenon DEF PoolInv, PendingOK, RefusalInv, RefusalsHold, NothingLost

(* Refusals that do not change stay right. *)
LEMMA RefusalsUnchanged ==
  ASSUME RefusalInv, UNCHANGED refusals
  PROVE  RefusalInv'
BY Zenon DEF RefusalInv, RefusalsHold

(* Building a template keeps the pool and what is in it. *)
LEMMA BuildPools ==
  ASSUME PoolInv, RefusalInv, MinerInv, MinerBuild
  PROVE  PoolInv' /\ RefusalInv' /\ NothingLost
<1>1. miner.entries \in Seq(Op)
  BY Zenon DEF MinerBuild, MinerInv, Miners
<1>2. PendingOK(pending')
  BY <1>1, LoadedOK, Zenon DEF MinerBuild, PoolInv
<1>3. UNCHANGED <<chain, pool, refusals>>
  BY Zenon DEF MinerBuild
<1>4. QED
  BY <1>2, <1>3, Zenon DEF PoolInv, PendingOK, RefusalInv, RefusalsHold, NothingLost

(* A crash loses the decoded copy and nothing that is stored. *)
LEMMA CrashPools ==
  ASSUME PoolInv, RefusalInv, Crash
  PROVE  PoolInv' /\ RefusalInv' /\ NothingLost
<1>1. UNCHANGED <<chain, pool>> /\ pending' = None /\ refusals' = <<>>
  BY Zenon DEF Crash, disk
<1>2. QED
  BY <1>1 DEF PoolInv, PendingOK, RefusalInv, RefusalsHold, NothingLost, Range

(* Every step keeps pool and refusals right and loses no operation. *)
LEMMA StepPools ==
  IndInv /\ PoolInv /\ RefusalInv /\ MinerInv /\ [Next]_vars
    => PoolInv' /\ RefusalInv' /\ NothingLost
<1> SUFFICES ASSUME IndInv, PoolInv, RefusalInv, MinerInv, [Next]_vars
             PROVE  PoolInv' /\ RefusalInv' /\ NothingLost
  BY Zenon
<1>1. ASSUME NEW b \in Relayed \cup Offered, ExtendTip(b)
      PROVE  PoolInv' /\ RefusalInv' /\ NothingLost
  <2>1. b \in Block \ {Genesis}
    BY NodeStateAssumption, Zenon
  <2>2. QED
    BY <1>1, <2>1, AppendPools, RefusalsUnchanged, Zenon DEF ExtendTip
<1>2. ASSUME NEW op \in Submitted, Insert(op)
      PROVE  PoolInv' /\ RefusalInv' /\ NothingLost
  <2>1. op \in Op /\ cache.tip = chain /\ chain' = chain
    BY <1>2, NodeStateAssumption, Zenon DEF Insert, IndInv, CacheInv
  <2>2. NothingLost
    BY <2>1, Zenon DEF NothingLost
  <2>3. CASE InsertAccepted(chain, op)
    <3>1. UNCHANGED refusals
      BY <2>3, Zenon DEF InsertAccepted
    <3>2. QED
      BY <2>1, <2>2, <2>3, <3>1, AcceptedPools, RefusalsUnchanged, ZenonT(40)
  <2>4. CASE InsertRefused(chain, op)
    BY <2>1, <2>2, <2>4, RefusedPools, Zenon
  <2>5. QED
    BY <1>2, <2>1, <2>3, <2>4, Zenon DEF Insert
<1>3. CASE MinerBuild
  BY <1>3, BuildPools, Zenon
<1>4. ASSUME NEW b \in Mined, MinerFind(b)
      PROVE  PoolInv' /\ RefusalInv' /\ NothingLost
  <2>1. b \in Block \ {Genesis}
    BY NodeStateAssumption, Zenon
  <2>2. /\ Unlocked /\ UNCHANGED refusals
        /\ \/ Parent(b) = cache.tip /\ CommitAppend(b)
           \/ UNCHANGED <<chain, pool, pending>>
    BY <1>4, Zenon DEF MinerFind
  <2>3. QED
    BY <2>1, <2>2, AppendPools, RefusalsUnchanged, PoolsUnchanged, ZenonT(40)
<1>5. ASSUME NEW s \in Session, ApplyBranch(s)
      PROVE  PoolInv' /\ RefusalInv' /\ NothingLost
  <2>1. /\ Unlocked /\ Attaches(session[s]) /\ CommitBranch(session[s], {})
        /\ session[s] # None /\ UNCHANGED refusals
    BY <1>5, Zenon DEF ApplyBranch
  <2>2. BranchOK(session[s])
    BY <2>1, Zenon DEF IndInv, SessionInv
  <2>3. QED
    BY <2>1, <2>2, BranchPools, RefusalsUnchanged, ZenonT(40)
<1>6. CASE RecoverPublish
  <2> DEFINE branch == RecoveryBranch
             extra == {SnapshotOf(recovery.ledger, FALSE)}
  <2>1. /\ Unlocked /\ UNCHANGED refusals
        /\ \/ Attaches(branch) /\ CommitBranch(branch, extra)
           \/ /\ UNCHANGED <<chain, pool>>
              /\ pending' = pending \/ pending' = LoadPending(pool)
    BY <1>6, Zenon DEF RecoverPublish
  <2>2. BranchOK(branch)
    BY <1>6, Zenon DEF RecoverPublish, IndInv, RecoveryInv, RecoveryOK, SessionInv, Recoveries, RecoveryBranch
  <2> HIDE DEF branch, extra
  <2>3. CASE Attaches(branch) /\ CommitBranch(branch, extra)
    BY <2>1, <2>2, <2>3, BranchPools, RefusalsUnchanged, ZenonT(40)
  <2>4. CASE /\ UNCHANGED <<chain, pool>>
             /\ pending' = pending \/ pending' = LoadPending(pool)
    BY <2>1, <2>4, PoolsLoaded, Zenon
  <2>5. QED
    BY <2>1, <2>3, <2>4, Zenon
<1>7. CASE RecoverPool
  BY <1>7, RecoverPoolPools, RefusalsUnchanged, Zenon DEF RecoverPool, NothingLost
<1>8. CASE Crash
  BY <1>8, CrashPools, Zenon
<1>9. CASE UNCHANGED <<chain, pool, pending, refusals>>
  BY <1>9, PoolsUnchanged, Zenon
<1>10. CASE \/ Publish \/ Finish \/ MinerStart \/ MinerReadLedger \/ MinerReadPool \/ MinerCancel
            \/ RecoverReadSnapshots \/ RecoverRestore \/ RecoverReplay \/ Restart
  <2>1. UNCHANGED <<chain, pool, pending, refusals>>
    BY <1>10, Zenon DEF Publish, Finish, MinerStart, MinerReadLedger, MinerReadPool, MinerCancel,
         RecoverReadSnapshots, RecoverRestore, RecoverReplay, Restart
  <2>2. QED
    BY <1>9, <2>1, Zenon
<1>11. ASSUME NEW s \in Session, NEW tip \in PeerTip, BeginSession(s, tip)
       PROVE  UNCHANGED <<chain, pool, pending, refusals>>
  BY <1>11, Zenon DEF BeginSession
<1>12. ASSUME NEW s \in Session, AbandonSession(s) \/ RefuseBranch(s) \/ BeginRecovery(s)
       PROVE  PoolInv' /\ RefusalInv' /\ NothingLost
  <2>1. /\ UNCHANGED <<chain, pool, refusals>>
        /\ pending' = pending \/ pending' = LoadPending(pool)
    BY <1>12, Zenon DEF AbandonSession, RefuseBranch, BeginRecovery
  <2>2. QED
    BY <2>1, PoolsLoaded, Zenon
<1>13. ASSUME NEW height \in 0 .. HeightOf(chain), RestartInterrupted(height)
       PROVE  UNCHANGED <<chain, pool, pending, refusals>>
  BY <1>13, Zenon DEF RestartInterrupted
<1>14. CASE UNCHANGED vars
  BY <1>9, <1>14, Zenon DEF vars
<1>15. QED
  BY <1>1, <1>2, <1>3, <1>4, <1>5, <1>6, <1>7, <1>8, <1>9, <1>10, <1>11, <1>12, <1>13, <1>14, ZenonT(40)
     DEF Next, AcceptRelayed, SubmitBlock

-----------------------------------------------------------------------------
(* Only a replay in the scratch database adds to the invalid candidates. *)
LEMMA StepInvalid == IndInv /\ InvalidInv /\ [Next]_vars => InvalidInv'
<1> SUFFICES ASSUME IndInv, InvalidInv, [Next]_vars PROVE InvalidInv'
  BY Zenon
<1>1. CASE UNCHANGED invalid
  BY <1>1, Zenon DEF InvalidInv, OnlyInvalidRemembered
<1>2. CASE RecoverReplay
  BY <1>2, ReplayInvalid, Zenon
<1>3. CASE Crash
  <2>1. invalid' = <<>>
    BY <1>3, Zenon DEF Crash
  <2>2. QED
    BY <2>1 DEF InvalidInv, OnlyInvalidRemembered, Range
<1>4. CASE \/ Publish \/ Finish \/ MinerStart \/ MinerReadLedger \/ MinerReadPool \/ MinerBuild
           \/ MinerCancel \/ RecoverReadSnapshots \/ RecoverRestore \/ RecoverPublish
           \/ Restart \/ RecoverPool
  BY <1>1, <1>4, ZenonT(40) DEF Publish, Finish, MinerStart, MinerReadLedger, MinerReadPool,
       MinerBuild, MinerCancel, RecoverReadSnapshots, RecoverRestore, RecoverPublish,
       Restart, RecoverPool
<1>5. ASSUME NEW b, ExtendTip(b) \/ MinerFind(b)
      PROVE  UNCHANGED invalid
  BY <1>5, Zenon DEF ExtendTip, MinerFind
<1>6. ASSUME NEW op, Insert(op)
      PROVE  UNCHANGED invalid
  BY <1>6, Zenon DEF Insert
<1>7. ASSUME NEW s, NEW tip, BeginSession(s, tip)
      PROVE  UNCHANGED invalid
  BY <1>7, Zenon DEF BeginSession
<1>8. ASSUME NEW s,
             \/ AbandonSession(s) \/ ApplyBranch(s) \/ RefuseBranch(s) \/ BeginRecovery(s)
      PROVE  UNCHANGED invalid
  BY <1>8, Zenon DEF AbandonSession, ApplyBranch, RefuseBranch, BeginRecovery
<1>9. ASSUME NEW height, RestartInterrupted(height)
      PROVE  UNCHANGED invalid
  BY <1>9, Zenon DEF RestartInterrupted
<1>10. CASE UNCHANGED vars
  BY <1>1, <1>10, Zenon DEF vars
<1>11. QED
  BY <1>1, <1>2, <1>3, <1>4, <1>5, <1>6, <1>7, <1>8, <1>9, <1>10, ZenonT(40)
     DEF Next, AcceptRelayed, SubmitBlock

-----------------------------------------------------------------------------
(* A notification makes whatever the miner has read stale. *)
LEMMA NotifiedIsStale ==
  ASSUME NEW m \in Miners
  PROVE  /\ Notified(m) \in Miners
         /\ Notified(m).phase = "idle" \/ Notified(m).stale
         /\ m = NoMiner => Notified(m) = NoMiner
<1>1. CASE m \in [phase : {"idle"}]
  BY <1>1, Zenon DEF Notified, Miners
<1>2. CASE m \in [phase : {"started"}, stale : BOOLEAN]
  BY <1>2, Zenon DEF Notified, Miners, NoMiner
<1>3. CASE m \in [phase : {"ledger"}, stale : BOOLEAN, tip : Block]
  BY <1>3, Zenon DEF Notified, Miners, NoMiner
<1>4. CASE m \in [phase : {"pool"}, stale : BOOLEAN, tip : Block, entries : Seq(Op)]
  BY <1>4, Zenon DEF Notified, Miners, NoMiner
<1>5. CASE m \in [phase : {"search"}, stale : BOOLEAN, tip : Block, ops : Seq(Op)]
  BY <1>5, Zenon DEF Notified, Miners, NoMiner
<1>6. QED
  BY <1>1, <1>2, <1>3, <1>4, <1>5, ZenonT(40) DEF Miners

(* A notification only marks the template as stale. *)
LEMMA MinerNotified ==
  ASSUME MinerInv, miner' = Notified(miner), UNCHANGED cache
  PROVE  MinerInv'
<1>1. /\ miner' \in Miners /\ (miner'.phase = "idle" \/ miner'.stale)
      /\ (miner = NoMiner => miner' = NoMiner)
  BY NotifiedIsStale, Zenon DEF MinerInv
<1>2. QED
  BY <1>1, Zenon DEF MinerInv, Running

(* The miner waits while others work: nothing it has read changes, or the    *)
(* lock is held.                                                             *)
LEMMA MinerWaits ==
  ASSUME MinerInv, UNCHANGED <<miner, cache>>,
         Unlocked' => Unlocked /\ UNCHANGED <<chain, pool>>
  PROVE  MinerInv'
<1>1. Running' <=> Running
  BY Zenon DEF Running
<1>2. Selected(pool)' = Selected(pool) \/ ~ Unlocked'
  BY Zenon DEF Selected
<1>3. QED
  BY <1>1, <1>2, Zenon DEF MinerInv

(* An idle miner holds nothing that could be wrong. *)
LEMMA MinerIdle ==
  ASSUME miner' = NoMiner
  PROVE  MinerInv'
BY Zenon DEF MinerInv, Miners, NoMiner

(* A new chain is stored before it is published. *)
LEMMA CommitLocks ==
  ASSUME IndInv, IndInv', Unlocked, UNCHANGED cache, chain' # chain
  PROVE  ~ Unlocked'
BY Zenon DEF IndInv, CacheInv

(* What the miner reads without the lock is right or marked as stale. *)
LEMMA MinerSteps ==
  ASSUME IndInv, MinerInv, PoolInv,
         MinerStart \/ MinerReadLedger \/ MinerReadPool \/ MinerBuild
  PROVE  MinerInv'
<1>1. UNCHANGED <<chain, pool, cache, lock>>
  BY Zenon DEF MinerStart, MinerReadLedger, MinerReadPool, MinerBuild
<1>2. (Unlocked' <=> Unlocked) /\ (Running' <=> Running)
  BY <1>1, ZenonT(40) DEF Unlocked, Running
<1>3. Running
  BY DEF MinerStart, MinerReadLedger, MinerReadPool, MinerBuild, MinerInv, NoMiner
<1>4. CASE MinerStart
  BY <1>2, <1>3, <1>4, ZenonT(40) DEF MinerStart, MinerInv, Miners
<1>5. CASE MinerReadLedger
  <2>1. cache.tip \in Block /\ (Unlocked => cache.tip = chain)
    BY <1>3, Zenon DEF IndInv, CacheInv, Running, LedgerOK, Ledgers
  <2>2. miner.stale \in BOOLEAN
    BY <1>5, Zenon DEF MinerReadLedger, MinerInv, Miners
  <2>3. miner' = [phase |-> "ledger", tip |-> cache.tip, stale |-> miner.stale]
    BY <1>5, Zenon DEF MinerReadLedger
  <2>4. miner' \in Miners
    BY <2>1, <2>2, <2>3, Zenon DEF Miners
  <2>5. QED
    BY <1>1, <1>2, <1>3, <2>1, <2>3, <2>4, ZenonT(40) DEF MinerInv
<1>6. CASE MinerReadPool
  <2>1. miner.phase = "ledger" /\ miner.tip \in Block /\ miner.stale \in BOOLEAN
    BY <1>6, Zenon DEF MinerReadPool, MinerInv, Miners
  <2>2. miner' = [phase |-> "pool", tip |-> miner.tip, stale |-> miner.stale, entries |-> pool]
    BY <1>6, Zenon DEF MinerReadPool
  <2>3. miner' \in Miners
    BY <2>1, <2>2, Zenon DEF Miners, PoolInv
  <2>4. Unlocked /\ ~ miner.stale => miner.tip = chain
    BY <2>1, Zenon DEF MinerInv
  <2>5. QED
    BY <1>1, <1>2, <1>3, <2>2, <2>3, <2>4, ZenonT(40) DEF MinerInv
<1>7. CASE MinerBuild
  <2>1. miner.phase = "pool" /\ miner.tip \in Block /\ miner.entries \in Seq(Op)
    BY <1>7, Zenon DEF MinerBuild, MinerInv, Miners
  <2>2. miner' = Template
    BY <1>7, Zenon DEF MinerBuild
  <2>3. CASE miner' = NoMiner
    BY <2>3, MinerIdle, Zenon
  <2>4. CASE /\ ~ miner.stale
             /\ miner' = [phase |-> "search", tip |-> miner.tip, stale |-> FALSE,
                          ops |-> Selected(miner.entries)]
    <3>1. Selected(miner.entries) \in Seq(Op)
      BY <2>1, NodeStateAssumption DEF Selected
    <3>2. miner' \in Miners
      BY <2>1, <2>4, <3>1, ZenonT(40) DEF Miners
    <3>3. Unlocked => miner.tip = chain /\ miner.entries = pool
      BY <2>1, <2>4, ZenonT(40) DEF MinerInv
    <3>4. pool' = pool /\ Selected(pool)' = Selected(pool)
      BY <1>1, Zenon DEF Selected
    <3>5. QED
      BY <1>1, <1>2, <1>3, <2>4, <3>2, <3>3, <3>4, ZenonT(40) DEF MinerInv
  <2>5. QED
    BY <2>2, <2>3, <2>4, Zenon DEF Template
<1>8. QED
  BY <1>4, <1>5, <1>6, <1>7, ZenonT(40)

(* Publication wakes nobody; the lock is still held after it. *)
LEMMA PublishMines ==
  ASSUME IndInv, MinerInv, Publish
  PROVE  MinerInv'
<1>1. lock \in Locks /\ lock.phase = "publish"
  BY NoneAssumption, Zenon DEF Publish, IndInv, CacheInv
<1>2. lock.snapshot \in BOOLEAN
  BY <1>1, Zenon DEF Locks
<1>3. LedgerOK(lock.ledger)
  BY <1>1, NoneAssumption, Zenon DEF Publish, IndInv, CacheInv, LockOK
<1>4. lock' \in Locks /\ lock' # None
  <2>1. lock' = [phase |-> "finish", snapshot |-> lock.snapshot]
    BY Zenon DEF Publish
  <2>2. lock' \in Locks
    BY <1>2, <2>1, Zenon DEF Locks
  <2>3. QED
    BY <2>2, NoneAssumption, Zenon
<1>5. cache' # None
  <2>1. cache' = Pruned(lock.ledger)
    BY Zenon DEF Publish
  <2>2. LedgerOK(cache')
    BY <1>3, <2>1, PruningOK, Zenon DEF LedgerOK
  <2>3. QED
    BY <2>2, NoneAssumption, Zenon DEF LedgerOK
<1>6. miner' = miner
  BY Zenon DEF Publish
<1>7. QED
  BY <1>4, <1>5, <1>6, ZenonT(40) DEF MinerInv, Unlocked, Running

(* Every step keeps the template right. *)
LEMMA StepMines ==
  IndInv /\ IndInv' /\ PoolInv /\ MinerInv /\ [Next]_vars => MinerInv'
<1> SUFFICES ASSUME IndInv, IndInv', PoolInv, MinerInv, [Next]_vars PROVE MinerInv'
  BY Zenon
<1>1. CASE Publish
  BY <1>1, PublishMines, Zenon
<1>2. CASE Finish
  BY <1>2, MinerNotified, Zenon DEF Finish
<1>3. ASSUME NEW b \in Relayed \cup Offered, ExtendTip(b)
      PROVE  MinerInv'
  <2>1. Unlocked /\ Parent(b) = cache.tip /\ chain' = b /\ UNCHANGED <<miner, cache>>
    BY <1>3, Zenon DEF ExtendTip, CommitAppend
  <2>2. b \in Block \ {Genesis}
    BY NodeStateAssumption, Zenon
  <2>3. cache.tip = chain /\ chain \in Block
    BY <2>1, Zenon DEF IndInv, CacheInv, ChainInv
  <2>4. chain' # chain
    BY <2>1, <2>2, <2>3, ChildBetter, OwnLine, SMTT(30), SMTT(60)
  <2>5. QED
    BY <2>1, <2>4, CommitLocks, MinerWaits, ZenonT(40)
<1>4. ASSUME NEW op \in Submitted, Insert(op)
      PROVE  MinerInv'
  <2>1. UNCHANGED <<chain, cache, lock>>
    BY <1>4, Zenon DEF Insert
  <2>2. CASE miner' = Notified(miner)
    BY <2>1, <2>2, MinerNotified, Zenon
  <2>3. CASE UNCHANGED <<miner, pool>>
    BY <2>1, <2>3, MinerWaits, Zenon DEF Unlocked, Running
  <2>4. QED
    BY <1>4, <2>2, <2>3, ZenonT(40) DEF Insert, InsertRefused
<1>5. CASE MinerStart \/ MinerReadLedger \/ MinerReadPool \/ MinerBuild
  BY <1>5, MinerSteps, Zenon
<1>6. CASE MinerCancel
  BY <1>6, MinerIdle, Zenon DEF MinerCancel
<1>7. ASSUME NEW b \in Mined, MinerFind(b)
      PROVE  MinerInv'
  BY <1>7, MinerIdle, Zenon DEF MinerFind
<1>8. ASSUME NEW s \in Session, NEW tip \in PeerTip, BeginSession(s, tip)
      PROVE  MinerInv'
  BY <1>8, MinerNotified, Zenon DEF BeginSession
<1>9. ASSUME UNCHANGED <<chain, pool, cache, lock, miner>>
      PROVE  MinerInv'
  BY <1>9, MinerWaits, Zenon DEF Unlocked, Running
<1>10. ASSUME NEW s \in Session, AbandonSession(s) \/ RefuseBranch(s) \/ BeginRecovery(s)
       PROVE  UNCHANGED <<chain, pool, cache, lock, miner>>
  BY <1>10, Zenon DEF AbandonSession, RefuseBranch, BeginRecovery
<1>11. ASSUME NEW branch, BranchOK(branch), StillBetter(branch), chain' = branch.tip,
              Unlocked, UNCHANGED <<cache, miner>>
       PROVE  MinerInv'
  <2>1. branch.tip \in Block /\ cache.tip = chain
    BY <1>11, Zenon DEF BranchOK, Branches, IndInv, CacheInv
  <2>2. chain' # chain
    <3>1. TotalWork[branch.tip] \in Nat /\ TotalWeight[branch.tip] \in Nat /\ branch.tip \in Nat
      BY <2>1, WorkGrows, BlockTreeAssumption, ZenonT(40)
    <3>2. ~ Better(branch.tip, branch.tip)
      BY <3>1 DEF Better, TipGreater
    <3>3. QED
      BY <1>11, <2>1, <3>2, ZenonT(40) DEF StillBetter
  <2>3. QED
    BY <1>11, <2>2, CommitLocks, MinerWaits, ZenonT(40)
<1>12. ASSUME NEW s \in Session, ApplyBranch(s)
       PROVE  MinerInv'
  <2>1. /\ Unlocked /\ StillBetter(session[s]) /\ chain' = session[s].tip
        /\ session[s] # None /\ UNCHANGED <<cache, miner>>
    BY <1>12, Zenon DEF ApplyBranch, CommitBranch
  <2>2. BranchOK(session[s])
    BY <2>1, Zenon DEF IndInv, SessionInv
  <2>3. QED
    BY <1>11, <2>1, <2>2, ZenonT(40)
<1>13. CASE RecoverReadSnapshots \/ RecoverRestore \/ RecoverReplay
  <2>1. UNCHANGED <<chain, pool, cache, lock, miner>>
    BY <1>13, Zenon DEF RecoverReadSnapshots, RecoverRestore, RecoverReplay
  <2>2. QED
    BY <1>9, <2>1, Zenon
<1>14. CASE RecoverPublish
  <2>1. BranchOK(RecoveryBranch)
    BY <1>14, Zenon DEF RecoverPublish, IndInv, RecoveryInv, RecoveryOK, SessionInv, Recoveries, RecoveryBranch
  <2>2. /\ Unlocked /\ UNCHANGED <<cache, miner>>
        /\ \/ StillBetter(RecoveryBranch) /\ chain' = RecoveryBranch.tip
           \/ UNCHANGED <<chain, pool, lock>>
    BY <1>14, Zenon DEF RecoverPublish, CommitBranch
  <2>3. QED
    BY <1>9, <1>11, <2>1, <2>2, ZenonT(40)
<1>15. CASE Crash
  BY <1>15, MinerIdle, Zenon DEF Crash
<1>16. CASE Restart
  BY <1>16, MinerWaits, Zenon DEF Restart, Unlocked, Running
<1>17. ASSUME NEW height \in 0 .. HeightOf(chain), RestartInterrupted(height)
       PROVE  UNCHANGED <<chain, pool, cache, lock, miner>>
  BY <1>17, Zenon DEF RestartInterrupted
<1>18. CASE RecoverPool
  <2>1. LedgerOK(lock.ledger)
    BY <1>18, Zenon DEF RecoverPool, IndInv, CacheInv, LockOK
  <2>2. lock' # None
    BY <1>18, <2>1, PublishingOK, ZenonT(40) DEF RecoverPool
  <2>3. QED
    BY <1>18, <2>2, MinerWaits, ZenonT(40) DEF RecoverPool, Unlocked
<1>19. CASE UNCHANGED vars
  BY <1>9, <1>19, Zenon DEF vars
<1>20. QED
  BY <1>1, <1>2, <1>3, <1>4, <1>5, <1>6, <1>7, <1>8, <1>9, <1>10, <1>12, <1>13, <1>14,
     <1>15, <1>16, <1>17, <1>18, <1>19, SMTT(30), SMTT(60)
     DEF Next, AcceptRelayed, SubmitBlock

-----------------------------------------------------------------------------
(* The inductive invariant of pool, refusals and miner. *)
PoolsInv == PoolInv /\ RefusalInv /\ InvalidInv /\ MinerInv

(* It holds at the beginning, *)
LEMMA InitPools == Init => PoolsInv
<1> SUFFICES ASSUME Init PROVE PoolsInv
  BY Zenon
<1>1. PoolInv
  <2>1. <<>> \in Seq(Op)
    OBVIOUS
  <2>2. QED
    BY <2>1, EmptyReplays, EmptyEncodable, Zenon DEF Init, PoolInv
<1>2. RefusalInv /\ InvalidInv
  BY DEF Init, RefusalInv, RefusalsHold, InvalidInv, OnlyInvalidRemembered, Range
<1>3. MinerInv
  BY Zenon DEF Init, MinerInv, Miners, NoMiner
<1>4. QED
  BY <1>1, <1>2, <1>3, Zenon DEF PoolsInv

(* and in every behaviour. *)
LEMMA PoolsInvariance == Spec => [](IndInv /\ PoolsInv)
<1>1. IndInv /\ PoolsInv /\ [Next]_vars => (IndInv /\ PoolsInv)'
  BY StepKeeps, StepPools, StepInvalid, StepMines, ZenonT(40) DEF PoolsInv
<1>2. QED
  BY <1>1, InitEstablishes, InitPools, PTL DEF Spec

(* The stored pool applies to the stored chain, in order, after any          *)
(* insertions, blocks, reorganisations, crashes and restarts, although       *)
(* insertion trusts the state kept beside the decoded pool.                  *)
THEOREM PoolStaysValid == Spec => []PoolApplies
<1>1. PoolsInv => PoolApplies
  BY Zenon DEF PoolsInv, PoolInv, PoolApplies
<1>2. QED
  BY <1>1, PoolsInvariance, PTL

(* The limit on stored bytes, which can keep the node from a better branch,  *)
(* refuses no block that extends the tip and no restart, after any           *)
(* reorganisations: what they keep of the stored pool is no larger.          *)
THEOREM PoolsStayStorable == Spec => []PoolNeverBlocks
<1>1. PoolsInv => PoolNeverBlocks
  BY ReconcileShrinks, ZenonT(40) DEF PoolsInv, PoolInv, PoolNeverBlocks
<1>2. QED
  BY <1>1, PoolsInvariance, PTL

(* A remembered refusal never shuts out an operation that would be accepted  *)
(* on the same chain and pool.                                               *)
THEOREM RefusalsStayRight == Spec => []RefusalsHold
<1>1. PoolsInv => RefusalsHold
  BY Zenon DEF PoolsInv, RefusalInv
<1>2. QED
  BY <1>1, PoolsInvariance, PTL

(* No block that executes is ever remembered as an invalid candidate, so no  *)
(* recovery of a valid branch is refused for one.                            *)
THEOREM NoValidBlockRemembered == Spec => []OnlyInvalidRemembered
<1>1. PoolsInv => OnlyInvalidRemembered
  BY ZenonT(40) DEF PoolsInv, InvalidInv
<1>2. QED
  BY <1>1, PoolsInvariance, PTL

(* The miner never searches on a stale chain or pool with a current          *)
(* generation.                                                               *)
THEOREM TemplateStaysFresh == Spec => []TemplateFresh
<1>1. PoolsInv => TemplateFresh
  BY Zenon DEF PoolsInv, MinerInv, TemplateFresh
<1>2. QED
  BY <1>1, PoolsInvariance, PTL

(* No block and no reorganisation, of whatever depth, drops a pending        *)
(* operation or one of a block that is left without cause: reconciling tries *)
(* them in an order in which each follows what it needs, so one that fails   *)
(* at its turn cannot follow what is kept in the end either.                 *)
THEOREM OperationsSurvive == Spec => NoOperationLost
<1>1. IndInv /\ PoolsInv /\ [Next]_vars => [NothingLost]_vars
  BY StepPools, Zenon DEF PoolsInv
<1>2. [][NothingLost]_vars => NoOperationLost
  BY PTL DEF NothingLost, NoOperationLost
<1>3. QED
  BY <1>1, <1>2, PoolsInvariance, PTL DEF Spec

=============================================================================
