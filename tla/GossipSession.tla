---------------------------- MODULE GossipSession ----------------------------
(***************************************************************************)
(* A session between two nodes: A dialed B, synchronized with it, and then *)
(* exchanges tips, inventories, blocks and operations with it, while both  *)
(* nodes go on working with others.                                        *)
(*                                                                         *)
(* runtime/src/node/p2p.rs: synchronize_peer_database, serve_block_requests,*)
(* handle_inbound_peer; gossip.rs: gossip_outbound_session,                *)
(* try_shallow_gossip_reorg, exchange_gossip_transactions, relay_next_block,*)
(* relay_mempool, accept_relayed_block, the queue of early blocks.         *)
(*                                                                         *)
(* Requests and answers alternate on one connection.  A step of A that     *)
(* reads its own state to make a request is separate from the step in      *)
(* which B handles it and A reads the answer, so either node may change in *)
(* between.  A pool is a set: the operations it holds and, in place of its *)
(* order, what each of them builds on, which comes before it.              *)
(* How a block travels in compact form is left out; how headers are        *)
(* verified is in HeaderSync, how a branch is applied in NodeState.        *)
(***************************************************************************)
EXTENDS BlockTree, FiniteSets

CONSTANTS
  Op,
  CoinOf,      \* the coin an operation spends
  Needs,       \* the operations it builds on
  Deploys,     \* the operations that deploy a program; the others are calls
  Size,        \* the encoded size of an operation
  OpsIn,       \* the operations of a block
  Executes,    \* the blocks whose bodies execute
  Floors,      \* the minimums of work and weight a user may configure, by node
  MaxPool,     \* MAX_MEMPOOL_TRANSACTIONS
  MaxBytes,    \* MAX_STORED_MEMPOOL_SIZE
  MaxItems,    \* MAX_RELAY_ITEMS_PER_SESSION
  MaxBlocks,   \* MAX_RELAYED_BLOCKS_PER_SESSION
  MaxEarly,    \* MAX_EARLY_RELAY_BLOCKS
  MaxDepth,    \* MAX_SHALLOW_GOSSIP_FORK_DEPTH
  MaxMoves     \* bound on what the nodes do besides this session

Node == {"A", "B"}

ASSUME GossipAssumption ==
  /\ CoinOf \in [Op -> Nat] /\ Needs \in [Op -> SUBSET Op] /\ Deploys \subseteq Op
  /\ Size \in [Op -> Nat] /\ MaxPool \in Nat \ {0} /\ MaxBytes \in Nat
  /\ OpsIn \in [Block -> SUBSET Op]
  /\ Executes \subseteq Block /\ Genesis \in Executes
  /\ Floors \in SUBSET [Node -> [work : Nat, weight : Nat]]
  /\ MaxItems \in Nat \ {0} /\ MaxBlocks \in Nat \ {0} /\ MaxEarly \in Nat \ {0}
  /\ MaxDepth \in Nat /\ MaxMoves \in Nat

VARIABLES
  tip,        \* the canonical tip of each node
  pool,       \* its pending operations
  floor,      \* its configured minimums
  early,      \* EARLY_RELAY_BLOCKS of A
  dirty,      \* gossip_generation of A moved since it was last read
  a, b,       \* what each side of the session is doing
  s,          \* what they remember
  why,        \* history: how the last session that failed ended
  disturbed,  \* history: a node changed for other reasons in this session
  moves

vars == <<tip, pool, floor, early, dirty, a, b, s, why, disturbed, moves>>

NoSession ==
  [sent |-> Genesis, remote |-> Genesis, mine |-> Genesis, theirs |-> {},
   batch |-> <<>>, todo |-> {}, after |-> "loop", blocks |-> 0, txs |-> 0, reqs |-> 0,
   seen |-> <<>>, force |-> TRUE]

Runs(t) == \A i \in 1 .. Len(Line[t]) : Line[t][i] \in Executes

(* Both nodes start on chains they stored before. *)
Init ==
  /\ tip \in [Node -> {t \in Block : Runs(t)}] /\ pool = [n \in Node |-> {}] /\ floor \in Floors
  /\ early = <<>> /\ dirty = FALSE
  /\ a = "closed" /\ b = "closed" /\ s = NoSession
  /\ why = "none" /\ disturbed = FALSE /\ moves = 0

-----------------------------------------------------------------------------
(* The two ledgers and pools. *)
Included == [t \in Block |-> UNION {OpsIn[Line[t][i]] : i \in 1 .. Len(Line[t])}]

Spent(t) == {CoinOf[o] : o \in Included[t]}

(* Whether an operation can follow others on a chain: its coin is unspent,  *)
(* and what it builds on is there.                                          *)
Follows(t, ops, o) ==
  /\ CoinOf[o] \notin Spent(t) \cup {CoinOf[p] : p \in ops}
  /\ Needs[o] \subseteq Included[t] \cup ops

Applies(n, o) == Follows(tip[n], pool[n], o)

(* encode_pending_operations, PendingPool::push *)
Storable(ops) ==
  /\ Cardinality(ops) <= MaxPool
  /\ MapThenSumSet(LAMBDA o : Size[o], ops) <= MaxBytes

Allows(n, t) == TotalWork[t] >= floor[n].work /\ TotalWeight[t] >= floor[n].weight

(* reconcile_pending_operations with what the left branch held: one after   *)
(* the other, what follows those kept is kept until there are MaxPool.      *)
Reconciled(n, t) ==
  LET candidates == pool[n] \cup Included[tip[n]]
  IN  {kept \in SUBSET candidates :
         /\ Cardinality(kept) <= MaxPool
         /\ \A o \in kept : Follows(t, kept \ {o}, o)
         /\ \A o \in candidates \ kept : Cardinality(kept) = MaxPool \/ ~ Follows(t, kept, o)}

(* A pool that is too large to store keeps the chain from changing.  It     *)
(* cannot be when a block is appended, since the pool only shrinks.         *)
Adopt(n, t) ==
  \E kept \in Reconciled(n, t) :
    /\ Storable(kept)
    /\ tip' = [tip EXCEPT ![n] = t]
    /\ pool' = [pool EXCEPT ![n] = kept]

Crowded(n, t) == \E kept \in Reconciled(n, t) : ~ Storable(kept)

Common(t, u) == CHOOSE c \in Block :
  /\ OnLine(c, t) /\ OnLine(c, u)
  /\ \A d \in Block : OnLine(d, t) /\ OnLine(d, u) => HeightOf(d) <= HeightOf(c)

(* read_mempool: deployments are not relayed. *)
Calls(n) == pool[n] \ Deploys

AnyItems(items) == {t \in SUBSET items :
  Cardinality(t) = IF Cardinality(items) < MaxItems THEN Cardinality(items) ELSE MaxItems}

(* The first of some operations in the order of the pool. *)
Take(items) == {t \in SUBSET items :
  /\ Cardinality(t) = IF Cardinality(items) < MaxItems THEN Cardinality(items) ELSE MaxItems
  /\ \A o \in t : Needs[o] \cap items \subseteq t}

(* The next of those to be sent. *)
First(o) == o \in s.todo /\ Needs[o] \cap s.todo = {}

Same == UNCHANGED <<tip, pool>>

Go(phase) == a' = phase /\ UNCHANGED b

Rest == UNCHANGED <<floor, early, why, disturbed, moves>>

Quit ==
  /\ a' = "closed" /\ b' = "closed" /\ s' = NoSession
  /\ UNCHANGED <<floor, early, dirty, disturbed, moves>>

Fail(reason) == Quit /\ why' = reason /\ Same

-----------------------------------------------------------------------------
(* What the nodes do otherwise: adopt a better chain, take an operation, or *)
(* (A) download a block in another session.                                 *)
Move == moves < MaxMoves /\ moves' = moves + 1 /\ disturbed' = TRUE /\ UNCHANGED <<floor, a, b, s, why>>

Learn(n, t) ==
  /\ Move
  /\ Better(t, tip[n]) /\ Runs(t)
  /\ Adopt(n, t)
  /\ dirty' = (dirty \/ n = "A")
  /\ UNCHANGED early

Insert(n, o) ==
  /\ Move
  /\ o \notin pool[n] /\ Applies(n, o) /\ Storable(pool[n] \cup {o})
  /\ pool' = [pool EXCEPT ![n] = @ \cup {o}]
  /\ dirty' = (dirty \/ n = "A")
  /\ UNCHANGED <<tip, early>>

Queued(blocks) == SubSeq(blocks, IF Len(blocks) > MaxEarly THEN 2 ELSE 1, Len(blocks))

(* queue_early_relay_block *)
Download(t) ==
  /\ Move
  /\ t \notin Range(early) /\ t # Genesis
  /\ OnLine(Parent(t), tip["A"]) \/ Parent(t) \in Range(early)
  /\ early' = Queued(Append(early, t))
  /\ dirty' = TRUE
  /\ Same

-----------------------------------------------------------------------------
(* synchronize_peer_database *)
Connect ==
  /\ a = "closed"
  /\ disturbed' = FALSE
  /\ IF Allows("A", tip["B"])
     THEN /\ a' = "sync" /\ b' = "serving"
          /\ s' = [NoSession EXCEPT !.remote = tip["B"]]
          /\ why' = "none"
     ELSE why' = "below minimum" /\ UNCHANGED <<a, b, s>>
  /\ Same /\ UNCHANGED <<floor, early, dirty, moves>>

(* Headers are those of the handshake, bodies those of B's chain by now. *)
Synchronize ==
  /\ a = "sync"
  /\ \/ /\ ~ Better(s.remote, tip["A"])
        /\ Go("greet") /\ Same /\ UNCHANGED <<s, dirty>> /\ Rest
     \/ /\ Better(s.remote, tip["A"]) /\ OnLine(s.remote, tip["B"])
        /\ Adopt("A", s.remote) /\ Go("greet") /\ dirty' = TRUE /\ UNCHANGED s /\ Rest
     \/ /\ Better(s.remote, tip["A"]) /\ ~ OnLine(s.remote, tip["B"])
        /\ Fail("not canonical")
     \/ /\ Better(s.remote, tip["A"]) /\ OnLine(s.remote, tip["B"])
        /\ Crowded("A", s.remote) /\ Fail("pool too large")

Greet ==
  /\ a = "greet"
  /\ \/ /\ tip["A"] = s.remote
        /\ Go("mempool") /\ UNCHANGED s
     \/ /\ HeightOf(tip["A"]) = HeightOf(s.remote) + 1 /\ Parent(tip["A"]) = s.remote
        /\ Go("push") /\ s' = [s EXCEPT !.batch = <<tip["A"]>>, !.after = "mempool"]
     \/ /\ tip["A"] # s.remote
        /\ ~ (HeightOf(tip["A"]) = HeightOf(s.remote) + 1 /\ Parent(tip["A"]) = s.remote)
        /\ Go("loop") /\ UNCHANGED s
  /\ Same /\ UNCHANGED dirty /\ Rest

RelayMempool ==
  /\ a = "mempool"
  /\ \E items \in Take(Calls("A")) : s' = [s EXCEPT !.todo = items, !.after = "loop"]
  /\ Go("submit") /\ Same /\ UNCHANGED dirty /\ Rest

-----------------------------------------------------------------------------
(* One block is pushed; B handles SUBMIT_BLOCK or COMPACT_BLOCK. *)
Refusal(block) ==
  IF s.blocks >= MaxBlocks THEN "block limit"
  ELSE IF tip["B"] = block THEN "none"
  ELSE IF Parent(block) # tip["B"] THEN "resync"
  ELSE IF ~ Allows("B", block) THEN "below minimum"
  ELSE IF block \notin Executes THEN "invalid block"
  ELSE "none"

Push ==
  /\ a = "push" /\ s.batch # <<>>
  /\ IF Refusal(Head(s.batch)) = "none"
     THEN /\ s' = [s EXCEPT !.batch = Tail(@), !.blocks = @ + 1]
          /\ IF tip["B"] = Head(s.batch) THEN Same ELSE Adopt("B", Head(s.batch))
          /\ UNCHANGED <<a, b, dirty>> /\ Rest
     ELSE Fail(Refusal(Head(s.batch)))

Pushed ==
  /\ a = "push" /\ s.batch = <<>>
  /\ Go(s.after) /\ Same /\ UNCHANGED <<s, dirty>> /\ Rest

(* SUBMIT_TRANSACTION: a rejection ends the session on both sides. *)
Submit(o) ==
  /\ a = "submit" /\ First(o)
  /\ IF s.txs >= MaxItems THEN Fail("transaction limit")
     ELSE IF ~ Storable(pool["B"] \cup {o}) THEN Fail("pool full")
     ELSE IF o \notin pool["B"] /\ ~ Applies("B", o) THEN Fail("rejected")
     ELSE /\ pool' = [pool EXCEPT !["B"] = @ \cup {o}]
          /\ s' = [s EXCEPT !.todo = @ \ {o}, !.txs = @ + 1]
          /\ UNCHANGED <<tip, a, b, dirty>> /\ Rest

Submitted ==
  /\ a = "submit" /\ s.todo = {}
  /\ Go(s.after) /\ Same /\ UNCHANGED <<s, dirty>> /\ Rest

-----------------------------------------------------------------------------
(* One round of gossip_outbound_session. *)
ReadTip ==
  /\ a = "loop"
  /\ s' = [s EXCEPT !.sent = tip["A"]]
  /\ Go("tip") /\ Same /\ UNCHANGED dirty /\ Rest

(* The queued blocks that continue each other from the tip of B, in order. *)
Chained(blocks, t) ==
  LET chained[i \in 0 .. Len(blocks)] ==
        IF i = 0 THEN <<>>
        ELSE LET batch == chained[i - 1]
                 last  == IF batch = <<>> THEN t ELSE batch[Len(batch)]
             IN  IF Parent(blocks[i]) = last THEN Append(batch, blocks[i]) ELSE batch
  IN  chained[Len(blocks)]

ExchangeTips ==
  /\ a = "tip"
  /\ s' = [s EXCEPT !.remote = tip["B"], !.batch = Chained(early, tip["B"]), !.after = "decide"]
  /\ Go("push") /\ Same /\ UNCHANGED dirty /\ Rest

Skip ==
  /\ a = "decide" /\ ~ s.force /\ s.seen = <<s.sent, s.remote>>
  /\ s' = [s EXCEPT !.force = dirty]
  /\ dirty' = FALSE
  /\ Go("loop") /\ Same /\ Rest

(* Forced, changed, or the interval elapsed. *)
SendInventory ==
  /\ a = "decide"
  /\ s' = [s EXCEPT !.seen = <<s.sent, s.remote>>, !.force = FALSE, !.sent = tip["A"]]
  /\ Go("inventory") /\ Same /\ UNCHANGED dirty /\ Rest

AfterInventory(session, remote) ==
  [session EXCEPT !.remote = remote, !.theirs = Calls("B"), !.blocks = 0, !.txs = 0, !.reqs = 0]

ReversesByWork(sent) == Allows("B", sent) /\ TotalWork[sent] > TotalWork[tip["B"]]

Reverses(sent) == Allows("B", sent) /\ Better(sent, tip["B"])

(* INVENTORY: both sides decide from the same two inventories. *)
ExchangeInventories ==
  /\ a = "inventory"
  /\ b' = IF Reverses(s.sent) THEN "reverse" ELSE "serving"
  /\ s' = AfterInventory(s, tip["B"])
  /\ \/ tip["B"] = s.sent /\ a' = "exchange"
     \/ Better(tip["B"], s.sent) /\ Allows("A", tip["B"]) /\ a' = "shallow"
     \/ Better(s.sent, tip["B"]) /\ a' = "offer"
     \/ Better(tip["B"], s.sent) /\ ~ Allows("A", tip["B"]) /\ a' = "loop"
  /\ dirty' = (dirty /\ a' # "loop")
  /\ Same /\ Rest

-----------------------------------------------------------------------------
OnlyNext ==
  /\ a = "shallow"
  /\ s' = [s EXCEPT !.mine = tip["A"]]
  /\ IF HeightOf(s.remote) = HeightOf(tip["A"]) + 1
     THEN Go("compact") /\ UNCHANGED dirty
     ELSE Go("loop") /\ dirty' = FALSE
  /\ Same /\ Rest

(* try_shallow_gossip_reorg *)
Shallow ==
  /\ a = "shallow"
  /\ s' = [s EXCEPT !.mine = tip["A"]]
  /\ IF ~ Better(s.remote, tip["A"])
     THEN Go("loop") /\ dirty' = FALSE
     ELSE /\ Go(IF HeightOf(s.remote) = HeightOf(tip["A"]) + 1 THEN "compact" ELSE "descend")
          /\ UNCHANGED dirty
  /\ Same /\ Rest

PullCompact ==
  /\ a = "compact"
  /\ IF ~ OnLine(s.remote, tip["B"]) THEN Fail("not canonical")
     ELSE IF tip["A"] = s.remote
     THEN Go("loop") /\ dirty' = FALSE /\ Same /\ UNCHANGED s /\ Rest
     ELSE IF Parent(s.remote) = tip["A"]
     THEN Go("loop") /\ dirty' = FALSE /\ Adopt("A", s.remote) /\ UNCHANGED s /\ Rest
     ELSE Go("descend") /\ Same /\ UNCHANGED <<s, dirty>> /\ Rest

Descend ==
  /\ a = "descend"
  /\ IF ~ OnLine(s.remote, tip["B"]) THEN Fail("not canonical")
     ELSE IF HeightOf(s.remote) - HeightOf(Common(s.remote, s.mine)) > MaxDepth THEN Fail("resync")
     ELSE Go("apply") /\ Same /\ UNCHANGED <<s, dirty>> /\ Rest

(* apply_verified_branch, under the mutation lock *)
Apply ==
  /\ a = "apply"
  /\ IF ~ Better(s.remote, tip["A"])
     THEN Go("loop") /\ dirty' = FALSE /\ Same /\ UNCHANGED s /\ Rest
     ELSE IF ~ OnLine(Common(s.remote, s.mine), tip["A"])
     THEN Fail("ancestor")
     ELSE \/ Go("loop") /\ dirty' = FALSE /\ Adopt("A", s.remote) /\ UNCHANGED s /\ Rest
          \/ Crowded("A", s.remote) /\ Fail("pool too large")

-----------------------------------------------------------------------------
(* A's chain is the better one: it serves B on the same connection. *)
Offer ==
  /\ a = "offer"
  /\ IF OnLine(s.sent, tip["A"])
     THEN Go("serve") /\ Same /\ UNCHANGED <<s, dirty>> /\ Rest
     ELSE Fail("resync")

ReverseSync ==
  /\ a = "serve" /\ b = "reverse"
  /\ \/ ~ Better(s.sent, tip["B"]) /\ Same /\ Quit /\ UNCHANGED why
     \/ Better(s.sent, tip["B"]) /\ OnLine(s.sent, tip["A"]) /\ Adopt("B", s.sent) /\ Quit /\ UNCHANGED why
     \/ Better(s.sent, tip["B"]) /\ ~ OnLine(s.sent, tip["A"]) /\ Fail("not canonical")
     \/ Better(s.sent, tip["B"]) /\ OnLine(s.sent, tip["A"]) /\ Crowded("B", s.sent) /\ Fail("pool too large")

(* Both sides read: P2P_SESSION_TIMEOUT. *)
Timeout == a = "serve" /\ b = "serving" /\ Fail("timeout")

-----------------------------------------------------------------------------
(* exchange_gossip_transactions *)
Request ==
  /\ a = "exchange"
  /\ \E items \in Take(s.theirs \ Calls("A")) : s' = [s EXCEPT !.todo = items]
  /\ Go("fetch") /\ Same /\ UNCHANGED dirty /\ Rest

(* GET_TRANSACTION *)
Fetch(o) ==
  /\ a = "fetch" /\ First(o)
  /\ IF s.reqs >= MaxItems THEN Fail("transaction limit")
     ELSE IF o \notin pool["B"] THEN Fail("missing transaction")
     ELSE IF ~ Storable(pool["A"] \cup {o}) THEN Fail("pool full")
     ELSE IF o \notin pool["A"] /\ ~ Applies("A", o) THEN Fail("rejected")
     ELSE /\ pool' = [pool EXCEPT !["A"] = @ \cup {o}]
          /\ dirty' = (dirty \/ o \notin pool["A"])
          /\ s' = [s EXCEPT !.todo = @ \ {o}, !.reqs = @ + 1]
          /\ UNCHANGED <<tip, a, b>> /\ Rest

Offered(items) == Take(items)

Fetched ==
  /\ a = "fetch" /\ s.todo = {}
  /\ \E items \in Offered(Calls("A") \ s.theirs) : s' = [s EXCEPT !.todo = items, !.after = "wait"]
  /\ Go("submit") /\ Same /\ UNCHANGED dirty /\ Rest

(* AdmissionGate::enter: two others are validating operations. *)
Busy == a \in {"submit", "fetch"} /\ s.todo # {} /\ Fail("busy")

Wait ==
  /\ a = "wait"
  /\ s' = [s EXCEPT !.force = dirty, !.theirs = {}, !.mine = Genesis]
  /\ dirty' = FALSE
  /\ Go("loop") /\ Same /\ Rest

-----------------------------------------------------------------------------
Step ==
  \/ Connect \/ Synchronize \/ Greet \/ RelayMempool \/ Push \/ Pushed \/ Submitted
  \/ ReadTip \/ ExchangeTips \/ SendInventory \/ Skip \/ ExchangeInventories
  \/ Shallow \/ PullCompact \/ Descend \/ Apply
  \/ Offer \/ ReverseSync \/ Timeout \/ Request \/ Fetched \/ Busy \/ Wait
  \/ \E o \in Op : Submit(o) \/ Fetch(o)

Next ==
  \/ Step
  \/ \E n \in Node, t \in Block : Learn(n, t)
  \/ \E n \in Node, o \in Op : Insert(n, o)
  \/ \E t \in Block : Download(t)

(* Both threads run, every read and write has a time limit, the supervisor  *)
(* dials again, and the inventory interval elapses however often a round    *)
(* skips the inventory.                                                     *)
Fairness == WF_vars(Step) /\ SF_vars(SendInventory)

Spec == Init /\ [][Next]_vars /\ Fairness

-----------------------------------------------------------------------------
Conflict ==
  \E o \in pool["A"], p \in pool["B"] : o # p /\ CoinOf[o] = CoinOf[p]

(* A queued block that B refuses continues B's tip. *)
Poisoned ==
  \E i \in DOMAIN early :
    Parent(early[i]) = tip["B"] /\ (early[i] \notin Executes \/ ~ Allows("B", early[i]))

(* A call whose deployment is pending at its node, and not at the other. *)
Undelivered ==
  \E n, m \in Node : \E o \in Calls(n) : \E p \in Needs[o] \cap Deploys :
    p \in pool[n] \ pool[m]

(* A node whose pool would be too large on the other's better chain. *)
Overfull == \E n, m \in Node : Better(tip[m], tip[n]) /\ Crowded(n, tip[m])

BelowFloor == ~ Allows("A", tip["B"]) \/ ~ Allows("B", tip["A"])

(* A session fails for a tip or an operation that is gone only if a node    *)
(* changed during it, and for a rejected operation only if a node changed,  *)
(* the pools hold conflicting operations, or the operation calls a program  *)
(* whose deployment is pending: it is not relayed.  In particular no call   *)
(* arrives before one that it builds on.  (A full pool, a busy gate and the *)
(* limits end sessions besides.)                                            *)
FailsOnlyByRace ==
  /\ why \in {"not canonical", "missing transaction", "ancestor"} => disturbed
  /\ why = "rejected" => disturbed \/ Conflict \/ Undelivered

(* A serves B's requests only if B is about to make them; both wait for the *)
(* other only if A's better chain is below B's minimum.                     *)
MutualWaitOnlyBelowMinimum ==
  a = "serve" => (b = "reverse" \/ ~ Allows("B", s.sent))

(* Once the nodes hear nothing new from others, they end on one tip, unless *)
(* one is below the other's minimum, one cannot store the pool it would     *)
(* have on the other's chain, or A keeps offering B a queued block that     *)
(* does not execute or is below B's minimum, and each session fails.        *)
TipsConverge ==
  <>[](tip["A"] = tip["B"]) \/ []<>(BelowFloor \/ Poisoned \/ Overfull)

=============================================================================
