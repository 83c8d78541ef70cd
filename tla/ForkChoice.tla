----------------------------- MODULE ForkChoice -----------------------------
(***************************************************************************)
(* The tree of known blocks and the choice of its best tip:                *)
(* kernel/src/consensus/fork/graph.rs, ordering.rs and reorg.rs.           *)
(*                                                                         *)
(* Candidate is the set of blocks that may be offered to insert_block, in  *)
(* any order and any number of times.  A block is a record of              *)
(*   hash    its hash, a number (hashes are compared numerically)          *)
(*   parent  the hash of its parent                                        *)
(*   height, bits, weight                                                  *)
(*   sound   what validate_structure says                                  *)
(*   pow     whether its hash meets the target of its bits                 *)
(***************************************************************************)
EXTENDS Difficulty

CONSTANTS
  Candidate,        \* the blocks that may be offered
  ExpectedGenesis,  \* the hash of the configured genesis
  GenesisBits,      \* GENESIS_TARGET_BITS
  NoHash            \* the all-zero hash, and the absent best tip

BlockType == [hash : Nat, parent : Nat \cup {NoHash}, height : Nat,
              bits : Nat, weight : Nat, sound : BOOLEAN, pow : BOOLEAN]

ASSUME ForkChoiceAssumption ==
  /\ Candidate \subseteq BlockType
  /\ \A b, c \in Candidate : b.hash = c.hash => b = c
  /\ NoHash \notin Nat

VARIABLES
  nodes,   \* ForkChoice.nodes: hash -> BlockNode
  best     \* ForkChoice.best_tip, NoHash for None

treeVars == <<nodes, best>>

BlockNode == [block : Candidate, work : Nat, weight : Nat]

-----------------------------------------------------------------------------
(* compare_chain_tips: more work, then more weight, then the smaller hash. *)
GreaterTotals(m, n) ==
  \/ m.work > n.work
  \/ m.work = n.work /\ m.weight > n.weight

Greater(m, n) ==
  \/ m.work > n.work
  \/ m.work = n.work /\ m.weight > n.weight
  \/ m.work = n.work /\ m.weight = n.weight /\ m.block.hash < n.block.hash

(* ancestor_hashes: from a hash down to genesis, or to a missing parent. *)
AncestorHashes(tree, hash) ==
  LET from[h \in DOMAIN tree] ==
        LET b == tree[h].block
        IN  IF b.height = 0 \/ b.parent \notin DOMAIN tree
            THEN <<h>>
            ELSE <<h>> \o from[b.parent]
  IN  IF hash \in DOMAIN tree THEN from[hash] ELSE <<>>

WeightsOfWholeTree(tree, hash) ==
  [h \in {tree[a].block.height : a \in DOMAIN tree} |->
     tree[CHOOSE a \in DOMAIN tree : tree[a].block.height = h].block.weight]

(* The weights of a branch by height, as ancestor_at_height finds them. *)
BranchWeights(tree, hash) ==
  LET line == Range(AncestorHashes(tree, hash))
  IN  [h \in {tree[a].block.height : a \in line} |->
         tree[CHOOSE a \in line : tree[a].block.height = h].block.weight]

-----------------------------------------------------------------------------
(* The checks of insert_block. *)
Admissible(b) ==
  /\ b.sound
  /\ b.hash \notin DOMAIN nodes
  /\ IF b.height = 0 THEN b.bits = GenesisBits ELSE ValidBits(b.bits)
  /\ b.height = 0 \/ ValidWeight(b.weight)

IsGenesis(b) == b.hash = ExpectedGenesis /\ b.parent = NoHash

Extends(b) ==
  /\ b.parent \in DOMAIN nodes
  /\ b.height = nodes[b.parent].block.height + 1
  /\ LET seen == BranchWeights(nodes, b.parent)
     IN  /\ WindowVisible(b.height, seen)
         /\ b.bits = ExpectedDifficulty(b.height,
                       nodes[b.parent].block.bits, seen)
  /\ b.pow

NodeOf(b) ==
  IF b.height = 0
  THEN [block |-> b, work |-> 0, weight |-> 0]
  ELSE [block  |-> b,
        work   |-> SaturatingSum(nodes[b.parent].work,
                                 BlockWork(b.bits), MaxWork),
        weight |-> SaturatingSum(nodes[b.parent].weight,
                                 b.weight, MaxWeight)]

FirstSeenOnTie(node) ==
  IF best = NoHash \/ GreaterTotals(node, nodes[best])
  THEN node.block.hash ELSE best

(* update_best_tip *)
UpdateBestTip(node) ==
  IF best = NoHash \/ Greater(node, nodes[best])
  THEN node.block.hash ELSE best

TreeInit == nodes = <<>> /\ best = NoHash

(* insert_block, when it accepts the block; a refused block changes         *)
(* nothing.                                                                 *)
InsertBlock(b) ==
  /\ Admissible(b)
  /\ IF b.height = 0 THEN IsGenesis(b) ELSE Extends(b)
  /\ nodes' = [h \in DOMAIN nodes \cup {b.hash} |->
                 IF h = b.hash THEN NodeOf(b) ELSE nodes[h]]
  /\ best' = UpdateBestTip(NodeOf(b))

TreeNext == \E b \in Candidate : InsertBlock(b)

TreeSpec == TreeInit /\ [][TreeNext]_treeVars

-----------------------------------------------------------------------------
(* The hashes collected walking down, in chain order. *)
Reverse(s) == [i \in 1 .. Len(s) |-> s[Len(s) - i + 1]]

(* plan_reorg: what is disconnected, tip first, and what is connected.      *)
BranchFrom(tree, ancestor, tip) ==
  LET line == AncestorHashes(tree, tip)
      last == CHOOSE i \in 0 .. Len(line) :
                /\ \A j \in 1 .. i : line[j] # ancestor
                /\ i < Len(line) => line[i + 1] = ancestor
  IN  SubSeq(line, 1, last)

RootAsAncestor(tree, old, new) ==
  LET line == AncestorHashes(tree, new)
  IN  line[Len(line)]

CommonAncestor(tree, old, new) ==
  LET line   == AncestorHashes(tree, new)
      shared == {i \in 1 .. Len(line) :
                   line[i] \in Range(AncestorHashes(tree, old))}
  IN  line[CHOOSE i \in shared : \A j \in shared : i <= j]

PlanReorg(tree, old, new) ==
  LET ancestor == CommonAncestor(tree, old, new)
  IN  [ancestor   |-> ancestor,
       disconnect |-> BranchFrom(tree, ancestor, old),
       apply      |-> Reverse(BranchFrom(tree, ancestor, new))]

-----------------------------------------------------------------------------
(* The nodes are candidates stored under their own hash. *)
TypeOK ==
  /\ DOMAIN nodes \subseteq {b.hash : b \in Candidate}
  /\ \A h \in DOMAIN nodes : nodes[h] \in BlockNode /\ nodes[h].block.hash = h
  /\ best \in DOMAIN nodes \cup {NoHash}

(* The tip a set of known blocks determines by itself. *)
Preferred(tree) ==
  CHOOSE h \in DOMAIN tree :
    \A k \in DOMAIN tree \ {h} : Greater(tree[h], tree[k])

(* "Every node reaches the same result without trusting peer identity or    *)
(* arrival order" (ordering.rs): the best tip is a function of the set of   *)
(* blocks known, whatever the order insert_block received them in.          *)
TipIndependentOfArrival ==
  IF DOMAIN nodes = {} THEN best = NoHash ELSE best = Preferred(nodes)

(* The line from genesis to a block. *)
LineOf(h) == Reverse(AncestorHashes(nodes, h))

(* The bits of an accepted block are fixed by the weights of its own        *)
(* ancestors alone.                                                         *)
BitsFollowOwnBranch ==
  \A h \in DOMAIN nodes :
    LET b       == nodes[h].block
        line    == LineOf(h)
        weights == [i \in 1 .. b.height |-> nodes[line[i + 1]].block.weight]
    IN  b.height > 0 =>
          b.bits = EpochBits(weights, (b.height - 1) \div WbdaWindow)

(* A reorg plan between any two known tips is one that ReorgPlan::new       *)
(* accepts, disconnects no block it connects again, and turns the old       *)
(* chain into the new one.                                                  *)
LinkedDown(hashes) ==
  \A i \in 1 .. Len(hashes) - 1 : nodes[hashes[i]].block.parent = hashes[i + 1]

ReorgPlanConnects ==
  \A old, new \in DOMAIN nodes :
    LET plan == PlanReorg(nodes, old, new)
        kept == Len(LineOf(old)) - Len(plan.disconnect)
    IN  /\ plan.disconnect = <<>> <=> old = plan.ancestor
        /\ LinkedDown(plan.disconnect \o <<plan.ancestor>>)
        /\ LinkedDown(Reverse(<<plan.ancestor>> \o plan.apply))
        /\ Range(plan.disconnect) \cap Range(plan.apply) = {}
        /\ SubSeq(LineOf(old), 1, kept) \o plan.apply = LineOf(new)

=============================================================================
