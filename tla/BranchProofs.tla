---------------------------- MODULE BranchProofs ----------------------------
(* Proofs about branches: what the fork tree makes of them, and how two     *)
(* nodes exchange them in a gossip session.                                 *)
(*                                                                          *)
(* ForkChoice, for every set of blocks and every target window: the tip     *)
(* depends on the known blocks only, a reorganization plan leads from one   *)
(* chain to the other, and every target follows the branch of its block     *)
(* (TreeInv, LineInv).                                                      *)
(* GossipSession, for every tree of blocks, operations and minimums: a      *)
(* session fails only by a race, a conflict, a missing deployment or a      *)
(* limit, and nodes wait for each other only below a minimum (SessionInv).  *)
(*                                                                          *)
(* Induction over heights is done on sets of numbers (Induct), and a        *)
(* recursive function is reasoned about as one that satisfies its equation  *)
(* (Targets, IsChained).                                                    *)
EXTENDS ForkChoice, GossipSession, WellFoundedInduction, TLAPS

(* A part of a sequence of numbers. *)
LEMMA PartOfNumbers ==
  ASSUME NEW u \in Seq(Nat), NEW m \in 1 .. Len(u) + 1, NEW n \in (m - 1) .. Len(u)
  PROVE  /\ SubSeq(u, m, n) \in Seq(Nat) /\ Len(SubSeq(u, m, n)) = n - m + 1
         /\ \A k \in 1 .. n - m + 1 : SubSeq(u, m, n)[k] = u[m + k - 1]
<1>1. \A k \in m .. n : k \in 1 .. Len(u)
  OBVIOUS
<1>2. SubSeq(u, m, n) \in Seq(Nat)
  BY <1>1
<1>3. Len(SubSeq(u, m, n)) = n - m + 1
  OBVIOUS
<1>4. \A k \in 1 .. n - m + 1 : SubSeq(u, m, n)[k] = u[m + k - 1]
  OBVIOUS
<1> QED
  BY <1>2, <1>3, <1>4, Zenon

(* A set of numbers that is not empty has a least element. *)
LEMMA Least ==
  ASSUME NEW S \in SUBSET Nat, S # {}
  PROVE  \E n \in S : \A m \in S : n <= m
<1> DEFINE R == OpToRel(<, Nat)
<1>1. IsWellFoundedOn(R, Nat)
  BY NatLessThanWellFounded, Zenon
<1>2. \A m, n \in Nat : m < n => <<m, n>> \in R
  BY Zenon DEF OpToRel
<1> HIDE DEF R
<1>3. PICK n \in S : \A m \in S : ~ (<<m, n>> \in R)
  BY <1>1, WFMin, Zenon
<1>4. \A m \in S : ~ (m < n)
  BY <1>2, <1>3, Zenon
<1>5. QED
  BY <1>4

(* A set of numbers that is bounded and not empty has a greatest element. *)
LEMMA Greatest ==
  ASSUME NEW S \in SUBSET Nat, S # {}, NEW top \in Nat, \A n \in S : n <= top
  PROVE  \E n \in S : \A m \in S : m <= n
<1> DEFINE T == {k \in Nat : \A n \in S : n <= k}
<1>1. T \in SUBSET Nat /\ T # {}
  <2>1. top \in T
    BY Zenon
  <2>2. QED
    BY <2>1, Zenon
<1> HIDE DEF T
<1>2. PICK t \in T : \A u \in T : t <= u
  BY <1>1, Least, Zenon
<1>3. t \in Nat /\ \A n \in S : n <= t
  BY Zenon DEF T
<1>4. t \in S
  <2> SUFFICES ASSUME t \notin S PROVE FALSE
    BY Zenon
  <2>1. PICK n \in S : TRUE
    BY Zenon
  <2>2. n \in Nat /\ n < t
    BY <1>3
  <2>3. t - 1 \in Nat
    BY <1>3, <2>2
  <2>4. \A m \in S : m <= t - 1
    BY <1>3
  <2>5. t - 1 \in T
    BY <2>3, <2>4, Zenon DEF T
  <2>6. QED
    BY <1>2, <1>3, <2>5
<1>5. QED
  BY <1>3, <1>4, Zenon

(* A set that has 0, and with a number below a bound the next one, has every *)
(* number up to the bound.                                                   *)
LEMMA Induct ==
  ASSUME NEW S, 0 \in S, NEW top \in Nat,
         \A n \in Nat : n \in S /\ n < top => n + 1 \in S
  PROVE  \A n \in 0 .. top : n \in S
<1> SUFFICES ASSUME NEW k \in 0 .. top, k \notin S PROVE FALSE
  BY Zenon
<1> DEFINE T == {n \in 0 .. top : n \notin S}
<1>1. T \in SUBSET Nat /\ T # {}
  OBVIOUS
<1> HIDE DEF T
<1>2. PICK t \in T : \A u \in T : t <= u
  BY <1>1, Least, Zenon
<1>3. t \in 0 .. top /\ t \notin S
  BY Zenon DEF T
<1>4. t # 0 /\ t - 1 \in 0 .. top
  BY <1>3
<1>5. t - 1 \in S
  BY <1>2, <1>3, <1>4 DEF T
<1>6. QED
  BY <1>3, <1>4, <1>5
-----------------------------------------------------------------------------
(* What insert_block keeps between calls: a tip is held as soon as a block  *)
(* is, and it beats every other block.                                      *)
TipInv ==
  /\ DOMAIN nodes = {} <=> best = NoHash
  /\ best # NoHash => \A k \in DOMAIN nodes \ {best} :
                        Greater(nodes[best], nodes[k])

(* The first inductive invariant of the fork tree. *)
TreeInv == TypeOK /\ TipInv

-----------------------------------------------------------------------------
(* compare_chain_tips never finds two tips better than each other. *)
LEMMA GreaterIrreflexive ==
  ASSUME NEW m \in BlockNode, NEW n \in BlockNode, Greater(m, n)
  PROVE  ~ Greater(n, m)
BY ForkChoiceAssumption DEF Greater, BlockNode, BlockType

(* compare_chain_tips decides between any two blocks of different hashes. *)
LEMMA GreaterTotal ==
  ASSUME NEW m \in BlockNode, NEW n \in BlockNode, m.block.hash # n.block.hash
  PROVE  Greater(m, n) \/ Greater(n, m)
BY ForkChoiceAssumption DEF Greater, BlockNode, BlockType

(* The preference of compare_chain_tips is transitive. *)
LEMMA GreaterTransitive ==
  ASSUME NEW l \in BlockNode, NEW m \in BlockNode, NEW n \in BlockNode,
         Greater(l, m), Greater(m, n)
  PROVE  Greater(l, n)
BY ForkChoiceAssumption DEF Greater, BlockNode, BlockType

(* A decodable target has a natural amount of work. *)
LEMMA WorkIsNatural ==
  ASSUME NEW bits, ValidBits(bits)
  PROVE  BlockWork(bits) \in Nat
<1> DEFINE t == FromCompact(bits)
<1>1. t \in 1 .. HashSpace - 1
  BY Zenon DEF ValidBits
<1> HIDE DEF t
<1>2. HashSpace \div (t + 1) \in Nat
  BY <1>1, DifficultyAssumption
<1> QED
  BY <1>2, Zenon DEF BlockWork, t

(* The saturated sum of two totals is a total. *)
LEMMA SumIsNatural ==
  ASSUME NEW m \in Nat, NEW n \in Nat, NEW max \in Nat
  PROVE  SaturatingSum(m, n, max) \in Nat
BY DEF SaturatingSum

(* insert_block stores a well-formed node. *)
LEMMA NodeOfType ==
  ASSUME TypeOK, NEW c \in Candidate, Admissible(c),
         c.height # 0 => c.parent \in DOMAIN nodes
  PROVE  NodeOf(c) \in BlockNode /\ NodeOf(c).block = c
<1>1. c \in BlockType
  BY ForkChoiceAssumption, Zenon
<1>2. CASE c.height = 0
  BY <1>2, Zenon DEF NodeOf, BlockNode
<1>3. CASE c.height # 0
  <2>1. nodes[c.parent].work \in Nat /\ nodes[c.parent].weight \in Nat
    BY <1>3, Zenon DEF TypeOK, BlockNode
  <2>2. BlockWork(c.bits) \in Nat
    BY <1>3, WorkIsNatural, Zenon DEF Admissible
  <2>3. c.weight \in Nat
    BY <1>1, Zenon DEF BlockType
  <2>4. SaturatingSum(nodes[c.parent].work, BlockWork(c.bits), MaxWork) \in Nat
    BY <2>1, <2>2, SumIsNatural, DifficultyAssumption, Zenon
  <2>5. SaturatingSum(nodes[c.parent].weight, c.weight, MaxWeight) \in Nat
    BY <2>1, <2>3, SumIsNatural, DifficultyAssumption, Zenon
  <2> QED
    BY <1>3, <2>4, <2>5, Zenon DEF NodeOf, BlockNode
<1> QED
  BY <1>2, <1>3, Zenon

(* The comparison with the stored tip that update_best_tip makes keeps a    *)
(* tip that beats every other block.                                        *)
LEMMA StepTip ==
  ASSUME TreeInv, NEW c \in Candidate, InsertBlock(c)
  PROVE  TreeInv'
<1> DEFINE n == NodeOf(c)
<1>1. c.height # 0 => c.parent \in DOMAIN nodes
  BY Zenon DEF InsertBlock, Extends
<1>2. n \in BlockNode /\ n.block = c
  BY <1>1, NodeOfType, Zenon DEF InsertBlock, TreeInv
<1>3. c.hash \in Nat /\ c.hash \notin DOMAIN nodes /\ c.hash # NoHash
  BY ForkChoiceAssumption, Zenon DEF InsertBlock, Admissible, BlockType
<1>4. /\ DOMAIN nodes' = DOMAIN nodes \cup {c.hash}
      /\ nodes'[c.hash] = n
      /\ \A h \in DOMAIN nodes : nodes'[h] = nodes[h]
      /\ best' = IF best = NoHash \/ Greater(n, nodes[best]) THEN c.hash ELSE best
  BY <1>2, <1>3, Zenon DEF InsertBlock, UpdateBestTip
<1> HIDE DEF n
<1>5. TypeOK'
  BY <1>2, <1>3, <1>4, Zenon DEF TreeInv, TypeOK
<1>6. \A h \in DOMAIN nodes : nodes[h] \in BlockNode /\ nodes[h].block.hash = h
  BY Zenon DEF TreeInv, TypeOK
<1>7. CASE best = NoHash
  <2>1. DOMAIN nodes = {}
    BY <1>7, Zenon DEF TreeInv, TipInv
  <2> QED
    BY <1>3, <1>4, <1>5, <1>7, <2>1, Zenon DEF TreeInv, TipInv
<1>8. CASE best # NoHash
  <2>1. best \in DOMAIN nodes /\ nodes[best] \in BlockNode /\ nodes[best].block.hash = best
    BY <1>6, <1>8, Zenon DEF TreeInv, TypeOK
  <2>2. CASE Greater(n, nodes[best])
    <3>1. \A k \in DOMAIN nodes : Greater(n, nodes[k])
      BY <1>2, <1>6, <1>8, <2>1, <2>2, GreaterTransitive, Zenon DEF TreeInv, TipInv
    <3>2. best' = c.hash
      BY <1>4, <2>2, Zenon
    <3> QED
      BY <1>3, <1>4, <1>5, <3>1, <3>2, Zenon DEF TreeInv, TipInv
  <2>3. CASE ~ Greater(n, nodes[best])
    <3>1. Greater(nodes[best], n)
      BY <1>2, <1>3, <2>1, <2>3, GreaterTotal, Zenon
    <3>2. best' = best
      BY <1>4, <1>8, <2>3, Zenon
    <3> QED
      BY <1>3, <1>4, <1>5, <1>8, <2>1, <3>1, <3>2, Zenon DEF TreeInv, TipInv
  <2> QED
    BY <2>2, <2>3, Zenon
<1> QED
  BY <1>7, <1>8, Zenon

(* TipInv holds in every reachable state of the fork tree. *)
THEOREM TreeInvariance == TreeSpec => []TreeInv
<1>1. TreeInit => TreeInv
  BY DEF TreeInit, TreeInv, TypeOK, TipInv
<1>2. TreeInv /\ [TreeNext]_treeVars => TreeInv'
  <2> SUFFICES ASSUME TreeInv, [TreeNext]_treeVars PROVE TreeInv'
    BY Zenon
  <2>1. ASSUME NEW c \in Candidate, InsertBlock(c) PROVE TreeInv'
    BY <2>1, StepTip, Zenon
  <2>2. CASE UNCHANGED treeVars
    BY <2>2, Zenon DEF treeVars, TreeInv, TypeOK, TipInv, BlockNode
  <2> QED
    BY <2>1, <2>2, Zenon DEF TreeNext
<1> QED
  BY <1>1, <1>2, PTL DEF TreeSpec

(* The tip held is the one the set of known blocks determines. *)
LEMMA TipIsPreferred ==
  ASSUME TreeInv
  PROVE  TipIndependentOfArrival
<1>1. CASE DOMAIN nodes = {}
  BY <1>1, Zenon DEF TreeInv, TipInv, TipIndependentOfArrival
<1>2. CASE DOMAIN nodes # {}
  <2>1. best \in DOMAIN nodes /\ \A k \in DOMAIN nodes \ {best} :
                                  Greater(nodes[best], nodes[k])
    BY <1>2, Zenon DEF TreeInv, TipInv, TypeOK
  <2>2. \A h \in DOMAIN nodes :
          (\A k \in DOMAIN nodes \ {h} : Greater(nodes[h], nodes[k])) => h = best
    BY <2>1, GreaterIrreflexive, Zenon DEF TreeInv, TypeOK
  <2>3. Preferred(nodes) = best
    BY <2>1, <2>2, Zenon DEF Preferred
  <2> QED
    BY <1>2, <2>3, Zenon DEF TipIndependentOfArrival
<1> QED
  BY <1>1, <1>2, Zenon

(* The tip held after any sequence of insert_block calls is a function of   *)
(* the set of blocks accepted, for every set of candidate blocks.           *)
THEOREM ArrivalOrderIsIrrelevant == TreeSpec => []TipIndependentOfArrival
BY TreeInvariance, TipIsPreferred, PTL

-----------------------------------------------------------------------------

(* The height of a stored block, and the hash of its parent. *)
Height(tree, h) == tree[h].block.height

Above(tree, h) == tree[h].block.parent

(* A node that is not the root has its parent below it. *)
Rooted(tree) ==
  \A h \in DOMAIN tree :
    \/ Height(tree, h) = 0 /\ h = ExpectedGenesis
    \/ /\ Height(tree, h) # 0 /\ Above(tree, h) \in DOMAIN tree
       /\ Height(tree, h) = Height(tree, Above(tree, h)) + 1

(* The walk of ancestor_hashes comes to an end from every node. *)
Walked(tree) ==
  \E f : f = [h \in DOMAIN tree |->
                IF tree[h].block.height = 0 \/ tree[h].block.parent \notin DOMAIN tree
                THEN <<h>> ELSE <<h>> \o f[tree[h].block.parent]]

(* The tree stores each block under its hash, and what insert_block keeps   *)
(* of its shape.                                                            *)
Stored(tree) ==
  \A h \in DOMAIN tree : tree[h] \in BlockNode /\ tree[h].block.hash = h

(* The shape of the tree. *)
Ancestry(tree) == Stored(tree) /\ Rooted(tree) /\ Walked(tree)

-----------------------------------------------------------------------------
(* What a node is. *)
LEMMA NodeFacts ==
  ASSUME NEW tree, Stored(tree), NEW h \in DOMAIN tree
  PROVE  Height(tree, h) \in Nat /\ tree[h].block \in BlockType
<1>1. tree[h] \in BlockNode
  BY Zenon DEF Stored
<1>2. tree[h].block \in BlockType
  BY <1>1, ForkChoiceAssumption, Zenon DEF BlockNode
<1>3. QED
  BY <1>2, Zenon DEF BlockType, Height

(* ancestor_hashes steps from a block to its parent. *)
LEMMA WalkStep ==
  ASSUME NEW tree, Ancestry(tree), NEW h \in DOMAIN tree
  PROVE  AncestorHashes(tree, h) =
           IF Height(tree, h) = 0 THEN <<h>> ELSE <<h>> \o AncestorHashes(tree, Above(tree, h))
<1> DEFINE from == CHOOSE f : f = [x \in DOMAIN tree |->
                IF tree[x].block.height = 0 \/ tree[x].block.parent \notin DOMAIN tree
                THEN <<x>> ELSE <<x>> \o f[tree[x].block.parent]]
<1>1. from = [x \in DOMAIN tree |->
                IF tree[x].block.height = 0 \/ tree[x].block.parent \notin DOMAIN tree
                THEN <<x>> ELSE <<x>> \o from[tree[x].block.parent]]
  BY Zenon DEF Ancestry, Walked
<1>2. \A x \in DOMAIN tree : AncestorHashes(tree, x) = from[x]
  BY Zenon DEF AncestorHashes
<1> HIDE DEF from
<1>3. from[h] = IF tree[h].block.height = 0 \/ tree[h].block.parent \notin DOMAIN tree
                THEN <<h>> ELSE <<h>> \o from[tree[h].block.parent]
  BY <1>1, Zenon
<1>4. Height(tree, h) # 0 => Above(tree, h) \in DOMAIN tree
  BY Zenon DEF Ancestry, Rooted
<1>5. CASE Height(tree, h) = 0
  BY <1>2, <1>3, <1>5, Zenon DEF Height
<1>6. CASE Height(tree, h) # 0
  <2>1. from[h] = <<h>> \o from[Above(tree, h)]
    BY <1>3, <1>4, <1>6, Zenon DEF Height, Above
  <2>2. from[Above(tree, h)] = AncestorHashes(tree, Above(tree, h))
    BY <1>2, <1>4, <1>6, Zenon
  <2>3. QED
    BY <1>2, <1>6, <2>1, <2>2, Zenon
<1>7. QED
  BY <1>5, <1>6, Zenon

(* The ancestors of a block, tip first: one at each height down to the      *)
(* genesis, each the parent of the one before.                              *)
Descends(tree, line, h) ==
  /\ line \in Seq(DOMAIN tree) /\ Len(line) = Height(tree, h) + 1
  /\ line[1] = h /\ line[Len(line)] = ExpectedGenesis
  /\ \A i \in 1 .. Len(line) : Height(tree, line[i]) = Height(tree, h) - i + 1
  /\ \A i \in 1 .. Len(line) - 1 : Above(tree, line[i]) = line[i + 1]

(* ancestor_hashes returns the line of a block. *)
LEMMA LinesDescend ==
  ASSUME NEW tree, Ancestry(tree), NEW h \in DOMAIN tree
  PROVE  Descends(tree, AncestorHashes(tree, h), h)
<1> DEFINE L(x) == AncestorHashes(tree, x)
           S == {n \in Nat : \A x \in DOMAIN tree : Height(tree, x) = n => Descends(tree, L(x), x)}
<1>1. \A x \in DOMAIN tree :
        /\ Height(tree, x) \in Nat
        /\ L(x) = IF Height(tree, x) = 0 THEN <<x>> ELSE <<x>> \o L(Above(tree, x))
        /\ IF Height(tree, x) = 0 THEN x = ExpectedGenesis
           ELSE Above(tree, x) \in DOMAIN tree /\ Height(tree, x) = Height(tree, Above(tree, x)) + 1
  BY WalkStep, NodeFacts, Zenon DEF Ancestry, Rooted
<1> HIDE DEF L
<1>2. 0 \in S
  <2> SUFFICES ASSUME NEW x \in DOMAIN tree, Height(tree, x) = 0 PROVE Descends(tree, L(x), x)
    BY Zenon
  <2>1. L(x) = <<x>> /\ x = ExpectedGenesis
    BY <1>1, Zenon
  <2>2. QED
    BY <2>1 DEF Descends
<1>3. ASSUME NEW n \in Nat, n \in S PROVE n + 1 \in S
  <2>0. \A y \in DOMAIN tree : Height(tree, y) = n => Descends(tree, L(y), y)
    BY <1>3, Zenon
  <2> SUFFICES ASSUME NEW x \in DOMAIN tree, Height(tree, x) = n + 1 PROVE Descends(tree, L(x), x)
    OBVIOUS
  <2>1. /\ L(x) = <<x>> \o L(Above(tree, x)) /\ Above(tree, x) \in DOMAIN tree
        /\ Height(tree, Above(tree, x)) = n
    <3>1. /\ Height(tree, x) # 0 /\ L(x) = <<x>> \o L(Above(tree, x)) /\ Above(tree, x) \in DOMAIN tree
          /\ Height(tree, x) = Height(tree, Above(tree, x)) + 1
      BY <1>1
    <3>2. Height(tree, Above(tree, x)) \in Nat
      BY <1>1, <3>1, Zenon
    <3>3. QED
      BY <3>1, <3>2
  <2>2. Descends(tree, L(Above(tree, x)), Above(tree, x))
    BY <2>0, <2>1, Zenon
  <2> DEFINE up == L(Above(tree, x))
  <2> HIDE DEF up
  <2>3. /\ up \in Seq(DOMAIN tree) /\ Len(up) = n + 1
        /\ up[1] = Above(tree, x) /\ up[n + 1] = ExpectedGenesis
        /\ \A i \in 1 .. n + 1 : Height(tree, up[i]) = n - i + 1
        /\ \A i \in 1 .. n : Above(tree, up[i]) = up[i + 1]
    BY <2>1, <2>2 DEF up, Descends
  <2>4. /\ L(x) \in Seq(DOMAIN tree) /\ Len(L(x)) = n + 2 /\ L(x)[1] = x
        /\ \A i \in 2 .. n + 2 : L(x)[i] = up[i - 1]
    BY <2>1, <2>3 DEF up
  <2>5. \A i \in 1 .. n + 2 : Height(tree, L(x)[i]) = n + 1 - i + 1
    <3> SUFFICES ASSUME NEW i \in 1 .. n + 2 PROVE Height(tree, L(x)[i]) = n + 1 - i + 1
      BY Zenon
    <3>1. CASE i = 1
      <4>1. Height(tree, L(x)[i]) = n + 1
        BY <2>4, <3>1, Zenon
      <4>2. QED
        BY <3>1, <4>1, SMT
    <3>2. CASE i # 1
      <4>1. i \in 2 .. n + 2 /\ i - 1 \in 1 .. n + 1
        BY <3>2, SMT
      <4>2. Height(tree, L(x)[i]) = n - (i - 1) + 1
        BY <2>3, <2>4, <4>1, Zenon
      <4>3. QED
        BY <4>2, SMT
    <3>3. QED
      BY <3>1, <3>2, Zenon
  <2>6. \A i \in 1 .. n + 1 : Above(tree, L(x)[i]) = L(x)[i + 1]
    BY <2>3, <2>4
  <2>7. QED
    BY <2>3, <2>4, <2>5, <2>6 DEF Descends
<1> HIDE DEF S
<1>4. Height(tree, h) \in S
  <2>1. Height(tree, h) \in Nat
    BY <1>1, Zenon
  <2>2. \A n \in 0 .. Height(tree, h) : n \in S
    BY <1>2, <1>3, <2>1, Induct, Zenon
  <2>3. QED
    BY <2>1, <2>2
<1>5. QED
  BY <1>4, Zenon DEF S, L

(* Two lines that share a block share everything below it. *)
Meet(one, i, two, j) ==
  /\ Len(one) - i = Len(two) - j
  /\ \A k \in 0 .. Len(one) - i : one[i + k] = two[j + k]

(* Two lines with a block in common are the same from there down. *)
LEMMA LinesMeet ==
  ASSUME Stored(nodes), NEW m \in DOMAIN nodes, NEW n \in DOMAIN nodes,
         NEW one, NEW two, Descends(nodes, one, m), Descends(nodes, two, n),
         NEW i \in 1 .. Len(one), NEW j \in 1 .. Len(two), one[i] = two[j]
  PROVE  Meet(one, i, two, j)
<1>1. /\ Height(nodes, m) \in Nat /\ Height(nodes, n) \in Nat
      /\ Len(one) = Height(nodes, m) + 1 /\ Len(two) = Height(nodes, n) + 1
      /\ \A k \in 1 .. Len(one) : Height(nodes, one[k]) = Height(nodes, m) - k + 1
      /\ \A k \in 1 .. Len(two) : Height(nodes, two[k]) = Height(nodes, n) - k + 1
      /\ \A k \in 1 .. Len(one) - 1 : Above(nodes, one[k]) = one[k + 1]
      /\ \A k \in 1 .. Len(two) - 1 : Above(nodes, two[k]) = two[k + 1]
  BY NodeFacts, Zenon DEF Descends
<1>2. Len(one) - i = Len(two) - j /\ Len(one) - i \in Nat
  <2>1. Height(nodes, m) - i + 1 = Height(nodes, n) - j + 1
    BY <1>1, Zenon
  <2>2. /\ Height(nodes, m) \in Nat /\ Height(nodes, n) \in Nat
        /\ Len(one) = Height(nodes, m) + 1 /\ Len(two) = Height(nodes, n) + 1
    BY <1>1, Zenon
  <2>3. QED
    BY <2>1, <2>2, SMTT(30), SMTT(60)
<1>0. Len(one) \in Nat /\ Len(two) \in Nat
  BY <1>1
<1> DEFINE S == {k \in 0 .. Len(one) - i : one[i + k] = two[j + k]}
<1>3. 0 \in S
  BY <1>2
<1>4. ASSUME NEW k \in Nat, k \in S, k < Len(one) - i PROVE k + 1 \in S
  <2>1. i + k \in 1 .. Len(one) - 1 /\ j + k \in 1 .. Len(two) - 1
    BY <1>0, <1>2, <1>4
  <2>2. Above(nodes, one[i + k]) = one[i + k + 1] /\ Above(nodes, two[j + k]) = two[j + k + 1]
    BY <1>1, <2>1, Zenon
  <2>3. one[i + k] = two[j + k]
    BY <1>4, Zenon
  <2>4. one[i + k + 1] = two[j + k + 1]
    BY <2>2, <2>3, Zenon
  <2>5. i + k + 1 = i + (k + 1) /\ j + k + 1 = j + (k + 1) /\ k + 1 \in 0 .. Len(one) - i
    BY <1>0, <1>2, <1>4
  <2>6. QED
    BY <2>4, <2>5, Zenon
<1> HIDE DEF S
<1>5. \A k \in 0 .. Len(one) - i : k \in S
  BY <1>2, <1>3, <1>4, Induct, Zenon
<1>6. QED
  BY <1>2, <1>5, Zenon DEF S, Meet

(* find_common_ancestor names the highest block of both lines, and branch_from *)
(* stops below it.                                                             *)
LEMMA PlanParts ==
  ASSUME Ancestry(nodes), NEW old \in DOMAIN nodes, NEW new \in DOMAIN nodes
  PROVE  \E i \in 1 .. Len(AncestorHashes(nodes, old)),
            j \in 1 .. Len(AncestorHashes(nodes, new)) :
           LET one == AncestorHashes(nodes, old)
               two == AncestorHashes(nodes, new)
           IN  /\ one[i] = two[j] /\ CommonAncestor(nodes, old, new) = two[j]
               /\ \A k \in 1 .. j - 1 : \A l \in 1 .. Len(one) : one[l] # two[k]
               /\ BranchFrom(nodes, two[j], old) = SubSeq(one, 1, i - 1)
               /\ BranchFrom(nodes, two[j], new) = SubSeq(two, 1, j - 1)
<1> DEFINE one == AncestorHashes(nodes, old)
           two == AncestorHashes(nodes, new)
           shared == {k \in 1 .. Len(two) : two[k] \in Range(one)}
<1>1. Descends(nodes, one, old) /\ Descends(nodes, two, new) /\ Stored(nodes)
  BY LinesDescend, Zenon DEF Ancestry
<1> DEFINE meet == two[CHOOSE k \in shared : \A l \in shared : k <= l]
<1>2. CommonAncestor(nodes, old, new) = meet
  BY Zenon DEF CommonAncestor
<1> HIDE DEF meet
<1>3. /\ BranchFrom(nodes, meet, old) =
           SubSeq(one, 1, CHOOSE k \in 0 .. Len(one) : /\ \A l \in 1 .. k : one[l] # meet
                                                       /\ k < Len(one) => one[k + 1] = meet)
      /\ BranchFrom(nodes, meet, new) =
           SubSeq(two, 1, CHOOSE k \in 0 .. Len(two) : /\ \A l \in 1 .. k : two[l] # meet
                                                       /\ k < Len(two) => two[k + 1] = meet)
  BY Zenon DEF BranchFrom
<1> HIDE DEF one, two
<1>4. /\ one \in Seq(DOMAIN nodes) /\ two \in Seq(DOMAIN nodes)
      /\ Len(one) \in Nat \ {0} /\ Len(two) \in Nat \ {0}
      /\ one[Len(one)] = two[Len(two)]
      /\ \A k \in 1 .. Len(one) : Height(nodes, one[k]) = Height(nodes, old) - k + 1
      /\ \A k \in 1 .. Len(two) : Height(nodes, two[k]) = Height(nodes, new) - k + 1
      /\ Height(nodes, old) \in Nat /\ Height(nodes, new) \in Nat
  BY <1>1, NodeFacts, SMTT(30), SMTT(60) DEF Descends
<1>5. \A x : x \in Range(one) <=> \E k \in 1 .. Len(one) : one[k] = x
  BY <1>4 DEF Range
<1>6. shared \in SUBSET Nat /\ shared # {}
  <2>1. two[Len(two)] \in Range(one)
    BY <1>4, <1>5
  <2>2. Len(two) \in shared
    BY <1>4, <2>1
  <2>3. QED
    BY <2>2
<1>7. PICK j \in shared : \A k \in shared : j <= k
  BY <1>6, Least, Zenon
<1>8. meet = two[j]
  <2>1. \A k \in shared : (\A l \in shared : k <= l) => k = j
    BY <1>6, <1>7
  <2> HIDE DEF shared
  <2>2. (CHOOSE k \in shared : \A l \in shared : k <= l) = j
    BY <1>7, <2>1, Zenon
  <2>3. QED
    BY <2>2, Zenon DEF meet
<1>9. j \in 1 .. Len(two) /\ \A k \in 1 .. j - 1 : two[k] \notin Range(one)
  <2>1. j \in 1 .. Len(two)
    BY Zenon
  <2>2. \A k \in 1 .. j - 1 : k \in 1 .. Len(two) /\ ~ (j <= k)
    BY <1>4, <2>1
  <2>3. QED
    BY <1>7, <2>1, <2>2, Zenon
<1>10. PICK i \in 1 .. Len(one) : one[i] = meet
  BY <1>5, <1>8, Zenon
<1> HIDE DEF shared
<1>11. \A k \in 1 .. Len(two) : two[k] = meet => k = j
  BY <1>4, <1>8, <1>9, SMTT(30)
<1>12. \A k \in 1 .. Len(one) : one[k] = meet => k = i
  BY <1>4, <1>10, SMTT(30)
<1>13. (CHOOSE k \in 0 .. Len(one) : /\ \A l \in 1 .. k : one[l] # meet
                                     /\ k < Len(one) => one[k + 1] = meet) = i - 1
  <2>0. Len(one) \in Nat
    BY <1>4, Zenon
  <2>1. i - 1 \in 0 .. Len(one) /\ (\A l \in 1 .. i - 1 : one[l] # meet) /\ one[i - 1 + 1] = meet
    BY <1>10, <1>12, <2>0
  <2>2. ASSUME NEW k \in 0 .. Len(one), \A l \in 1 .. k : one[l] # meet,
               k < Len(one) => one[k + 1] = meet
        PROVE  k = i - 1
    <3>1. ~ (i <= k)
      BY <1>4, <1>10, <2>2
    <3>2. k < Len(one) /\ k + 1 \in 1 .. Len(one)
      BY <1>4, <3>1
    <3>3. k + 1 = i
      BY <1>12, <2>2, <3>2, Zenon
    <3>4. QED
      BY <3>3
  <2>3. QED
    BY <2>1, <2>2, Zenon
<1>14. (CHOOSE k \in 0 .. Len(two) : /\ \A l \in 1 .. k : two[l] # meet
                                     /\ k < Len(two) => two[k + 1] = meet) = j - 1
  <2>1. j - 1 \in 0 .. Len(two) /\ (\A l \in 1 .. j - 1 : two[l] # meet) /\ two[j - 1 + 1] = meet
    BY <1>4, <1>8, <1>9, <1>11, SMTT(30), SMTT(60)
  <2>2. ASSUME NEW k \in 0 .. Len(two), \A l \in 1 .. k : two[l] # meet,
               k < Len(two) => two[k + 1] = meet
        PROVE  k = j - 1
    <3>1. ~ (j <= k)
      BY <1>4, <1>8, <1>9, <2>2
    <3>2. k < Len(two) /\ k + 1 \in 1 .. Len(two)
      BY <1>4, <1>9, <3>1, SMTT(30), SMTT(60)
    <3>3. k + 1 = j
      BY <1>11, <2>2, <3>2, Zenon
    <3>4. QED
      BY <1>9, <3>3
  <2>3. QED
    BY <2>1, <2>2, Zenon
<1>15. \A k \in 1 .. j - 1 : \A l \in 1 .. Len(one) : one[l] # two[k]
  BY <1>5, <1>9, Zenon
<1>16. /\ one[i] = two[j] /\ CommonAncestor(nodes, old, new) = two[j]
       /\ BranchFrom(nodes, two[j], old) = SubSeq(one, 1, i - 1)
       /\ BranchFrom(nodes, two[j], new) = SubSeq(two, 1, j - 1)
  BY <1>2, <1>3, <1>8, <1>10, <1>13, <1>14, Zenon
<1>17. QED
  BY <1>9, <1>10, <1>15, <1>16, Zenon DEF one, two

(* Sequences by their elements. *)
LEMMA SamePlaces ==
  ASSUME NEW D, NEW p \in Seq(D), NEW q \in Seq(D), Len(p) = Len(q),
         \A k \in 1 .. Len(p) : p[k] = q[k]
  PROVE  p = q
OBVIOUS

(* The places of the first part of a sequence. *)
LEMMA PrefixPlaces ==
  ASSUME NEW D, NEW q \in Seq(D), NEW n \in 0 .. Len(q)
  PROVE  /\ SubSeq(q, 1, n) \in Seq(D) /\ Len(SubSeq(q, 1, n)) = n
         /\ \A k \in 1 .. n : SubSeq(q, 1, n)[k] = q[k]
OBVIOUS

(* The places of two sequences in a row. *)
LEMMA JoinPlaces ==
  ASSUME NEW D, NEW p \in Seq(D), NEW q \in Seq(D)
  PROVE  /\ p \o q \in Seq(D) /\ Len(p \o q) = Len(p) + Len(q)
         /\ \A k \in 1 .. Len(p) : (p \o q)[k] = p[k]
         /\ \A k \in Len(p) + 1 .. Len(p) + Len(q) : (p \o q)[k] = q[k - Len(p)]
OBVIOUS

(* The places of a reversed sequence. *)
LEMMA ReversePlaces ==
  ASSUME NEW D, NEW q \in Seq(D)
  PROVE  /\ Reverse(q) \in Seq(D) /\ Len(Reverse(q)) = Len(q)
         /\ \A k \in 1 .. Len(q) : Reverse(q)[k] = q[Len(q) - k + 1]
<1>1. Len(q) \in Nat /\ \A k \in 1 .. Len(q) : q[Len(q) - k + 1] \in D
  OBVIOUS
<1> DEFINE n == Len(q)
<1> HIDE DEF n
<1>2. Reverse(q) = [k \in 1 .. n |-> q[n - k + 1]] /\ n \in Nat
  BY <1>1, Zenon DEF Reverse, n
<1>3. Reverse(q) \in [1 .. n -> D]
  BY <1>1, <1>2, Zenon DEF n
<1>4. Reverse(q) \in Seq(D) /\ Len(Reverse(q)) = n
  BY <1>2, <1>3
<1>5. QED
  BY <1>2, <1>4, Zenon DEF n

(* A part of a line, read upwards from a block to a tip above it. *)
LEMMA PartLinked ==
  ASSUME Ancestry(nodes), NEW h \in DOMAIN nodes, NEW line, Descends(nodes, line, h),
         NEW i \in 1 .. Len(line)
  PROVE  LinkedDown(SubSeq(line, 1, i))
<1>1. line \in Seq(DOMAIN nodes) /\ \A k \in 1 .. Len(line) - 1 : Above(nodes, line[k]) = line[k + 1]
  BY Zenon DEF Descends
<1>2. Len(SubSeq(line, 1, i)) = i /\ \A k \in 1 .. i : SubSeq(line, 1, i)[k] = line[k]
  BY <1>1
<1>3. QED
  BY <1>1, <1>2 DEF LinkedDown, Above

(* The plan of plan_reorg leads from the old chain to the new one. *)
LEMMA PlanConnects ==
  ASSUME Ancestry(nodes)
  PROVE  ReorgPlanConnects
<1> SUFFICES ASSUME NEW old \in DOMAIN nodes, NEW new \in DOMAIN nodes
    PROVE  LET plan == PlanReorg(nodes, old, new)
               kept == Len(LineOf(old)) - Len(plan.disconnect)
           IN  /\ plan.disconnect = <<>> <=> old = plan.ancestor
               /\ LinkedDown(plan.disconnect \o <<plan.ancestor>>)
               /\ LinkedDown(Reverse(<<plan.ancestor>> \o plan.apply))
               /\ Range(plan.disconnect) \cap Range(plan.apply) = {}
               /\ SubSeq(LineOf(old), 1, kept) \o plan.apply = LineOf(new)
  BY Zenon DEF ReorgPlanConnects
<1> DEFINE one == AncestorHashes(nodes, old)
           two == AncestorHashes(nodes, new)
<1>1. Descends(nodes, one, old) /\ Descends(nodes, two, new) /\ Stored(nodes)
  BY LinesDescend, Zenon DEF Ancestry
<1>2. PICK i \in 1 .. Len(one), j \in 1 .. Len(two) :
        /\ one[i] = two[j] /\ CommonAncestor(nodes, old, new) = two[j]
        /\ \A k \in 1 .. j - 1 : \A l \in 1 .. Len(one) : one[l] # two[k]
        /\ BranchFrom(nodes, two[j], old) = SubSeq(one, 1, i - 1)
        /\ BranchFrom(nodes, two[j], new) = SubSeq(two, 1, j - 1)
  BY PlanParts, Zenon
<1> DEFINE off == SubSeq(one, 1, i - 1)
           on == SubSeq(two, 1, j - 1)
<1>3. /\ PlanReorg(nodes, old, new).ancestor = two[j]
      /\ PlanReorg(nodes, old, new).disconnect = off
      /\ PlanReorg(nodes, old, new).apply = Reverse(on)
  BY <1>2, Zenon DEF PlanReorg
<1>4. LineOf(old) = Reverse(one) /\ LineOf(new) = Reverse(two)
  BY Zenon DEF LineOf
<1> HIDE DEF one, two
<1>5. /\ i \in Nat /\ j \in Nat /\ i >= 1 /\ j >= 1 /\ i <= Len(one) /\ j <= Len(two)
      /\ one \in Seq(DOMAIN nodes) /\ two \in Seq(DOMAIN nodes)
      /\ Len(one) \in Nat /\ Len(two) \in Nat
      /\ one[1] = old /\ two[1] = new
      /\ \A k \in 1 .. Len(one) : Height(nodes, one[k]) = Height(nodes, old) - k + 1
      /\ Height(nodes, old) \in Nat
  BY <1>1, <1>2, NodeFacts DEF Descends
<1>50. /\ i \in Nat /\ j \in Nat /\ i >= 1 /\ j >= 1 /\ i <= Len(one) /\ j <= Len(two)
       /\ Len(one) \in Nat /\ Len(two) \in Nat
  BY <1>5, Zenon
<1>6. /\ Len(one) - i = Len(two) - j
      /\ \A k \in 0 .. Len(one) - i : one[i + k] = two[j + k]
  <2>1. one[i] = two[j]
    BY <1>2, Zenon
  <2>2. QED
    <3>1. Descends(nodes, one, old)
      BY <1>1, Zenon
    <3>2. Descends(nodes, two, new)
      BY <1>1, Zenon
    <3>3. Stored(nodes)
      BY <1>1, Zenon
    <3>4. Meet(one, i, two, j)
      BY <2>1, <3>1, <3>2, <3>3, LinesMeet, Zenon
    <3>5. QED
      BY <3>4, Zenon DEF Meet
<1> DEFINE D == DOMAIN nodes
<1> HIDE DEF D
<1>7. /\ one \in Seq(D) /\ two \in Seq(D)
      /\ i - 1 \in 0 .. Len(one) /\ j - 1 \in 0 .. Len(two)
      /\ i \in 0 .. Len(one) /\ j \in 0 .. Len(two)
  BY <1>5 DEF D
<1>8. /\ off \in Seq(D) /\ Len(off) = i - 1 /\ \A k \in 1 .. i - 1 : off[k] = one[k]
      /\ on \in Seq(D) /\ Len(on) = j - 1 /\ \A k \in 1 .. j - 1 : on[k] = two[k]
  BY <1>7, PrefixPlaces, Zenon
<1> DEFINE down1 == SubSeq(one, 1, i)
           down2 == SubSeq(two, 1, j)
<1>80. /\ down1 \in Seq(D) /\ Len(down1) = i /\ \A k \in 1 .. i : down1[k] = one[k]
       /\ down2 \in Seq(D) /\ Len(down2) = j /\ \A k \in 1 .. j : down2[k] = two[k]
  BY <1>7, PrefixPlaces, Zenon
<1>81. LinkedDown(down1) /\ LinkedDown(down2)
  BY <1>1, <1>2, PartLinked, Zenon
<1> HIDE DEF off, on, down1, down2
<1>9. off = <<>> <=> old = two[j]
  <2>1. off = <<>> <=> i = 1
    BY <1>5, <1>8, SMTT(30), SMTT(60)
  <2>2. one[i] = old <=> i = 1
    BY <1>5
  <2>3. QED
    BY <1>2, <2>1, <2>2, Zenon
<1>90. two[j] \in D /\ <<two[j]>> \in Seq(D) /\ Len(<<two[j]>>) = 1 /\ <<two[j]>>[1] = two[j]
  <2>1. two[j] \in D
    BY <1>5, <1>7
  <2>2. QED
    BY <2>1
<1>10. off \o <<two[j]>> = down1
  <2> DEFINE all == off \o <<two[j]>>
  <2>1. /\ all \in Seq(D) /\ Len(all) = Len(off) + Len(<<two[j]>>)
        /\ \A k \in 1 .. Len(off) : all[k] = off[k]
        /\ \A k \in Len(off) + 1 .. Len(off) + Len(<<two[j]>>) :
             all[k] = <<two[j]>>[k - Len(off)]
    <3> DEFINE last == <<two[j]>>
    <3>1. last \in Seq(D)
      BY <1>90, Zenon
    <3> HIDE DEF last
    <3>2. /\ off \o last \in Seq(D) /\ Len(off \o last) = Len(off) + Len(last)
          /\ \A k \in 1 .. Len(off) : (off \o last)[k] = off[k]
          /\ \A k \in Len(off) + 1 .. Len(off) + Len(last) : (off \o last)[k] = last[k - Len(off)]
      <4>1. off \in Seq(D)
        BY <1>8, Zenon
      <4>2. QED
        BY <4>1, <3>1, JoinPlaces, Zenon
    <3>3. QED
      BY <3>2, Zenon DEF last
  <2> HIDE DEF all
  <2>2. Len(all) = i /\ all[i] = two[j]
    <3>1. Len(off) + 1 = i /\ i - Len(off) = 1 /\ i \in Len(off) + 1 .. Len(off) + 1
      BY <1>8, <1>50, SMTT(30), SMTT(60)
    <3>2. QED
      BY <1>90, <2>1, <3>1, Zenon
  <2>3. ASSUME NEW k \in 1 .. i PROVE all[k] = down1[k]
    <3>1. CASE k = i
      BY <1>2, <1>80, <2>2, <3>1, Zenon
    <3>2. CASE k # i
      <4>1. k \in 1 .. i - 1
        BY <1>50, <3>2
      <4>2. QED
        BY <1>8, <1>80, <2>1, <4>1, Zenon
    <3>3. QED
      BY <3>1, <3>2, Zenon
  <2>4. all = down1
    BY <1>80, <2>1, <2>2, <2>3, SamePlaces, Zenon
  <2>5. QED
    BY <2>4, Zenon DEF all
<1>11. /\ Reverse(on) \in Seq(D) /\ Len(Reverse(on)) = j - 1
       /\ \A k \in 1 .. j - 1 : Reverse(on)[k] = two[j - k]
  <2>1. /\ Reverse(on) \in Seq(D) /\ Len(Reverse(on)) = j - 1
        /\ \A k \in 1 .. j - 1 : Reverse(on)[k] = on[j - 1 - k + 1]
    BY <1>8, ReversePlaces, SMTT(30), SMTT(60)
  <2>2. ASSUME NEW k \in 1 .. j - 1 PROVE Reverse(on)[k] = two[j - k]
    <3>1. j - 1 - k + 1 = j - k /\ j - k \in 1 .. j - 1
      BY <1>5, SMTT(30), SMTT(60)
    <3>2. QED
      BY <1>8, <2>1, <3>1, Zenon
  <2>3. QED
    BY <2>1, <2>2, Zenon
<1> DEFINE up == Reverse(on)
<1> HIDE DEF up
<1>110. /\ up \in Seq(D) /\ Len(up) = j - 1 /\ \A k \in 1 .. j - 1 : up[k] = two[j - k]
  BY <1>11, Zenon DEF up
<1>12. Reverse(<<two[j]>> \o up) = down2
  <2> DEFINE all == <<two[j]>> \o up
  <2>1. /\ all \in Seq(D) /\ Len(all) = 1 + (j - 1)
        /\ \A k \in 1 .. 1 : all[k] = <<two[j]>>[k]
        /\ \A k \in 1 + 1 .. 1 + (j - 1) : all[k] = up[k - 1]
    BY <1>90, <1>110, JoinPlaces
  <2> HIDE DEF all
  <2>2. Len(all) = j /\ all[1] = two[j]
    BY <1>5, <1>90, <2>1
  <2>3. ASSUME NEW k \in 1 .. j PROVE all[k] = two[j - k + 1]
    <3>1. CASE k = 1
      BY <1>5, <2>2, <3>1
    <3>2. CASE k # 1
      <4>1. k \in 1 + 1 .. 1 + (j - 1) /\ k - 1 \in 1 .. j - 1 /\ j - (k - 1) = j - k + 1
        BY <1>5, <3>2
      <4>2. QED
        BY <1>110, <2>1, <4>1, Zenon
    <3>3. QED
      BY <3>1, <3>2, Zenon
  <2>4. /\ Reverse(all) \in Seq(D) /\ Len(Reverse(all)) = j
        /\ \A k \in 1 .. j : Reverse(all)[k] = all[j - k + 1]
    BY <2>1, <2>2, ReversePlaces, Zenon
  <2>5. ASSUME NEW k \in 1 .. j PROVE Reverse(all)[k] = down2[k]
    <3>1. j - k + 1 \in 1 .. j /\ j - (j - k + 1) + 1 = k
      BY <1>5
    <3>2. Reverse(all)[k] = all[j - k + 1] /\ all[j - k + 1] = two[j - (j - k + 1) + 1]
      BY <2>3, <2>4, <3>1, Zenon
    <3>3. QED
      BY <1>80, <3>1, <3>2, Zenon
  <2>6. Reverse(all) = down2
    BY <1>80, <2>4, <2>5, SamePlaces, Zenon
  <2>7. QED
    BY <2>6, Zenon DEF all
<1>14. Range(off) \cap Range(up) = {}
  <2> SUFFICES ASSUME NEW x, x \in Range(off), x \in Range(up) PROVE FALSE
    BY Zenon
  <2>1. PICK k \in 1 .. i - 1 : x = one[k]
    BY <1>8 DEF Range
  <2>2. PICK l \in 1 .. j - 1 : x = up[l]
    BY <1>110 DEF Range
  <2>3. j - l \in 1 .. j - 1 /\ k \in 1 .. Len(one)
    BY <1>50
  <2>30. x = two[j - l]
    BY <1>110, <2>2, Zenon
  <2>4. QED
    BY <1>2, <2>1, <2>3, <2>30, Zenon
<1>15. /\ LineOf(old) \in Seq(D) /\ Len(LineOf(old)) = Len(one)
       /\ \A k \in 1 .. Len(one) : LineOf(old)[k] = one[Len(one) - k + 1]
       /\ LineOf(new) \in Seq(D) /\ Len(LineOf(new)) = Len(two)
       /\ \A k \in 1 .. Len(two) : LineOf(new)[k] = two[Len(two) - k + 1]
  BY <1>4, <1>7, ReversePlaces, Zenon
<1> DEFINE kept == Len(LineOf(old)) - Len(off)
           stay == SubSeq(LineOf(old), 1, kept)
<1>16. kept = Len(one) - i + 1 /\ kept = Len(two) - j + 1 /\ kept \in 0 .. Len(one) /\ kept \in Nat
  <2>1. kept = Len(one) - (i - 1)
    BY <1>8, <1>15, Zenon
  <2>2. Len(one) - i = Len(two) - j
    BY <1>6, Zenon
  <2>3. QED
    BY <1>50, <2>1, <2>2, SMTT(30)
<1> HIDE DEF kept
<1>17. /\ stay \in Seq(D) /\ Len(stay) = kept
       /\ \A k \in 1 .. kept : stay[k] = LineOf(old)[k]
  <2>1. kept \in 0 .. Len(LineOf(old))
    BY <1>15, <1>16, Zenon
  <2>2. QED
    BY <1>15, <2>1, PrefixPlaces, Zenon
<1> HIDE DEF stay
<1>18. \A k \in 1 .. kept : stay[k] = two[Len(two) - k + 1]
  <2> SUFFICES ASSUME NEW k \in 1 .. kept PROVE stay[k] = two[Len(two) - k + 1]
    BY Zenon
  <2>1. kept - k \in 0 .. Len(one) - i /\ k \in 1 .. Len(one)
    BY <1>16, <1>50
  <2>2. one[i + (kept - k)] = two[j + (kept - k)]
    BY <1>6, <2>1, Zenon
  <2>3. i + (kept - k) = Len(one) - k + 1 /\ j + (kept - k) = Len(two) - k + 1
    BY <1>16, <1>50
  <2>4. stay[k] = one[Len(one) - k + 1]
    BY <1>15, <1>17, <2>1, Zenon
  <2>5. QED
    BY <2>2, <2>3, <2>4, Zenon
<1>19. stay \o up = LineOf(new)
  <2> DEFINE all == stay \o up
  <2>0. /\ all \in Seq(D) /\ Len(all) = Len(stay) + Len(up)
        /\ \A k \in 1 .. Len(stay) : all[k] = stay[k]
        /\ \A k \in Len(stay) + 1 .. Len(stay) + Len(up) : all[k] = up[k - Len(stay)]
    BY <1>110, <1>17, JoinPlaces, ZenonT(40)
  <2>1. /\ all \in Seq(D) /\ Len(all) = kept + (j - 1)
        /\ \A k \in 1 .. kept : all[k] = stay[k]
        /\ \A k \in kept + 1 .. kept + (j - 1) : all[k] = up[k - kept]
    BY <1>110, <1>17, <2>0, Zenon
  <2> HIDE DEF all
  <2>2. Len(all) = Len(two)
    BY <1>16, <1>50, <2>1
  <2>3. ASSUME NEW k \in 1 .. Len(two) PROVE all[k] = LineOf(new)[k]
    <3>1. CASE k <= kept
      <4>1. k \in 1 .. kept
        BY <1>16, <3>1
      <4>2. QED
        BY <1>15, <1>18, <2>1, <4>1, Zenon
    <3>2. CASE k > kept
      <4>1. /\ k - kept \in 1 .. j - 1 /\ k \in kept + 1 .. kept + (j - 1)
            /\ j - (k - kept) = Len(two) - k + 1
        BY <1>16, <1>50, <3>2, SMTT(30), SMTT(60)
      <4>2. all[k] = two[j - (k - kept)]
        BY <1>110, <2>1, <4>1, Zenon
      <4>3. QED
        BY <1>15, <4>1, <4>2, Zenon
    <3>3. QED
      BY <1>16, <3>1, <3>2
  <2>4. all = LineOf(new)
    BY <1>15, <2>1, <2>2, <2>3, SamePlaces, Zenon
  <2>5. QED
    BY <2>4, Zenon DEF all
<1>20. QED
  BY <1>3, <1>9, <1>10, <1>12, <1>81, <1>14, <1>19, Zenon DEF stay, kept, up

-----------------------------------------------------------------------------
(* The weights of an epoch. *)
Window(w, e) == SubSeq(w, (e - 1) * WbdaWindow + 1, e * WbdaWindow)

(* Two lines of weights have the same windows up to an epoch. *)
SameWindows(v, w, top) == \A e \in 1 .. top : Window(v, e) = Window(w, e)

(* The targets of a line of weights, epoch by epoch up to the n-th. *)
Targets(f, w, n) ==
  f = [e \in 0 .. n |->
         IF e = 0 THEN TargetBitsStart
         ELSE NextDifficulty(f[e - 1], Window(w, e))]

(* The targets by epoch. *)
LEMMA TargetAt ==
  ASSUME NEW f, NEW w, NEW n \in Nat, Targets(f, w, n)
  PROVE  /\ f[0] = TargetBitsStart
         /\ \A e \in 1 .. n : f[e] = NextDifficulty(f[e - 1],
                Window(w, e))
<1>1. 0 \in 0 .. n /\ \A e \in 1 .. n : e \in 0 .. n /\ e # 0
  OBVIOUS
<1>2. QED
  BY <1>1, Zenon DEF Targets

(* There is one such function for every line of weights. *)
LEMMA TargetsExist ==
  ASSUME NEW w, NEW n \in Nat
  PROVE  \E f : Targets(f, w, n)
<1> DEFINE S == {k \in Nat : \E f : Targets(f, w, k)}
           Next1(x, e) == NextDifficulty(x, Window(w, e))
<1>1. 0 \in S
  <2> DEFINE f == [e \in 0 .. 0 |-> TargetBitsStart]
  <2>1. f = [e \in 0 .. 0 |-> IF e = 0 THEN TargetBitsStart ELSE Next1(f[e - 1], e)]
    <3> HIDE DEF Next1
    <3>1. QED
      OBVIOUS
  <2>2. Targets(f, w, 0)
    BY <2>1, Zenon DEF Targets
  <2>3. QED
    BY <2>2, Zenon
<1>2. ASSUME NEW k \in Nat, k \in S PROVE k + 1 \in S
  <2>1. PICK f : Targets(f, w, k)
    BY <1>2, Zenon
  <2>2. f = [e \in 0 .. k |-> IF e = 0 THEN TargetBitsStart ELSE Next1(f[e - 1], e)]
    BY <2>1, Zenon DEF Targets
  <2> DEFINE g == [e \in 0 .. k + 1 |-> IF e = k + 1 THEN Next1(f[k], k + 1) ELSE f[e]]
  <2> HIDE DEF Next1
  <2>3. ASSUME NEW e \in 0 .. k + 1
        PROVE  g[e] = IF e = 0 THEN TargetBitsStart ELSE Next1(g[e - 1], e)
    <3>1. CASE e = k + 1
      <4>1. e # 0 /\ g[e] = Next1(f[k], k + 1) /\ g[e - 1] = f[k]
        BY <3>1
      <4>2. QED
        BY <3>1, <4>1, Zenon
    <3>2. CASE e # k + 1
      <4>1. e \in 0 .. k /\ g[e] = f[e] /\ (e # 0 => g[e - 1] = f[e - 1])
        BY <3>2
      <4>2. f[e] = IF e = 0 THEN TargetBitsStart ELSE Next1(f[e - 1], e)
        BY <2>2, <4>1, Zenon
      <4>3. QED
        BY <4>1, <4>2, Zenon
    <3>3. QED
      BY <3>1, <3>2, Zenon
  <2>4. g = [e \in 0 .. k + 1 |-> IF e = 0 THEN TargetBitsStart ELSE Next1(g[e - 1], e)]
    <3>1. g = [e \in 0 .. k + 1 |-> g[e]]
      BY Zenon
    <3> HIDE DEF g
    <3>2. QED
      BY <2>3, <3>1, Zenon
  <2> HIDE DEF g
  <2>5. Targets(g, w, k + 1)
    BY <2>4, Zenon DEF Targets, Next1
  <2>6. QED
    BY <2>5
<1> HIDE DEF S
<1>3. n \in S
  <2>1. \A k \in 0 .. n : k \in S
    BY <1>1, <1>2, Induct, Zenon
  <2>2. QED
    BY <2>1
<1>4. QED
  BY <1>3, Zenon DEF S

(* Windows that agree give the same targets. *)
LEMMA TargetsAgree ==
  ASSUME NEW v, NEW w, NEW m \in Nat, NEW n \in Nat, NEW top \in Nat, top <= m, top <= n,
         NEW f, NEW g, Targets(f, v, m), Targets(g, w, n),
         SameWindows(v, w, top)
  PROVE  f[top] = g[top]
<1> DEFINE S == {k \in 0 .. top : f[k] = g[k]}
<1>1. 0 \in S
  BY TargetAt
<1>2. ASSUME NEW k \in Nat, k \in S, k < top PROVE k + 1 \in S
  <2>1. k + 1 \in 1 .. m /\ k + 1 \in 1 .. n /\ k + 1 \in 1 .. top /\ (k + 1) - 1 = k
    BY <1>2
  <2>2. /\ f[k + 1] = NextDifficulty(f[(k + 1) - 1],
                        Window(v, k + 1))
        /\ g[k + 1] = NextDifficulty(g[(k + 1) - 1],
                        Window(w, k + 1))
    BY <2>1, TargetAt, ZenonT(40)
  <2>3. f[(k + 1) - 1] = g[(k + 1) - 1]
    BY <1>2, <2>1, Zenon
  <2>4. f[k + 1] = g[k + 1]
    BY <2>1, <2>2, <2>3, Zenon DEF SameWindows
  <2>5. QED
    BY <2>1, <2>4
<1> HIDE DEF S
<1>3. \A k \in 0 .. top : k \in S
  BY <1>1, <1>2, Induct, Zenon
<1>4. QED
  BY <1>3 DEF S

(* The target of an epoch follows from the one before. *)
LEMMA EpochStep ==
  ASSUME NEW w, NEW e \in Nat
  PROVE  /\ EpochBits(w, 0) = TargetBitsStart
         /\ EpochBits(w, e + 1) = NextDifficulty(EpochBits(w, e),
              Window(w, e + 1))
<1> DEFINE at(n) == CHOOSE f : Targets(f, w, n)
<1>1. \A n \in Nat : Targets(at(n), w, n) /\ EpochBits(w, n) = at(n)[n]
  <2> SUFFICES ASSUME NEW n \in Nat PROVE Targets(at(n), w, n) /\ EpochBits(w, n) = at(n)[n]
    BY Zenon
  <2>1. Targets(at(n), w, n)
    BY TargetsExist, Zenon
  <2>2. EpochBits(w, n) = at(n)[n]
    BY Zenon DEF EpochBits, Targets, Window
  <2>3. QED
    BY <2>1, <2>2, Zenon
<1> HIDE DEF at
<1>2. EpochBits(w, 0) = TargetBitsStart
  BY <1>1, TargetAt, Zenon
<1>3. e + 1 \in Nat /\ e + 1 \in 1 .. e + 1 /\ (e + 1) - 1 = e /\ e <= e + 1 /\ e <= e
  OBVIOUS
<1>4. at(e + 1)[e + 1] = NextDifficulty(at(e + 1)[(e + 1) - 1],
              Window(w, e + 1))
  BY <1>1, <1>3, TargetAt, Zenon
<1>5. at(e + 1)[e] = at(e)[e]
  <2>1. Targets(at(e + 1), w, e + 1)
    BY <1>1, <1>3, Zenon
  <2>2. Targets(at(e), w, e)
    BY <1>1, Zenon
  <2>3. QED
    BY <1>3, <2>1, <2>2, TargetsAgree DEF SameWindows
<1>6. QED
  BY <1>1, <1>2, <1>3, <1>4, <1>5, Zenon

(* The target of an epoch depends on the windows up to it only. *)
LEMMA EpochAgree ==
  ASSUME NEW v, NEW w, NEW e \in Nat,
         SameWindows(v, w, e)
  PROVE  EpochBits(v, e) = EpochBits(w, e)
<1> DEFINE at(x) == CHOOSE f : Targets(f, x, e)
<1>1. ASSUME NEW x PROVE Targets(at(x), x, e) /\ EpochBits(x, e) = at(x)[e]
  <2>1. Targets(at(x), x, e)
    BY TargetsExist, Zenon
  <2>2. EpochBits(x, e) = at(x)[e]
    BY Zenon DEF EpochBits, Targets, Window
  <2>3. QED
    BY <2>1, <2>2, Zenon
<1> HIDE DEF at
<1>2. e <= e
  OBVIOUS
<1>3. at(v)[e] = at(w)[e]
  <2>1. Targets(at(v), v, e)
    BY <1>1, Zenon
  <2>2. Targets(at(w), w, e)
    BY <1>1, Zenon
  <2>3. QED
    BY <1>2, <2>1, <2>2, TargetsAgree
<1>4. QED
  BY <1>1, <1>3, Zenon

-----------------------------------------------------------------------------
(* The weights of a block's own line above genesis, as BitsFollowOwnBranch  *)
(* reads them, and its target as they determine it.                         *)
OwnWeights(tree, h) ==
  [k \in 1 .. Height(tree, h) |->
     tree[AncestorHashes(tree, h)[Height(tree, h) - k + 1]].block.weight]

(* The target of a block is the one its own line determines. *)
RightBits(tree, h) ==
  Height(tree, h) > 0 =>
    tree[h].block.bits = EpochBits(OwnWeights(tree, h), (Height(tree, h) - 1) \div WbdaWindow)

(* A block's weights are those of its parent and its own. *)
LEMMA WeightsExtend ==
  ASSUME NEW tree, Ancestry(tree), NEW h \in DOMAIN tree, Height(tree, h) # 0
  PROVE  /\ OwnWeights(tree, h) \in Seq(Nat) /\ Len(OwnWeights(tree, h)) = Height(tree, h)
         /\ \A k \in 1 .. Height(tree, h) - 1 :
              OwnWeights(tree, h)[k] = OwnWeights(tree, Above(tree, h))[k]
<1> DEFINE line == AncestorHashes(tree, h)
           up   == AncestorHashes(tree, Above(tree, h))
           n    == Height(tree, h)
<1>1. Above(tree, h) \in DOMAIN tree /\ n = Height(tree, Above(tree, h)) + 1
  BY Zenon DEF Ancestry, Rooted
<1>2. line = <<h>> \o up
  BY WalkStep, Zenon
<1>3. Descends(tree, line, h) /\ Descends(tree, up, Above(tree, h))
  BY <1>1, LinesDescend, Zenon
<1>4. n \in Nat /\ Height(tree, Above(tree, h)) \in Nat
  BY <1>1, NodeFacts, Zenon DEF Ancestry
<1>5. /\ OwnWeights(tree, h) = [k \in 1 .. n |-> tree[line[n - k + 1]].block.weight]
      /\ OwnWeights(tree, Above(tree, h)) =
           [k \in 1 .. Height(tree, Above(tree, h)) |->
              tree[up[Height(tree, Above(tree, h)) - k + 1]].block.weight]
  BY Zenon DEF OwnWeights
<1> HIDE DEF line, up, n
<1>6. line \in Seq(DOMAIN tree) /\ Len(line) = n + 1
  BY <1>3, Zenon DEF Descends, n
<1>7. up \in Seq(DOMAIN tree) /\ Len(up) = n
  BY <1>1, <1>3, <1>4, Zenon DEF Descends
<1>8. \A k \in 1 .. n : line[k + 1] = up[k]
  BY <1>2, <1>4, <1>7
<1>9. \A k \in 1 .. n : tree[line[n - k + 1]].block.weight \in Nat
  <2> SUFFICES ASSUME NEW k \in 1 .. n PROVE tree[line[n - k + 1]].block.weight \in Nat
    BY Zenon
  <2>1. n - k + 1 \in 1 .. Len(line)
    BY <1>4, <1>6
  <2>2. line[n - k + 1] \in DOMAIN tree
    BY <1>6, <2>1
  <2>3. tree[line[n - k + 1]].block \in BlockType
    BY <2>2, NodeFacts, Zenon DEF Ancestry
  <2>4. QED
    BY <2>3, Zenon DEF BlockType
<1>10. OwnWeights(tree, h) \in Seq(Nat) /\ Len(OwnWeights(tree, h)) = n
  BY <1>4, <1>5, <1>9
<1>11. ASSUME NEW k \in 1 .. n - 1
       PROVE  OwnWeights(tree, h)[k] = OwnWeights(tree, Above(tree, h))[k]
  <2>1. /\ k \in 1 .. n /\ n - k \in 1 .. n /\ k \in 1 .. Height(tree, Above(tree, h))
        /\ n - k + 1 = (n - k) + 1 /\ Height(tree, Above(tree, h)) - k + 1 = n - k
    BY <1>1, <1>4
  <2>2. line[n - k + 1] = up[n - k]
    BY <1>8, <2>1, Zenon
  <2>3. /\ OwnWeights(tree, h)[k] = tree[line[n - k + 1]].block.weight
        /\ OwnWeights(tree, Above(tree, h))[k] = tree[up[n - k]].block.weight
    BY <1>5, <2>1, Zenon
  <2>4. QED
    BY <2>2, <2>3, Zenon
<1>12. QED
  BY <1>10, <1>11, Zenon DEF n

(* ancestor_at_height finds the weights of the line. *)
LEMMA WeightsByHeight ==
  ASSUME NEW tree, Ancestry(tree), NEW h \in DOMAIN tree
  PROVE  \A k \in 1 .. Height(tree, h) :
           BranchWeights(tree, h)[k] = OwnWeights(tree, h)[k]
<1> DEFINE line == AncestorHashes(tree, h)
           n    == Height(tree, h)
<1>1. Descends(tree, line, h) /\ n \in Nat
  BY LinesDescend, NodeFacts, Zenon DEF Ancestry
<1>2. BranchWeights(tree, h) =
        [k \in {tree[x].block.height : x \in Range(line)} |->
           tree[CHOOSE x \in Range(line) : tree[x].block.height = k].block.weight]
  BY Zenon DEF BranchWeights
<1>3. OwnWeights(tree, h) = [k \in 1 .. n |-> tree[line[n - k + 1]].block.weight]
  BY Zenon DEF OwnWeights
<1> HIDE DEF line
<1>4. /\ line \in Seq(DOMAIN tree) /\ Len(line) = n + 1
      /\ \A k \in 1 .. Len(line) : Height(tree, line[k]) = n - k + 1
  BY <1>1, Zenon DEF Descends
<1> HIDE DEF n
<1>5. \A x : x \in Range(line) <=> \E k \in 1 .. n + 1 : x = line[k]
  BY <1>4 DEF Range
<1> SUFFICES ASSUME NEW k \in 1 .. n PROVE BranchWeights(tree, h)[k] = OwnWeights(tree, h)[k]
  BY Zenon DEF n
<1> DEFINE x == line[n - k + 1]
<1>6. n - k + 1 \in 1 .. n + 1 /\ n - (n - k + 1) + 1 = k
  BY <1>1
<1>7. x \in Range(line) /\ tree[x].block.height = k
  <2>1. Height(tree, x) = n - (n - k + 1) + 1
    BY <1>4, <1>6, Zenon
  <2>2. QED
    BY <1>5, <1>6, <2>1, Zenon DEF Height
<1>8. ASSUME NEW y \in Range(line), tree[y].block.height = k PROVE y = x
  <2>1. PICK i \in 1 .. n + 1 : y = line[i]
    BY <1>5, Zenon
  <2>2. n - i + 1 = k
    BY <1>4, <1>8, <2>1, Zenon DEF Height
  <2>3. i = n - k + 1
    BY <1>1, <2>2
  <2>4. QED
    BY <2>1, <2>3, Zenon
<1> HIDE DEF x
<1>9. (CHOOSE y \in Range(line) : tree[y].block.height = k) = x
  BY <1>7, <1>8, Zenon
<1>10. k \in {tree[y].block.height : y \in Range(line)}
  BY <1>7, Zenon
<1>11. BranchWeights(tree, h)[k] = tree[x].block.weight
  BY <1>2, <1>9, <1>10, Zenon
<1>12. QED
  BY <1>3, <1>11, Zenon DEF x

-----------------------------------------------------------------------------
(* The division of heights by the window. *)
LEMMA Quotient ==
  ASSUME NEW m \in Nat, NEW w \in Nat, w > 0
  PROVE  /\ m \div w \in Nat /\ (m \div w) * w <= m /\ m < (m \div w) * w + w
         /\ m = w * (m \div w) + (m % w) /\ m % w \in Nat
<1>1. m \div w \in Nat /\ m % w \in Nat
  OBVIOUS
<1>2. (m \div w) * w <= m
  OBVIOUS
<1>3. m < (m \div w) * w + w
  OBVIOUS
<1>4. m = w * (m \div w) + (m % w)
  OBVIOUS
<1>5. QED
  BY <1>1, <1>2, <1>3, <1>4, Zenon

(* The quotient is the number whose multiples enclose the dividend. *)
LEMMA QuotientIs ==
  ASSUME NEW m \in Nat, NEW w \in Nat, w > 0, NEW q \in Nat, q * w <= m, m < q * w + w
  PROVE  m \div w = q
OBVIOUS

(* Multiples of an interval, one after the other. *)
LEMMA MultipleStep ==
  ASSUME NEW p \in Nat, NEW w \in Nat
  PROVE  (p + 1) * w = p * w + w /\ p * w \in Nat
OBVIOUS

(* Multiples are ordered as their factors. *)
LEMMA MultipleOrder ==
  ASSUME NEW p \in Nat, NEW q \in Nat, NEW w \in Nat, p <= q
  PROVE  p * w <= q * w
OBVIOUS

(* A window below two heights is the same in two lines of weights that      *)
(* agree below them.                                                        *)
LEMMA WindowAgree ==
  ASSUME NEW v \in Seq(Nat), NEW w \in Seq(Nat), NEW e \in Nat, e # 0, NEW n \in Nat,
         e * WbdaWindow <= n, n <= Len(v), n <= Len(w),
         \A k \in 1 .. n : v[k] = w[k]
  PROVE  /\ Window(v, e) = Window(w, e)
         /\ Window(v, e) = [k \in 1 .. WbdaWindow |-> v[(e - 1) * WbdaWindow + k]]
<1> DEFINE lo == (e - 1) * WbdaWindow
           hi == e * WbdaWindow
<1>1. WbdaWindow \in Nat /\ WbdaWindow > 0
  BY DifficultyAssumption
<1>2. lo \in Nat /\ hi \in Nat /\ hi = lo + WbdaWindow
  <2>1. e - 1 \in Nat /\ (e - 1) + 1 = e
    OBVIOUS
  <2>2. QED
    BY <1>1, <2>1, MultipleStep, Zenon
<1>3. Window(v, e) = SubSeq(v, lo + 1, hi) /\ Window(w, e) = SubSeq(w, lo + 1, hi)
  BY Zenon DEF Window
<1> HIDE DEF lo, hi
<1>4. hi <= n
  BY Zenon DEF hi
<1>5. ASSUME NEW u \in Seq(Nat), n <= Len(u)
      PROVE  SubSeq(u, lo + 1, hi) = [k \in 1 .. WbdaWindow |-> u[lo + k]]
  <2>1. Len(u) \in Nat /\ hi <= Len(u) /\ hi - (lo + 1) + 1 = WbdaWindow
    BY <1>1, <1>2, <1>4, <1>5
  <2>2. /\ SubSeq(u, lo + 1, hi) \in Seq(Nat) /\ Len(SubSeq(u, lo + 1, hi)) = WbdaWindow
        /\ \A k \in 1 .. WbdaWindow : SubSeq(u, lo + 1, hi)[k] = u[lo + k]
    <3>1. lo + 1 \in 1 .. Len(u) + 1 /\ hi \in ((lo + 1) - 1) .. Len(u)
      BY <1>1, <1>2, <2>1, SMTT(30), SMTT(60)
    <3>2. /\ SubSeq(u, lo + 1, hi) \in Seq(Nat)
          /\ Len(SubSeq(u, lo + 1, hi)) = hi - (lo + 1) + 1
          /\ \A k \in 1 .. hi - (lo + 1) + 1 : SubSeq(u, lo + 1, hi)[k] = u[lo + 1 + k - 1]
      BY <1>5, <3>1, PartOfNumbers, Zenon
    <3>3. \A k \in 1 .. WbdaWindow : lo + 1 + k - 1 = lo + k
      BY <1>1, <1>2
    <3>4. QED
      BY <2>1, <3>2, <3>3, Zenon
  <2>3. ASSUME NEW x \in Seq(Nat) PROVE x = [k \in 1 .. Len(x) |-> x[k]]
    OBVIOUS
  <2>4. SubSeq(u, lo + 1, hi) = [k \in 1 .. WbdaWindow |-> SubSeq(u, lo + 1, hi)[k]]
    BY <2>2, <2>3, Zenon
  <2>5. QED
    BY <2>2, <2>4, Zenon
<1>6. \A k \in 1 .. WbdaWindow : lo + k \in 1 .. n
  BY <1>1, <1>2, <1>4
<1>7. \A k \in 1 .. WbdaWindow : v[lo + k] = w[lo + k]
  BY <1>6, Zenon
<1>8. QED
  BY <1>3, <1>5, <1>7, ZenonT(40) DEF lo

(* The target get_expected_difficulty gives a block follows its own line if *)
(* its parent's does.                                                       *)
LEMMA BitsStep ==
  ASSUME NEW tree, Ancestry(tree), NEW h \in DOMAIN tree, Height(tree, h) # 0,
         RightBits(tree, Above(tree, h)),
         NEW seen, \A k \in 1 .. Height(tree, Above(tree, h)) :
                     seen[k] = OwnWeights(tree, Above(tree, h))[k],
         tree[h].block.bits = ExpectedDifficulty(Height(tree, h),
                                tree[Above(tree, h)].block.bits, seen)
  PROVE  RightBits(tree, h)
<1> DEFINE n    == Height(tree, h)
           up   == Above(tree, h)
           own  == OwnWeights(tree, h)
           old  == OwnWeights(tree, up)
           q    == (n - 1) \div WbdaWindow
<1>1. WbdaWindow \in Nat /\ WbdaWindow > 0
  BY DifficultyAssumption
<1>2. up \in DOMAIN tree /\ n = Height(tree, up) + 1
  BY Zenon DEF Ancestry, Rooted
<1>3. n \in Nat /\ Height(tree, up) \in Nat
  BY <1>2, NodeFacts, Zenon DEF Ancestry
<1>4. n >= 1 /\ Height(tree, up) = n - 1 /\ n - 1 \in Nat
  BY <1>2, <1>3
<1>5. own \in Seq(Nat) /\ Len(own) = n /\ \A k \in 1 .. n - 1 : own[k] = old[k]
  BY WeightsExtend, Zenon
<1>6. n > 1 => old \in Seq(Nat) /\ Len(old) = n - 1
  <2>1. n > 1 => Height(tree, up) # 0
    BY <1>4
  <2>2. QED
    BY <1>2, <1>4, <2>1, WeightsExtend, Zenon
<1>7. \A k \in 1 .. n - 1 : seen[k] = old[k]
  BY <1>4, Zenon
<1>8. tree[h].block.bits = ExpectedDifficulty(n, tree[up].block.bits, seen)
  BY Zenon
<1>9. n > 1 => tree[up].block.bits = EpochBits(old, ((n - 1) - 1) \div WbdaWindow)
  <2>1. n > 1 => Height(tree, up) > 0
    BY <1>3, <1>4
  <2>2. Height(tree, up) > 0 =>
          tree[up].block.bits = EpochBits(old, (Height(tree, up) - 1) \div WbdaWindow)
    BY Zenon DEF RightBits
  <2>3. QED
    BY <1>4, <2>1, <2>2, Zenon
<1>10. /\ q \in Nat /\ q * WbdaWindow <= n - 1 /\ n - 1 < q * WbdaWindow + WbdaWindow
       /\ n - 1 = WbdaWindow * q + ((n - 1) % WbdaWindow) /\ (n - 1) % WbdaWindow \in Nat
  BY <1>1, <1>4, Quotient, Zenon
<1>11. RightBits(tree, h) <=> (n > 0 => tree[h].block.bits = EpochBits(own, q))
  BY Zenon DEF RightBits
<1>12. ASSUME NEW top \in Nat, n > 1, top * WbdaWindow <= n - 1
       PROVE  EpochBits(old, top) = EpochBits(own, top)
  <2>1. ASSUME NEW e \in 1 .. top PROVE Window(old, e) = Window(own, e)
    <3>1. e \in Nat /\ e # 0 /\ e <= top
      OBVIOUS
    <3>2. e * WbdaWindow <= top * WbdaWindow /\ e * WbdaWindow \in Nat /\ top * WbdaWindow \in Nat
      BY <1>1, <3>1, MultipleOrder, MultipleStep, ZenonT(40)
    <3>3. e * WbdaWindow <= n - 1
      BY <1>4, <1>12, <3>2, SMTT(30), SMTT(60)
    <3>4. n - 1 <= Len(own) /\ n - 1 <= Len(old) /\ \A k \in 1 .. n - 1 : old[k] = own[k]
      BY <1>3, <1>5, <1>6, <1>12, SMT, SMTT(30)
    <3>5. own \in Seq(Nat) /\ old \in Seq(Nat)
      BY <1>5, <1>6, <1>12, Zenon
    <3> HIDE DEF own, old, n
    <3>6. QED
      BY <1>4, <3>1, <3>3, <3>4, <3>5, WindowAgree, ZenonT(40)
  <2> HIDE DEF own, old
  <2>2. SameWindows(old, own, top)
    BY <2>1, Zenon DEF SameWindows
  <2>3. QED
    BY <2>2, EpochAgree, Zenon
<1> HIDE DEF n, up, own, old, q
<1>13. CASE n = 1
  <2>1. q = 0
    BY <1>1, <1>10, <1>13, QuotientIs DEF q
  <2>2. EpochBits(own, 0) = TargetBitsStart
    BY EpochStep, Zenon
  <2>3. tree[h].block.bits = TargetBitsStart
    BY <1>8, <1>13, Zenon DEF ExpectedDifficulty
  <2>4. QED
    BY <1>11, <2>1, <2>2, <2>3, Zenon
<1>14. CASE n > 1 /\ (n - 1) % WbdaWindow # 0
  <2>1. tree[h].block.bits = tree[up].block.bits
    <3>1. n # 1
      BY <1>14
    <3>2. QED
      BY <1>8, <1>14, <3>1, Zenon DEF ExpectedDifficulty, IsEpochBoundary
  <2>2. ((n - 1) - 1) \div WbdaWindow = q
    <3>1. q * WbdaWindow = WbdaWindow * q
      BY <1>1, <1>10, SMTT(30), SMTT(60)
    <3>2. q * WbdaWindow <= (n - 1) - 1 /\ (n - 1) - 1 < q * WbdaWindow + WbdaWindow
      BY <1>1, <1>3, <1>10, <1>14, <3>1, SMTT(30), SMTT(60)
    <3>3. (n - 1) - 1 \in Nat
      BY <1>3, <1>14
    <3>4. QED
      BY <1>1, <1>10, <3>2, <3>3, QuotientIs, ZenonT(40)
  <2>3. QED
    BY <1>9, <1>10, <1>11, <1>12, <1>14, <2>1, <2>2, Zenon
<1>15. CASE n > 1 /\ (n - 1) % WbdaWindow = 0
  <2>1. n - 1 = q * WbdaWindow /\ q # 0 /\ q - 1 \in Nat
    <3>1. WbdaWindow * q = q * WbdaWindow /\ q * WbdaWindow \in Nat
      BY <1>1, <1>10, SMTT(30), SMTT(60)
    <3>2. n - 1 = q * WbdaWindow
      BY <1>3, <1>10, <1>15, <3>1, SMTT(30), SMTT(60)
    <3>3. q = 0 => q * WbdaWindow = 0
      BY <1>1
    <3>4. q # 0
      BY <1>3, <1>15, <3>2, <3>3, SMTT(30), SMTT(60)
    <3>5. QED
      BY <1>10, <3>2, <3>4, SMTT(30), SMTT(60)
  <2>2. /\ q * WbdaWindow = (q - 1) * WbdaWindow + WbdaWindow /\ (q - 1) * WbdaWindow \in Nat
        /\ (q - 1) + 1 = q
    BY <1>1, <1>10, <2>1, MultipleStep
  <2> DEFINE lo == (q - 1) * WbdaWindow
  <2> HIDE DEF lo
  <2>3. lo \in Nat /\ n - 1 = lo + WbdaWindow
    BY <2>1, <2>2, Zenon DEF lo
  <2>4. ((n - 1) - 1) \div WbdaWindow = q - 1
    <3>1. (n - 1) - 1 \in Nat /\ lo <= (n - 1) - 1 /\ (n - 1) - 1 < lo + WbdaWindow
      BY <1>1, <1>3, <1>15, <2>3
    <3>2. QED
      BY <1>1, <2>1, <3>1, QuotientIs, ZenonT(40) DEF lo
  <2>5. tree[up].block.bits = EpochBits(own, q - 1)
    <3>1. (q - 1) * WbdaWindow <= n - 1
      BY <1>1, <2>3 DEF lo
    <3>2. QED
      BY <1>9, <1>12, <1>15, <2>1, <2>4, <3>1, ZenonT(40)
  <2>6. [i \in 1 .. WbdaWindow |-> seen[n - WbdaWindow + i - 1]] = Window(own, q)
    <3>1. Window(own, q) = [k \in 1 .. WbdaWindow |-> own[(q - 1) * WbdaWindow + k]]
      <4>1. q * WbdaWindow <= n - 1 /\ n - 1 <= Len(own) /\ \A k \in 1 .. n - 1 : own[k] = own[k]
        BY <1>3, <1>5, <2>1
      <4>2. own \in Seq(Nat) /\ n - 1 \in Nat /\ q \in Nat /\ q # 0
        BY <1>4, <1>5, <1>10, <2>1, Zenon
      <4>3. QED
        BY <4>1, <4>2, WindowAgree, Zenon
    <3>2. ASSUME NEW k \in 1 .. WbdaWindow PROVE seen[n - WbdaWindow + k - 1] = own[lo + k]
      <4>1. n - WbdaWindow + k - 1 = lo + k /\ lo + k \in 1 .. n - 1
        BY <1>1, <1>3, <2>3
      <4>2. QED
        BY <1>5, <1>7, <4>1, Zenon
    <3>3. QED
      BY <3>1, <3>2, Zenon DEF lo
  <2>7. tree[h].block.bits = NextDifficulty(tree[up].block.bits,
                               [i \in 1 .. WbdaWindow |-> seen[n - WbdaWindow + i - 1]])
    <3>1. n # 1
      BY <1>15
    <3>2. QED
      BY <1>8, <1>15, <3>1, ZenonT(40) DEF ExpectedDifficulty, IsEpochBoundary
  <2>8. EpochBits(own, (q - 1) + 1) = NextDifficulty(EpochBits(own, q - 1), Window(own, (q - 1) + 1))
    BY <2>1, EpochStep, Zenon
  <2>9. QED
    BY <1>11, <2>2, <2>5, <2>6, <2>7, <2>8, ZenonT(40)
<1>16. QED
  BY <1>3, <1>4, <1>13, <1>14, <1>15, SMTT(30), SMTT(60)

-----------------------------------------------------------------------------
(* What insert_block does to the tree: a new hash, below the genesis or     *)
(* above a known block, and nothing else.                                   *)
Grown(tree, more, c) ==
  /\ c.hash \notin DOMAIN tree
  /\ DOMAIN more = DOMAIN tree \cup {c.hash}
  /\ \A h \in DOMAIN tree : more[h] = tree[h]
  /\ more[c.hash] \in BlockNode /\ more[c.hash].block = c
  /\ \/ c.height = 0 /\ c.hash = ExpectedGenesis
     \/ /\ c.height # 0 /\ c.parent \in DOMAIN tree
        /\ c.height = Height(tree, c.parent) + 1

(* A new leaf leaves a tree a tree whose walks end. *)
LEMMA GrowthKeepsAncestry ==
  ASSUME NEW tree, NEW more, NEW c, Ancestry(tree), Grown(tree, more, c)
  PROVE  Ancestry(more)
<1>1. Stored(more)
  BY Zenon DEF Stored, Ancestry, Grown
<1>2. Rooted(more)
  <2> SUFFICES ASSUME NEW h \in DOMAIN more
               PROVE  \/ Height(more, h) = 0 /\ h = ExpectedGenesis
                      \/ /\ Height(more, h) # 0 /\ Above(more, h) \in DOMAIN more
                         /\ Height(more, h) = Height(more, Above(more, h)) + 1
    BY Zenon DEF Rooted
  <2>1. CASE h = c.hash
    BY <2>1, Zenon DEF Grown, Height, Above
  <2>2. CASE h # c.hash
    <3>1. h \in DOMAIN tree /\ more[h] = tree[h]
      BY <2>2, Zenon DEF Grown
    <3>2. \/ Height(tree, h) = 0 /\ h = ExpectedGenesis
          \/ /\ Height(tree, h) # 0 /\ Above(tree, h) \in DOMAIN tree
             /\ Height(tree, h) = Height(tree, Above(tree, h)) + 1
      BY <3>1, Zenon DEF Ancestry, Rooted
    <3>3. Height(more, h) = Height(tree, h) /\ Above(more, h) = Above(tree, h)
      BY <3>1, Zenon DEF Height, Above
    <3>4. \A k \in DOMAIN tree : k \in DOMAIN more /\ Height(more, k) = Height(tree, k)
      BY Zenon DEF Grown, Height
    <3>5. QED
      BY <3>2, <3>3, <3>4, Zenon
  <2>3. QED
    BY <2>1, <2>2, Zenon
<1>3. Walked(more)
  <2>1. PICK f : f = [h \in DOMAIN tree |->
                IF tree[h].block.height = 0 \/ tree[h].block.parent \notin DOMAIN tree
                THEN <<h>> ELSE <<h>> \o f[tree[h].block.parent]]
    BY Zenon DEF Ancestry, Walked
  <2> DEFINE g == [h \in DOMAIN more |->
                     IF h \in DOMAIN tree THEN f[h]
                     ELSE IF c.height = 0 THEN <<h>> ELSE <<h>> \o f[c.parent]]
  <2>2. ASSUME NEW h \in DOMAIN more
        PROVE  g[h] = IF more[h].block.height = 0 \/ more[h].block.parent \notin DOMAIN more
                      THEN <<h>> ELSE <<h>> \o g[more[h].block.parent]
    <3>1. CASE h \in DOMAIN tree
      <4>1. g[h] = f[h] /\ more[h] = tree[h]
        BY <3>1, Zenon DEF Grown
      <4>2. f[h] = IF tree[h].block.height = 0 \/ tree[h].block.parent \notin DOMAIN tree
                   THEN <<h>> ELSE <<h>> \o f[tree[h].block.parent]
        BY <2>1, <3>1, Zenon
      <4>3. CASE tree[h].block.height = 0
        BY <4>1, <4>2, <4>3, Zenon
      <4>4. CASE tree[h].block.height # 0
        <5>1. tree[h].block.parent \in DOMAIN tree
          BY <3>1, <4>4, Zenon DEF Ancestry, Rooted, Height, Above
        <5>2. tree[h].block.parent \in DOMAIN more /\ g[tree[h].block.parent] = f[tree[h].block.parent]
          BY <5>1, Zenon DEF Grown
        <5> HIDE DEF g
        <5>3. QED
          BY <4>1, <4>2, <4>4, <5>1, <5>2, Zenon
      <4>5. QED
        BY <4>3, <4>4, Zenon
    <3>2. CASE h \notin DOMAIN tree
      <4>1. h = c.hash /\ more[h].block = c
        BY <3>2, Zenon DEF Grown
      <4>2. g[h] = IF c.height = 0 THEN <<h>> ELSE <<h>> \o f[c.parent]
        BY <3>2, Zenon
      <4>3. c.height # 0 => c.parent \in DOMAIN more /\ g[c.parent] = f[c.parent]
        BY Zenon DEF Grown
      <4> HIDE DEF g
      <4>4. QED
        BY <4>1, <4>2, <4>3, Zenon
    <3>3. QED
      BY <3>1, <3>2, Zenon
  <2>3. g = [h \in DOMAIN more |-> g[h]]
    BY Zenon
  <2> HIDE DEF g
  <2>4. g = [h \in DOMAIN more |->
                IF more[h].block.height = 0 \/ more[h].block.parent \notin DOMAIN more
                THEN <<h>> ELSE <<h>> \o g[more[h].block.parent]]
    BY <2>2, <2>3, Zenon
  <2>5. QED
    BY <2>4, Zenon DEF Walked
<1>4. QED
  BY <1>1, <1>2, <1>3, Zenon DEF Ancestry

(* The line of a block known before does not change. *)
LEMMA GrowthKeepsLines ==
  ASSUME NEW tree, NEW more, NEW c, Ancestry(tree), Grown(tree, more, c), NEW h \in DOMAIN tree
  PROVE  AncestorHashes(more, h) = AncestorHashes(tree, h)
<1> DEFINE S == {n \in Nat : \A k \in DOMAIN tree :
                   Height(tree, k) = n => AncestorHashes(more, k) = AncestorHashes(tree, k)}
<1>1. Ancestry(more)
  BY GrowthKeepsAncestry, Zenon
<1>2. \A k \in DOMAIN tree : /\ k \in DOMAIN more /\ Height(more, k) = Height(tree, k)
                             /\ Above(more, k) = Above(tree, k)
  BY Zenon DEF Grown, Height, Above
<1>3. 0 \in S
  <2> SUFFICES ASSUME NEW k \in DOMAIN tree, Height(tree, k) = 0
               PROVE  AncestorHashes(more, k) = AncestorHashes(tree, k)
    BY Zenon
  <2>1. AncestorHashes(tree, k) = <<k>>
    BY WalkStep, Zenon
  <2>2. AncestorHashes(more, k) = <<k>>
    BY <1>1, <1>2, WalkStep, Zenon
  <2>3. QED
    BY <2>1, <2>2, Zenon
<1>4. ASSUME NEW n \in Nat, n \in S PROVE n + 1 \in S
  <2> SUFFICES ASSUME NEW k \in DOMAIN tree, Height(tree, k) = n + 1
               PROVE  AncestorHashes(more, k) = AncestorHashes(tree, k)
    OBVIOUS
  <2>1. Height(tree, k) # 0
    OBVIOUS
  <2>2. Above(tree, k) \in DOMAIN tree /\ Height(tree, k) = Height(tree, Above(tree, k)) + 1
    BY <2>1, Zenon DEF Ancestry, Rooted
  <2>3. Height(tree, Above(tree, k)) = n
    <3>1. Height(tree, Above(tree, k)) \in Nat
      BY <2>2, NodeFacts, Zenon DEF Ancestry
    <3>2. QED
      BY <2>2, <3>1
  <2>4. AncestorHashes(more, Above(tree, k)) = AncestorHashes(tree, Above(tree, k))
    BY <1>4, <2>2, <2>3, Zenon
  <2>5. AncestorHashes(tree, k) = <<k>> \o AncestorHashes(tree, Above(tree, k))
    BY <2>1, WalkStep, Zenon
  <2>6. AncestorHashes(more, k) = <<k>> \o AncestorHashes(more, Above(more, k))
    BY <1>1, <1>2, <2>1, WalkStep, Zenon
  <2>7. QED
    BY <1>2, <2>4, <2>5, <2>6, Zenon
<1> HIDE DEF S
<1>5. Height(tree, h) \in Nat
  BY NodeFacts, Zenon DEF Ancestry
<1>6. Height(tree, h) \in S
  <2>1. \A n \in 0 .. Height(tree, h) : n \in S
    BY <1>3, <1>4, <1>5, Induct, Zenon
  <2>2. QED
    BY <1>5, <2>1
<1>7. QED
  BY <1>6, Zenon DEF S

(* Nor do its weights, nor what its target must be. *)
LEMMA GrowthKeepsBits ==
  ASSUME NEW tree, NEW more, NEW c, Ancestry(tree), Grown(tree, more, c), NEW h \in DOMAIN tree
  PROVE  OwnWeights(more, h) = OwnWeights(tree, h) /\ (RightBits(tree, h) => RightBits(more, h))
<1> DEFINE line == AncestorHashes(tree, h)
           n    == Height(tree, h)
<1>1. AncestorHashes(more, h) = line /\ Height(more, h) = n /\ more[h] = tree[h]
  <2>1. AncestorHashes(more, h) = line
    BY GrowthKeepsLines, Zenon
  <2>2. QED
    BY <2>1, Zenon DEF Grown, Height
<1>2. Descends(tree, line, h) /\ n \in Nat
  BY LinesDescend, NodeFacts, Zenon DEF Ancestry
<1>3. OwnWeights(tree, h) = [k \in 1 .. n |-> tree[line[n - k + 1]].block.weight]
  BY Zenon DEF OwnWeights
<1>4. OwnWeights(more, h) = [k \in 1 .. n |-> more[line[n - k + 1]].block.weight]
  BY <1>1, Zenon DEF OwnWeights
<1> HIDE DEF line
<1>5. line \in Seq(DOMAIN tree) /\ Len(line) = n + 1
  BY <1>2, Zenon DEF Descends
<1>6. ASSUME NEW k \in 1 .. n PROVE more[line[n - k + 1]] = tree[line[n - k + 1]]
  <2> HIDE DEF n
  <2>1. n - k + 1 \in 1 .. Len(line)
    BY <1>2, <1>5
  <2>2. line[n - k + 1] \in DOMAIN tree
    BY <1>5, <2>1
  <2>3. QED
    BY <2>2, Zenon DEF Grown
<1>7. OwnWeights(more, h) = OwnWeights(tree, h)
  BY <1>3, <1>4, <1>6, Zenon
<1>8. QED
  BY <1>1, <1>7, Zenon DEF RightBits

(* What insert_block keeps of the tree. *)
LineInv == Ancestry(nodes) /\ \A h \in DOMAIN nodes : RightBits(nodes, h)

(* A block that passes the checks of insert_block is put on a known line,   *)
(* with the target that line determines.                                    *)
LEMMA InsertGrows ==
  ASSUME TypeOK, NEW c \in Candidate, InsertBlock(c)
  PROVE  Grown(nodes, nodes', c)
<1>1. c.height # 0 => c.parent \in DOMAIN nodes /\ c.height = Height(nodes, c.parent) + 1
  BY Zenon DEF InsertBlock, Extends, Height
<1>2. NodeOf(c) \in BlockNode /\ NodeOf(c).block = c
  BY <1>1, NodeOfType, Zenon DEF InsertBlock
<1>3. c.hash \notin DOMAIN nodes /\ (c.height = 0 => c.hash = ExpectedGenesis)
  BY Zenon DEF InsertBlock, Admissible, IsGenesis
<1>4. /\ DOMAIN nodes' = DOMAIN nodes \cup {c.hash}
      /\ nodes'[c.hash] = NodeOf(c)
      /\ \A h \in DOMAIN nodes : nodes'[h] = nodes[h]
  BY <1>3, Zenon DEF InsertBlock
<1>5. QED
  BY <1>1, <1>2, <1>3, <1>4, Zenon DEF Grown

(* insert_block keeps the tree rooted and its targets right. *)
LEMMA InsertKeepsLines ==
  ASSUME TypeOK, LineInv, NEW c \in Candidate, InsertBlock(c)
  PROVE  LineInv'
<1>1. Grown(nodes, nodes', c) /\ Ancestry(nodes)
  BY InsertGrows, Zenon DEF LineInv
<1>2. Ancestry(nodes')
  BY <1>1, GrowthKeepsAncestry, Zenon
<1>3. \A h \in DOMAIN nodes : RightBits(nodes', h) /\ OwnWeights(nodes', h) = OwnWeights(nodes, h)
  BY <1>1, GrowthKeepsBits, Zenon DEF LineInv
<1>4. c.hash \in DOMAIN nodes' /\ nodes'[c.hash].block = c
  BY <1>1, Zenon DEF Grown
<1>5. RightBits(nodes', c.hash)
  <2>1. CASE c.height = 0
    BY <1>4, <2>1 DEF RightBits, Height
  <2>2. CASE c.height # 0
    <3> DEFINE seen == BranchWeights(nodes, c.parent)
    <3>1. c.parent \in DOMAIN nodes /\ nodes'[c.parent] = nodes[c.parent]
      BY <1>1, <2>2, Zenon DEF Grown
    <3>2. c.bits = ExpectedDifficulty(c.height, nodes[c.parent].block.bits, seen)
      BY <2>2, Zenon DEF InsertBlock, Extends
    <3>3. \A k \in 1 .. Height(nodes, c.parent) : seen[k] = OwnWeights(nodes, c.parent)[k]
      BY <1>1, <3>1, WeightsByHeight, Zenon
    <3> HIDE DEF seen
    <3>4. Height(nodes', c.hash) = c.height /\ Above(nodes', c.hash) = c.parent
      BY <1>4, Zenon DEF Height, Above
    <3>5. \A k \in 1 .. Height(nodes', Above(nodes', c.hash)) :
            seen[k] = OwnWeights(nodes', Above(nodes', c.hash))[k]
      BY <1>3, <3>1, <3>3, <3>4, Zenon DEF Height
    <3>6. RightBits(nodes', Above(nodes', c.hash)) /\ Height(nodes', c.hash) # 0
      BY <1>3, <2>2, <3>1, <3>4, Zenon
    <3>7. nodes'[c.hash].block.bits =
            ExpectedDifficulty(Height(nodes', c.hash),
                               nodes'[Above(nodes', c.hash)].block.bits, seen)
      BY <1>4, <3>1, <3>2, <3>4, Zenon
    <3>8. QED
      BY <1>2, <1>4, <3>5, <3>6, <3>7, BitsStep, Zenon
  <2>3. QED
    BY <2>1, <2>2, Zenon
<1>6. \A h \in DOMAIN nodes' : h \in DOMAIN nodes \/ h = c.hash
  BY <1>1, Zenon DEF Grown
<1>7. QED
  BY <1>2, <1>3, <1>5, <1>6, Zenon DEF LineInv

(* Read from genesis up, the weights of a line are those LineOf gives.      *)
LEMMA BitsAsStated ==
  ASSUME LineInv
  PROVE  BitsFollowOwnBranch
<1> SUFFICES ASSUME NEW h \in DOMAIN nodes, nodes[h].block.height > 0
             PROVE  nodes[h].block.bits =
                      EpochBits([k \in 1 .. nodes[h].block.height |->
                                   nodes[LineOf(h)[k + 1]].block.weight],
                                (nodes[h].block.height - 1) \div WbdaWindow)
  BY Zenon DEF BitsFollowOwnBranch
<1> DEFINE line == AncestorHashes(nodes, h)
           n    == Height(nodes, h)
<1>1. Descends(nodes, line, h) /\ n \in Nat
  BY LinesDescend, NodeFacts, Zenon DEF LineInv, Ancestry
<1>2. OwnWeights(nodes, h) = [k \in 1 .. n |-> nodes[line[n - k + 1]].block.weight]
  BY Zenon DEF OwnWeights
<1>3. LineOf(h) = Reverse(line) /\ nodes[h].block.height = n
  BY Zenon DEF LineOf, Height
<1>4. nodes[h].block.bits = EpochBits(OwnWeights(nodes, h), (n - 1) \div WbdaWindow)
  BY <1>3, Zenon DEF LineInv, RightBits
<1> HIDE DEF line, n
<1>5. line \in Seq(DOMAIN nodes) /\ Len(line) = n + 1
  BY <1>1, Zenon DEF Descends, n
<1>6. ASSUME NEW k \in 1 .. n PROVE LineOf(h)[k + 1] = line[n - k + 1]
  <2>1. k + 1 \in 1 .. Len(line) /\ Len(line) - (k + 1) + 1 = n - k + 1
    BY <1>1, <1>5
  <2>2. Reverse(line)[k + 1] = line[Len(line) - (k + 1) + 1]
    BY <1>5, <2>1, ReversePlaces, Zenon
  <2>3. QED
    BY <1>3, <2>1, <2>2, Zenon
<1>7. [k \in 1 .. n |-> nodes[LineOf(h)[k + 1]].block.weight] = OwnWeights(nodes, h)
  BY <1>2, <1>6, Zenon
<1>8. QED
  BY <1>3, <1>4, <1>7, Zenon

(* Every reachable tree is rooted in the genesis, its walks end, and every  *)
(* target follows its own line.                                             *)
THEOREM LineInvariance == TreeSpec => []LineInv
<1>1. TreeInit => LineInv
  <2> SUFFICES ASSUME TreeInit PROVE LineInv
    BY Zenon
  <2>1. DOMAIN nodes = {}
    BY DEF TreeInit
  <2>2. Stored(nodes) /\ Rooted(nodes) /\ \A h \in DOMAIN nodes : RightBits(nodes, h)
    BY <2>1, Zenon DEF Stored, Rooted
  <2> DEFINE f == [h \in DOMAIN nodes |-> <<h>>]
  <2>3. f = [h \in DOMAIN nodes |->
               IF nodes[h].block.height = 0 \/ nodes[h].block.parent \notin DOMAIN nodes
               THEN <<h>> ELSE <<h>> \o f[nodes[h].block.parent]]
    BY <2>1, Zenon
  <2>4. Walked(nodes)
    BY <2>3, Zenon DEF Walked
  <2>5. QED
    BY <2>2, <2>4, Zenon DEF LineInv, Ancestry
<1>2. TreeInv /\ LineInv /\ [TreeNext]_treeVars => LineInv'
  <2> SUFFICES ASSUME TreeInv, LineInv, [TreeNext]_treeVars PROVE LineInv'
    BY Zenon
  <2>1. ASSUME NEW c \in Candidate, InsertBlock(c) PROVE LineInv'
    BY <2>1, InsertKeepsLines, Zenon DEF TreeInv
  <2>2. CASE UNCHANGED treeVars
    <3>1. nodes' = nodes
      BY <2>2, Zenon DEF treeVars
    <3>2. LineInv' <=> Ancestry(nodes') /\ \A h \in DOMAIN nodes' : RightBits(nodes', h)
      BY Zenon DEF LineInv
    <3>3. QED
      BY <3>1, <3>2, Zenon DEF LineInv
  <2>3. QED
    BY <2>1, <2>2, Zenon DEF TreeNext
<1>3. QED
  BY <1>1, <1>2, TreeInvariance, PTL DEF TreeSpec

(* A plan of plan_reorg between any two known tips is linked, disconnects   *)
(* nothing it connects again, and turns the one chain into the other.       *)
THEOREM PlansConnect == TreeSpec => []ReorgPlanConnects
<1>1. LineInv => ReorgPlanConnects
  BY PlanConnects, Zenon DEF LineInv
<1>2. QED
  BY <1>1, LineInvariance, PTL

(* The target of every accepted block is the one the weights of its own     *)
(* ancestors determine, epoch by epoch from the starting target.            *)
THEOREM TargetsFollowOwnBranch == TreeSpec => []BitsFollowOwnBranch
BY BitsAsStated, LineInvariance, PTL
-----------------------------------------------------------------------------
(* A line starts with genesis and ends with its tip. *)
LEMMA LineShape ==
  ASSUME NEW t \in Block
  PROVE  /\ Line[t] \in Seq(Block) /\ Len(Line[t]) \in Nat \ {0}
         /\ Line[t][1] = Genesis /\ Line[t][Len(Line[t])] = t
<1>1. Line[t] \in Seq(Block) /\ Line[t] # <<>>
  BY BlockTreeAssumption, Zenon
<1>2. Line[t][1] = Genesis /\ Line[t][Len(Line[t])] = t
  BY BlockTreeAssumption, Zenon
<1>3. QED
  BY <1>1, <1>2

(* A block is on its own line, at its height. *)
LEMMA OwnLine ==
  ASSUME NEW t \in Block
  PROVE  /\ HeightOf(t) \in Nat /\ Len(Line[t]) = HeightOf(t) + 1
         /\ Line[t][HeightOf(t) + 1] = t
         /\ HeaderAt(t, HeightOf(t)) = t
BY LineShape DEF HeightOf, HeaderAt

(* Genesis is a block, at height 0. *)
LEMMA GenesisHeight == Genesis \in Block /\ HeightOf(Genesis) = 0
<1>1. Genesis \in Block /\ Line[Genesis] = <<Genesis>>
  BY BlockTreeAssumption, Zenon
<1>2. QED
  BY <1>1 DEF HeightOf

(* The line of a block on a line is the part of that line up to it. *)
LEMMA LinePrefix ==
  ASSUME NEW t \in Block, NEW i \in 1 .. Len(Line[t])
  PROVE  Line[t][i] \in Block /\ Line[Line[t][i]] = SubSeq(Line[t], 1, i)
<1>1. Line[t] \in Seq(Block) /\ Line[Line[t][i]] = SubSeq(Line[t], 1, i)
  BY BlockTreeAssumption, Zenon
<1>2. Line[t][i] \in Block
  BY <1>1
<1>3. QED
  BY <1>1, <1>2, Zenon

-----------------------------------------------------------------------------
(* What the dialing node remembers of a session. *)
Sessions ==
  [sent : Block, remote : Block, mine : Block, theirs : SUBSET Op, batch : Seq(Block),
   todo : SUBSET Op, after : {"loop", "mempool", "decide", "wait"},
   blocks : Nat, txs : Nat, reqs : Nat, seen : Seq(Block), force : BOOLEAN]

(* The types of the nodes and of the session. *)
SessionTypes ==
  /\ tip \in [Node -> Block] /\ pool \in [Node -> SUBSET Op]
  /\ early \in Seq(Block) /\ dirty \in BOOLEAN /\ s \in Sessions

(* A pool on a chain: the coins are unspent, and what the operations build   *)
(* on is in the chain or in the pool.                                        *)
Sound(t, ops) ==
  \A o \in ops : CoinOf[o] \notin Spent(t) /\ Needs[o] \subseteq Included[t] \cup ops

(* It is so at each node. *)
PoolsSound == \A n \in Node : Sound(tip[n], pool[n])

(* Calls of one pool that can be sent to the other: what they build on is    *)
(* there, among them, or a deployment that is not sent.                      *)
Sendable(t, from, to, items) ==
  /\ items \subseteq from \ Deploys
  /\ \A o \in items : Needs[o] \subseteq Included[t] \cup to \cup items \cup (from \cap Deploys)

(* What the phase alone says: what follows it, and who is below a minimum   *)
(* when a branch is offered.                                                *)
PhaseInv ==
  /\ a # "closed" => why = "none"
  /\ a = "push" => s.after \in {"mempool", "decide"}
  /\ a = "submit" => s.after \in {"loop", "wait"}
  /\ a \in {"offer", "serve"} => b = "reverse" \/ ~ Allows("B", s.sent)

(* What an undisturbed session still knows in each phase: the tips it       *)
(* compared are those held, a batch ends in the tip, inventories are those  *)
(* of the pools, and once blocks are exchanged the tips are equal.          *)
Quiet ==
  /\ a \in {"sync", "greet", "shallow", "compact", "descend", "apply"} => s.remote = tip["B"]
  /\ a \in {"compact", "descend", "apply"} => s.mine = tip["A"]
  /\ a = "inventory" => s.sent = tip["A"]
  /\ a \in {"mempool", "submit", "exchange", "fetch"} => tip["A"] = tip["B"]
  /\ a = "push" /\ s.after = "mempool" =>
       s.batch = <<tip["A"]>> \/ (s.batch = <<>> /\ tip["A"] = tip["B"])
  /\ a = "serve" => OnLine(s.sent, tip["A"])
  /\ a \in {"exchange", "fetch"} => s.theirs = pool["B"] \ Deploys
  /\ a = "fetch" => Sendable(tip["A"], pool["B"], pool["A"], s.todo)
  /\ a = "submit" => Sendable(tip["B"], pool["A"], pool["B"], s.todo)

(* Only a change from outside makes that stale. *)
QuietInv == disturbed \/ Quiet

(* The inductive invariant of a gossip session. *)
SessionInv == SessionTypes /\ PoolsSound /\ PhaseInv /\ QuietInv /\ FailsOnlyByRace

-----------------------------------------------------------------------------
(* A block is on its own line, and genesis on every line. *)
LEMMA OnOwnLine ==
  ASSUME NEW t \in Block
  PROVE  OnLine(t, t) /\ OnLine(Genesis, t)
BY OwnLine, LineShape, GenesisHeight DEF OnLine, HeaderAt

(* The best common ancestor of two chains is on both. *)
LEMMA CommonOnBoth ==
  ASSUME NEW t \in Block, NEW u \in Block
  PROVE  OnLine(Common(t, u), t) /\ OnLine(Common(t, u), u)
<1> DEFINE both == {c \in Block : OnLine(c, t) /\ OnLine(c, u)}
           H == {HeightOf(c) : c \in both}
           n == HeightOf(t)
<1>1. n \in Nat /\ \A c \in both : HeightOf(c) \in 0 .. n
  BY OwnLine DEF OnLine
<1>2. Genesis \in both
  BY GenesisHeight, OnOwnLine, Zenon
<1>3. H \in SUBSET Nat /\ H # {} /\ \A h \in H : h <= n
  BY <1>1, <1>2
<1>4. \E h \in H : \A g \in H : g <= h
  <2> HIDE DEF H, n
  <2>1. QED
    BY <1>1, <1>3, Greatest, Zenon
<1>5. PICK c \in both : \A d \in both : HeightOf(d) <= HeightOf(c)
  BY <1>4, Zenon
<1>6. \E x \in Block : /\ OnLine(x, t) /\ OnLine(x, u)
                       /\ \A d \in Block : OnLine(d, t) /\ OnLine(d, u) => HeightOf(d) <= HeightOf(x)
  BY <1>5, Zenon
<1>7. QED
  BY <1>6, Zenon DEF Common

-----------------------------------------------------------------------------
(* The steps of Chained are well defined. *)
Linked(batch, blocks, t, i) ==
  LET final == IF batch = <<>> THEN t ELSE batch[Len(batch)]
  IN  IF Parent(blocks[i]) = final THEN Append(batch, blocks[i]) ELSE batch

(* The batches that Chained builds, block by block. *)
IsChained(f, blocks, t, n) ==
  f = [i \in 0 .. n |-> IF i = 0 THEN <<>> ELSE Linked(f[i - 1], blocks, t, i)]

(* There is such a sequence of batches. *)
LEMMA ChainedExists ==
  ASSUME NEW blocks, NEW t, NEW n \in Nat
  PROVE  \E f : IsChained(f, blocks, t, n)
<1> DEFINE S == {k \in Nat : \E f : f = [i \in 0 .. k |->
                    IF i = 0 THEN <<>> ELSE Linked(f[i - 1], blocks, t, i)]}
<1>1. 0 \in S
  <2> DEFINE f == [i \in 0 .. 0 |-> <<>>]
  <2>1. f = [i \in 0 .. 0 |-> IF i = 0 THEN <<>> ELSE Linked(f[i - 1], blocks, t, i)]
    OBVIOUS
  <2>2. QED
    BY <2>1, Zenon
<1>2. ASSUME NEW k \in Nat, k \in S
      PROVE  k + 1 \in S
  <2>1. PICK f : f = [i \in 0 .. k |->
                       IF i = 0 THEN <<>> ELSE Linked(f[i - 1], blocks, t, i)]
    BY <1>2, Zenon
  <2> DEFINE g == [i \in 0 .. k + 1 |->
                     IF i = k + 1 THEN Linked(f[k], blocks, t, k + 1) ELSE f[i]]
  <2>2. ASSUME NEW i \in 0 .. k + 1
        PROVE  g[i] = IF i = 0 THEN <<>> ELSE Linked(g[i - 1], blocks, t, i)
    <3>1. CASE i = k + 1
      BY <3>1, SMTT(30), SMTT(60)
    <3>2. CASE i \in 0 .. k
      <4>1. f[i] = IF i = 0 THEN <<>> ELSE Linked(f[i - 1], blocks, t, i)
        BY <2>1, <3>2, Zenon
      <4>2. i # 0 => g[i - 1] = f[i - 1]
        BY <3>2
      <4>3. QED
        BY <3>2, <4>1, <4>2, SMTT(30)
    <3>3. QED
      BY <3>1, <3>2, SMTT(30), SMTT(60)
  <2>3. g = [i \in 0 .. k + 1 |->
               IF i = 0 THEN <<>> ELSE Linked(g[i - 1], blocks, t, i)]
    BY <2>2, Zenon
  <2> HIDE DEF g
  <2>4. QED
    BY <2>3
<1> HIDE DEF S
<1>3. n \in S
  BY <1>1, <1>2, Induct
<1>4. QED
  BY <1>3, Zenon DEF S, IsChained

(* What continues the tip of B is a sequence of blocks. *)
LEMMA ChainedBlocks ==
  ASSUME NEW blocks \in Seq(Block), NEW t
  PROVE  Chained(blocks, t) \in Seq(Block)
<1> DEFINE n == Len(blocks)
           f == CHOOSE f : f = [i \in 0 .. n |->
                  IF i = 0 THEN <<>> ELSE Linked(f[i - 1], blocks, t, i)]
<1>1. n \in Nat
  OBVIOUS
<1>2. Chained(blocks, t) = f[n]
  BY Zenon DEF Chained, Linked
<1> HIDE DEF n
<1>3. \E g : g = [i \in 0 .. n |-> IF i = 0 THEN <<>> ELSE Linked(g[i - 1], blocks, t, i)]
  <2>1. \E g : IsChained(g, blocks, t, n)
    BY <1>1, ChainedExists, Zenon
  <2>2. QED
    BY <2>1, Zenon DEF IsChained
<1>4. f = [i \in 0 .. n |-> IF i = 0 THEN <<>> ELSE Linked(f[i - 1], blocks, t, i)]
  BY <1>3, Zenon
<1> HIDE DEF f
<1> DEFINE S == {i \in Nat : f[i] \in Seq(Block)}
<1>5. 0 \in S
  BY <1>1, <1>4
<1>6. ASSUME NEW i \in Nat, i \in S, i < n
      PROVE  i + 1 \in S
  <2>1. f[i + 1] = Linked(f[i], blocks, t, i + 1)
    BY <1>1, <1>4, <1>6
  <2>2. i + 1 \in 1 .. Len(blocks)
    BY <1>1, <1>6 DEF n
  <2>3. blocks[i + 1] \in Block /\ f[i] \in Seq(Block)
    BY <1>6, <2>2
  <2>4. Linked(f[i], blocks, t, i + 1) \in Seq(Block)
    BY <2>3 DEF Linked
  <2>5. QED
    BY <2>1, <2>4
<1> HIDE DEF S
<1>7. \A i \in 0 .. n : i \in S
  BY <1>1, <1>5, <1>6, Induct, Zenon
<1>8. QED
  BY <1>1, <1>2, <1>7 DEF S

-----------------------------------------------------------------------------
(* What a chain included are operations. *)
LEMMA IncludedOps ==
  ASSUME NEW t \in Block
  PROVE  Included[t] \subseteq Op
<1>1. \A i \in 1 .. Len(Line[t]) : OpsIn[Line[t][i]] \subseteq Op
  BY LinePrefix, GossipAssumption, Zenon
<1>2. QED
  BY <1>1, Zenon DEF Included

(* A node that adopts a chain keeps only what can follow on it. *)
LEMMA AdoptSound ==
  ASSUME SessionTypes, PoolsSound, NEW n \in Node, NEW t \in Block, Adopt(n, t)
  PROVE  /\ tip' \in [Node -> Block] /\ pool' \in [Node -> SUBSET Op]
         /\ tip'[n] = t /\ \A m \in Node \ {n} : tip'[m] = tip[m] /\ pool'[m] = pool[m]
         /\ PoolsSound'
<1>1. tip \in [Node -> Block] /\ pool \in [Node -> SUBSET Op]
  BY Zenon DEF SessionTypes
<1>2. PICK kept \in Reconciled(n, t) :
        tip' = [tip EXCEPT ![n] = t] /\ pool' = [pool EXCEPT ![n] = kept]
  BY Zenon DEF Adopt
<1>3. /\ kept \subseteq pool[n] \cup Included[tip[n]]
      /\ \A o \in kept : Follows(t, kept \ {o}, o)
  BY <1>2, Zenon DEF Reconciled
<1>4. kept \subseteq Op
  BY <1>1, <1>3, IncludedOps, Zenon
<1>5. Sound(t, kept)
  BY <1>3, Zenon DEF Sound, Follows
<1>6. /\ tip' \in [Node -> Block] /\ pool' \in [Node -> SUBSET Op]
      /\ tip'[n] = t /\ pool'[n] = kept
      /\ \A m \in Node \ {n} : tip'[m] = tip[m] /\ pool'[m] = pool[m]
  BY <1>1, <1>2, <1>4, Zenon
<1>7. \A m \in Node : Sound(tip'[m], pool'[m])
  BY <1>5, <1>6, Zenon DEF PoolsSound
<1>8. PoolsSound'
  BY <1>7, Zenon DEF PoolsSound
<1>9. QED
  BY <1>6, <1>8, Zenon

(* Nodes that do not change keep their pools sound. *)
LEMMA SameSound ==
  ASSUME SessionTypes, PoolsSound, Same
  PROVE  /\ tip' \in [Node -> Block] /\ pool' \in [Node -> SUBSET Op] /\ PoolsSound'
BY Zenon DEF Same, SessionTypes, PoolsSound

(* A node that takes an operation its chain and pool admit. *)
LEMMA TakenSound ==
  ASSUME SessionTypes, PoolsSound, NEW n \in Node, NEW o \in Op, o \in pool[n] \/ Applies(n, o),
         pool' = [pool EXCEPT ![n] = @ \cup {o}], UNCHANGED tip
  PROVE  /\ tip' \in [Node -> Block] /\ pool' \in [Node -> SUBSET Op]
         /\ pool'[n] = pool[n] \cup {o} /\ \A m \in Node \ {n} : pool'[m] = pool[m]
         /\ PoolsSound'
<1>1. /\ tip' \in [Node -> Block] /\ pool' \in [Node -> SUBSET Op]
      /\ pool'[n] = pool[n] \cup {o} /\ \A m \in Node \ {n} : pool'[m] = pool[m]
  BY Zenon DEF SessionTypes
<1>2. Sound(tip[n], pool[n])
  BY Zenon DEF PoolsSound
<1>3. CoinOf[o] \notin Spent(tip[n]) /\ Needs[o] \subseteq Included[tip[n]] \cup pool[n]
  BY <1>2, Zenon DEF Sound, Applies, Follows
<1>4. Sound(tip[n], pool[n] \cup {o})
  BY <1>2, <1>3, Zenon DEF Sound
<1>5. \A m \in Node : Sound(tip[m], pool'[m])
  BY <1>1, <1>4, Zenon DEF PoolsSound
<1>6. PoolsSound'
  BY <1>5, Zenon DEF PoolsSound
<1>7. QED
  BY <1>1, <1>6, Zenon

(* The first calls of a sound pool, without those the other has, can be sent *)
(* to a node on the same chain.                                              *)
LEMMA TakenSendable ==
  ASSUME NEW t, NEW from, NEW to, NEW known, Sound(t, from), known \subseteq to,
         NEW items \in Take((from \ Deploys) \ known)
  PROVE  Sendable(t, from, to, items)
<1>1. /\ items \subseteq (from \ Deploys) \ known
      /\ \A o \in items : Needs[o] \cap ((from \ Deploys) \ known) \subseteq items
  BY Zenon DEF Take
<1>2. ASSUME NEW o \in items, NEW p \in Needs[o]
      PROVE  p \in Included[t] \cup to \cup items \cup (from \cap Deploys)
  <2>1. p \in Included[t] \cup from
    BY <1>1, Zenon DEF Sound
  <2>2. p \in (from \ Deploys) \ known => p \in items
    BY <1>1, Zenon
  <2>3. QED
    BY <2>1, <2>2, Zenon
<1>3. QED
  BY <1>1, <1>2, Zenon DEF Sendable

(* When one of them has arrived the others still can. *)
LEMMA SentSendable ==
  ASSUME NEW t, NEW from, NEW to, NEW items, NEW o, Sendable(t, from, to, items)
  PROVE  Sendable(t, from, to \cup {o}, items \ {o})
BY Zenon DEF Sendable

(* A call that comes first and is rejected on the same chain conflicts with  *)
(* the other pool, or its deployment is missing there.                       *)
LEMMA RejectedCause ==
  ASSUME NEW from \in Node, NEW to \in Node, NEW o, First(o), tip[from] = tip[to], PoolsSound,
         Sendable(tip[to], pool[from], pool[to], s.todo),
         o \notin pool[to], ~ Applies(to, o)
  PROVE  (\E p \in pool[to] : o # p /\ CoinOf[o] = CoinOf[p]) \/ Undelivered
<1>1. o \in s.todo /\ Needs[o] \cap s.todo = {}
  BY Zenon DEF First
<1>2. /\ o \in pool[from] \ Deploys
      /\ Needs[o] \subseteq Included[tip[to]] \cup pool[to] \cup (pool[from] \cap Deploys)
  BY <1>1, Zenon DEF Sendable
<1>3. CoinOf[o] \notin Spent(tip[to])
  BY <1>2, Zenon DEF PoolsSound, Sound
<1>4. CASE CoinOf[o] \in {CoinOf[p] : p \in pool[to]}
  BY <1>4, Zenon
<1>5. CASE ~ (Needs[o] \subseteq Included[tip[to]] \cup pool[to])
  <2>1. PICK p \in Needs[o] : p \notin pool[to] /\ p \in pool[from] \cap Deploys
    BY <1>2, <1>5, Zenon
  <2>2. QED
    BY <1>2, <2>1, Zenon DEF Undelivered, Calls
<1>6. QED
  BY <1>3, <1>4, <1>5, Zenon DEF Applies, Follows

-----------------------------------------------------------------------------
(* The session ends. *)
LEMMA NoSessionTyped == NoSession \in Sessions
<1>1. Genesis \in Block
  BY GenesisHeight, Zenon
<1>2. 0 \in Nat /\ <<>> \in Seq(Block)
  OBVIOUS
<1>3. {} \in SUBSET Op /\ "loop" \in {"loop", "mempool", "decide", "wait"} /\ TRUE \in BOOLEAN
  BY Zenon
<1>4. QED
  BY <1>1, <1>2, <1>3, ZenonT(40) DEF NoSession, Sessions

(* The end of a session keeps the invariant. *)
LEMMA QuitKeeps ==
  ASSUME SessionInv, Quit, FailsOnlyByRace',
         tip' \in [Node -> Block] /\ pool' \in [Node -> SUBSET Op] /\ PoolsSound'
  PROVE  SessionInv'
<1>1. SessionTypes'
  BY NoSessionTyped, Zenon DEF SessionInv, SessionTypes, Quit
<1>2. PhaseInv' /\ QuietInv'
  BY Zenon DEF Quit, PhaseInv, QuietInv, Quiet
<1>3. QED
  BY <1>1, <1>2, Zenon DEF SessionInv

(* So does a failure, if it is one of those that FailsOnlyByRace allows. *)
LEMMA FailKeeps ==
  ASSUME SessionInv, NEW reason, Fail(reason),
         reason \in {"not canonical", "missing transaction", "ancestor"} => disturbed,
         reason = "rejected" => disturbed \/ Conflict \/ Undelivered
  PROVE  SessionInv'
<1>1. Quit /\ Same /\ why' = reason /\ UNCHANGED disturbed
  BY Zenon DEF Fail, Quit
<1>2. /\ tip' \in [Node -> Block] /\ pool' \in [Node -> SUBSET Op] /\ PoolsSound'
  BY <1>1, SameSound, Zenon DEF SessionInv
<1>3. FailsOnlyByRace'
  BY <1>1, Zenon DEF FailsOnlyByRace, Same, Conflict, Undelivered, Calls
<1>4. QED
  BY <1>1, <1>2, <1>3, QuitKeeps, Zenon

(* A node changes for other reasons. *)
LEMMA MoveKeeps ==
  ASSUME SessionInv, Move, early' \in Seq(Block), dirty' \in BOOLEAN,
         tip' \in [Node -> Block] /\ pool' \in [Node -> SUBSET Op] /\ PoolsSound'
  PROVE  SessionInv'
<1>1. disturbed' /\ UNCHANGED <<floor, a, b, s, why>>
  BY Zenon DEF Move
<1>2. SessionTypes' /\ PhaseInv' /\ QuietInv' /\ FailsOnlyByRace'
  BY <1>1, Zenon DEF SessionInv, SessionTypes, PhaseInv, Allows, QuietInv, FailsOnlyByRace
<1>3. QED
  BY <1>2, Zenon DEF SessionInv

(* The session goes on. *)
LEMMA GoesOn ==
  ASSUME SessionInv, a # "closed", UNCHANGED <<why, disturbed, early>>, dirty' \in BOOLEAN,
         s' \in Sessions,
         tip' \in [Node -> Block] /\ pool' \in [Node -> SUBSET Op] /\ PoolsSound',
         a' = "push" => s'.after \in {"mempool", "decide"},
         a' = "submit" => s'.after \in {"loop", "wait"},
         a' \in {"offer", "serve"} => b' = "reverse" \/ ~ Allows("B", s.sent)',
         disturbed \/ Quiet'
  PROVE  SessionInv'
<1>1. why = "none" /\ why' = "none" /\ disturbed' = disturbed
  BY Zenon DEF SessionInv, PhaseInv
<1>2. SessionTypes' /\ PhaseInv'
  BY <1>1, Zenon DEF SessionInv, SessionTypes, PhaseInv
<1>3. QuietInv' /\ FailsOnlyByRace'
  BY <1>1 DEF QuietInv, FailsOnlyByRace
<1>4. QED
  BY <1>2, <1>3, Zenon DEF SessionInv

-----------------------------------------------------------------------------
(* The parts of the state a step of the session can use. *)
LEMMA Typed ==
  ASSUME SessionInv
  PROVE  /\ tip["A"] \in Block /\ tip["B"] \in Block
         /\ pool["A"] \subseteq Op /\ pool["B"] \subseteq Op
         /\ early \in Seq(Block) /\ dirty \in BOOLEAN /\ s \in Sessions
         /\ s.remote \in Block /\ s.sent \in Block /\ s.mine \in Block
<1>1. tip \in [Node -> Block] /\ pool \in [Node -> SUBSET Op] /\ "A" \in Node /\ "B" \in Node
  BY Zenon DEF SessionInv, SessionTypes, Node
<1>2. QED
  BY <1>1, Zenon DEF SessionInv, SessionTypes, Sessions

(* A new connection starts sound. *)
LEMMA ConnectKeeps ==
  ASSUME SessionInv, Connect
  PROVE  SessionInv'
<1>1. /\ Same /\ UNCHANGED <<floor, early, dirty>> /\ disturbed' = FALSE
      /\ \/ /\ a' = "sync" /\ s' = [NoSession EXCEPT !.remote = tip["B"]] /\ why' = "none"
         \/ a' = "closed" /\ s' = s /\ why' = "below minimum"
  BY Zenon DEF Connect
<1>2. tip' \in [Node -> Block] /\ pool' \in [Node -> SUBSET Op] /\ PoolsSound'
  BY <1>1, SameSound, Zenon DEF SessionInv
<1>3. s' \in Sessions
  BY <1>1, Typed, NoSessionTyped, Zenon DEF Sessions
<1>4. SessionTypes'
  BY <1>1, <1>2, <1>3, Zenon DEF SessionInv, SessionTypes
<1>5. PhaseInv' /\ FailsOnlyByRace'
  BY <1>1, Zenon DEF PhaseInv, FailsOnlyByRace
<1>6. QuietInv'
  <2>1. a' = "sync" => s'.remote = tip'["B"]
    BY <1>1, Zenon DEF Same, NoSession
  <2>2. QED
    BY <1>1, <2>1, Zenon DEF QuietInv, Quiet
<1>7. QED
  BY <1>2, <1>4, <1>5, <1>6, Zenon DEF SessionInv

(* What the steps of A that change no chain and no pool have in common. *)
LEMMA StepInPlace ==
  ASSUME SessionInv, a # "closed", Same, Rest, dirty' \in BOOLEAN, s' \in Sessions,
         a' = "push" => s'.after \in {"mempool", "decide"},
         a' = "submit" => s'.after \in {"loop", "wait"},
         a' \in {"offer", "serve"} => b' = "reverse" \/ ~ Allows("B", s'.sent),
         disturbed \/ Quiet'
  PROVE  SessionInv'
<1>1. UNCHANGED <<floor, early, why, disturbed, tip, pool>>
  BY Zenon DEF Rest, Same
<1>2. tip' \in [Node -> Block] /\ pool' \in [Node -> SUBSET Op] /\ PoolsSound'
  BY SameSound, Zenon DEF SessionInv
<1>3. Allows("B", s.sent)' <=> Allows("B", s'.sent)
  BY <1>1, Zenon DEF Allows
<1>4. QED
  BY <1>1, <1>2, <1>3, GoesOn, Zenon

(* The first synchronization keeps the session sound. *)
LEMMA SynchronizeKeeps ==
  ASSUME SessionInv, Synchronize
  PROVE  SessionInv'
<1>1. a = "sync" /\ s.remote \in Block /\ s \in Sessions /\ dirty \in BOOLEAN
  BY Typed, Zenon DEF Synchronize
<1>2. disturbed \/ s.remote = tip["B"]
  BY <1>1, Zenon DEF SessionInv, QuietInv, Quiet
<1>3. CASE Go("greet") /\ Same /\ UNCHANGED <<s, dirty>> /\ Rest
  <2>1. disturbed \/ Quiet'
    BY <1>1, <1>2, <1>3, Zenon DEF Go, Same, Quiet
  <2>2. QED
    BY <1>1, <1>3, <2>1, StepInPlace, Zenon DEF Go
<1>4. CASE Adopt("A", s.remote) /\ Go("greet") /\ dirty' = TRUE /\ UNCHANGED s /\ Rest
  <2>1. /\ tip' \in [Node -> Block] /\ pool' \in [Node -> SUBSET Op] /\ PoolsSound'
        /\ tip'["B"] = tip["B"]
    BY <1>1, <1>4, AdoptSound, Zenon DEF SessionInv, Node
  <2>2. disturbed \/ Quiet'
    BY <1>1, <1>2, <1>4, <2>1, Zenon DEF Go, Quiet
  <2>3. QED
    BY <1>1, <1>4, <2>1, <2>2, GoesOn, ZenonT(40) DEF Go, Rest
<1>5. CASE ~ OnLine(s.remote, tip["B"]) /\ Fail("not canonical")
  BY <1>1, <1>2, <1>5, OnOwnLine, FailKeeps, Zenon
<1>6. CASE Fail("pool too large")
  BY <1>6, FailKeeps, Zenon
<1>7. QED
  BY <1>3, <1>4, <1>5, <1>6, Zenon DEF Synchronize

(* The exchange of tips and inventories keeps the session sound. *)
LEMMA GreetKeeps ==
  ASSUME SessionInv, Greet
  PROVE  SessionInv'
<1>1. a = "greet" /\ s \in Sessions /\ dirty \in BOOLEAN /\ tip["A"] \in Block
      /\ Same /\ UNCHANGED dirty /\ Rest
  BY Typed, Zenon DEF Greet
<1>2. disturbed \/ s.remote = tip["B"]
  BY <1>1, Zenon DEF SessionInv, QuietInv, Quiet
<1>3. CASE tip["A"] = s.remote /\ Go("mempool") /\ UNCHANGED s
  <2>1. disturbed \/ Quiet'
    BY <1>1, <1>2, <1>3, Zenon DEF Go, Same, Quiet
  <2>2. QED
    BY <1>1, <1>3, <2>1, StepInPlace, Zenon DEF Go
<1>4. CASE Go("push") /\ s' = [s EXCEPT !.batch = <<tip["A"]>>, !.after = "mempool"]
  <2>1. s' \in Sessions /\ s'.after = "mempool" /\ s'.batch = <<tip["A"]>>
    <3> DEFINE one == <<tip["A"]>>
    <3>1. one \in Seq(Block) /\ s' = [s EXCEPT !.batch = one, !.after = "mempool"]
      BY <1>1, <1>4
    <3> HIDE DEF one
    <3>2. s' \in Sessions /\ s'.after = "mempool" /\ s'.batch = one
      BY <1>1, <3>1, Zenon DEF Sessions
    <3>3. QED
      BY <3>2, Zenon DEF one
  <2>2. Quiet'
    BY <1>1, <1>4, <2>1, Zenon DEF Go, Same, Quiet
  <2>3. QED
    BY <1>1, <1>4, <2>1, <2>2, StepInPlace, ZenonT(40) DEF Go
<1>5. CASE Go("loop") /\ UNCHANGED s
  <2>1. Quiet'
    BY <1>1, <1>5, Zenon DEF Go, Quiet
  <2>2. QED
    BY <1>1, <1>5, <2>1, StepInPlace, Zenon DEF Go
<1>6. QED
  BY <1>3, <1>4, <1>5, Zenon DEF Greet

(* The choice of operations to relay keeps the session sound. *)
LEMMA RelayMempoolKeeps ==
  ASSUME SessionInv, RelayMempool
  PROVE  SessionInv'
<1>1. a = "mempool" /\ s \in Sessions /\ dirty \in BOOLEAN /\ pool["A"] \subseteq Op
      /\ Same /\ UNCHANGED dirty /\ Rest /\ a' = "submit"
  BY Typed, Zenon DEF RelayMempool, Go
<1>2. PICK items \in Take(Calls("A")) : s' = [s EXCEPT !.todo = items, !.after = "loop"]
  BY Zenon DEF RelayMempool
<1>3. s' \in Sessions /\ s'.todo = items /\ s'.after = "loop"
  <2>1. items \in SUBSET Op
    BY <1>1, <1>2, Zenon DEF Take, Calls
  <2>2. QED
    BY <1>1, <1>2, <2>1, Zenon DEF Sessions
<1>4. disturbed \/ tip["A"] = tip["B"]
  BY <1>1, Zenon DEF SessionInv, QuietInv, Quiet
<1>5. Sendable(tip["A"], pool["A"], pool["B"], items)
  <2>1. Calls("A") = (pool["A"] \ Deploys) \ {} /\ {} \subseteq pool["B"]
    BY Zenon DEF Calls
  <2>2. Sound(tip["A"], pool["A"])
    BY Zenon DEF SessionInv, PoolsSound, Node
  <2>3. QED
    BY <1>2, <2>1, <2>2, TakenSendable, Zenon
<1>6. disturbed \/ Quiet'
  BY <1>1, <1>3, <1>4, <1>5, Zenon DEF Quiet, Same
<1>7. QED
  BY <1>1, <1>3, <1>6, StepInPlace, Zenon

(* One block is pushed, or refused. *)
LEMMA PushKeeps ==
  ASSUME SessionInv, Push
  PROVE  SessionInv'
<1> DEFINE block == Head(s.batch)
<1>1. /\ a = "push" /\ s.batch # <<>> /\ s \in Sessions /\ dirty \in BOOLEAN
      /\ s.batch \in Seq(Block) /\ s.blocks \in Nat /\ s.after \in {"mempool", "decide"}
  BY Typed, Zenon DEF Push, SessionInv, PhaseInv, Sessions
<1>2. \/ disturbed \/ s.after # "mempool" \/ s.batch = <<tip["A"]>>
  BY <1>1, Zenon DEF SessionInv, QuietInv, Quiet
<1>3. CASE /\ Refusal(block) = "none"
           /\ s' = [s EXCEPT !.batch = Tail(@), !.blocks = @ + 1]
           /\ IF tip["B"] = block THEN Same ELSE Adopt("B", block)
           /\ UNCHANGED <<a, b, dirty>> /\ Rest
  <2>1. block \in Block /\ Tail(s.batch) \in Seq(Block) /\ s.blocks + 1 \in Nat
    BY <1>1
  <2>2. s' \in Sessions /\ s'.after = s.after /\ s'.batch = Tail(s.batch)
    <3> DEFINE rest == Tail(s.batch)
               n == s.blocks + 1
    <3>1. rest \in Seq(Block) /\ n \in Nat /\ s' = [s EXCEPT !.batch = rest, !.blocks = n]
      BY <1>3, <2>1, Zenon
    <3> HIDE DEF rest, n
    <3>2. s' \in Sessions /\ s'.after = s.after /\ s'.batch = rest
      BY <1>1, <3>1, Zenon DEF Sessions
    <3>3. QED
      BY <3>2, Zenon DEF rest
  <2> HIDE DEF block
  <2>3. /\ tip' \in [Node -> Block] /\ pool' \in [Node -> SUBSET Op] /\ PoolsSound'
        /\ tip'["A"] = tip["A"] /\ tip'["B"] = block
    <3>1. CASE tip["B"] = block
      BY <1>3, <3>1, SameSound, Zenon DEF SessionInv, Same
    <3>2. CASE tip["B"] # block
      BY <1>3, <2>1, <3>2, AdoptSound, Zenon DEF SessionInv, Node
    <3>3. QED
      BY <3>1, <3>2, Zenon
  <2>4. disturbed \/ Quiet'
    <3>1. s.batch = <<tip["A"]>> => block = tip["A"] /\ Tail(s.batch) = <<>>
      BY DEF block
    <3>2. QED
      BY <1>1, <1>2, <1>3, <2>2, <2>3, <3>1, ZenonT(40) DEF Quiet
  <2>5. QED
    BY <1>1, <1>3, <2>2, <2>3, <2>4, GoesOn, ZenonT(40) DEF Rest
<1>4. CASE Fail(Refusal(block))
  <2>1. Refusal(block) \notin {"not canonical", "missing transaction", "ancestor", "rejected"}
    BY Zenon DEF Refusal
  <2>2. QED
    BY <1>4, <2>1, FailKeeps, Zenon
<1>5. QED
  BY <1>3, <1>4, Zenon DEF Push

(* A pushed block keeps the session sound. *)
LEMMA PushedKeeps ==
  ASSUME SessionInv, Pushed
  PROVE  SessionInv'
<1>1. /\ a = "push" /\ s.batch = <<>> /\ s \in Sessions /\ dirty \in BOOLEAN
      /\ a' = s.after /\ s.after \in {"mempool", "decide"}
      /\ Same /\ UNCHANGED <<s, dirty>> /\ Rest
  BY Typed, Zenon DEF Pushed, SessionInv, PhaseInv, Go
<1>2. disturbed \/ s.after # "mempool" \/ tip["A"] = tip["B"]
  BY <1>1 DEF SessionInv, QuietInv, Quiet
<1>3. disturbed \/ Quiet'
  BY <1>1, <1>2, Zenon DEF Quiet, Same
<1>4. QED
  BY <1>1, <1>3, StepInPlace, Zenon

(* B takes an operation, or refuses it. *)
LEMMA SubmitKeeps ==
  ASSUME SessionInv, NEW o \in Op, Submit(o)
  PROVE  SessionInv'
<1>1. /\ a = "submit" /\ First(o) /\ s \in Sessions /\ dirty \in BOOLEAN
      /\ s.todo \subseteq Op /\ s.txs \in Nat /\ s.after \in {"loop", "wait"}
  BY Typed, Zenon DEF Submit, SessionInv, PhaseInv, Sessions
<1>2. \/ disturbed
      \/ tip["A"] = tip["B"] /\ Sendable(tip["B"], pool["A"], pool["B"], s.todo)
  BY <1>1, Zenon DEF SessionInv, QuietInv, Quiet
<1>3. CASE Fail("transaction limit")
  BY <1>3, FailKeeps, Zenon
<1>4. CASE o \notin pool["B"] /\ ~ Applies("B", o) /\ Fail("rejected")
  <2>1. disturbed \/ Conflict \/ Undelivered
    <3> SUFFICES ASSUME ~ disturbed PROVE Conflict \/ Undelivered
      BY Zenon
    <3>1. o \in pool["A"]
      BY <1>1, <1>2, Zenon DEF First, Sendable
    <3>2. (\E p \in pool["B"] : o # p /\ CoinOf[o] = CoinOf[p]) \/ Undelivered
      BY <1>1, <1>2, <1>4, RejectedCause, Zenon DEF SessionInv, Node
    <3>3. QED
      BY <3>1, <3>2, Zenon DEF Conflict
  <2>2. QED
    BY <1>4, <2>1, FailKeeps, Zenon
<1>5. CASE /\ ~ (o \notin pool["B"] /\ ~ Applies("B", o))
           /\ pool' = [pool EXCEPT !["B"] = @ \cup {o}]
           /\ s' = [s EXCEPT !.todo = @ \ {o}, !.txs = @ + 1]
           /\ UNCHANGED <<tip, a, b, dirty>> /\ Rest
  <2>1. /\ tip' \in [Node -> Block] /\ pool' \in [Node -> SUBSET Op] /\ PoolsSound'
        /\ pool'["A"] = pool["A"] /\ pool'["B"] = pool["B"] \cup {o}
    BY <1>5, TakenSound, Zenon DEF SessionInv, Node
  <2>2. s' \in Sessions /\ s'.after = s.after /\ s'.todo = s.todo \ {o}
    <3> DEFINE rest == s.todo \ {o}
               n == s.txs + 1
    <3>1. rest \in SUBSET Op /\ n \in Nat /\ s' = [s EXCEPT !.todo = rest, !.txs = n]
      BY <1>1, <1>5
    <3> HIDE DEF rest, n
    <3>2. s' \in Sessions /\ s'.after = s.after /\ s'.todo = rest
      BY <1>1, <3>1, Zenon DEF Sessions
    <3>3. QED
      BY <3>2, Zenon DEF rest
  <2>3. disturbed \/ Quiet'
    <3>1. \/ disturbed
          \/ Sendable(tip["B"], pool["A"], pool["B"] \cup {o}, s.todo \ {o})
      BY <1>2, SentSendable, Zenon
    <3>2. QED
      BY <1>1, <1>2, <1>5, <2>1, <2>2, <3>1, Zenon DEF Quiet
  <2>4. QED
    BY <1>1, <1>5, <2>1, <2>2, <2>3, GoesOn, ZenonT(40) DEF Rest
<1>6. CASE Fail("pool full")
  BY <1>6, FailKeeps, Zenon
<1>7. QED
  BY <1>3, <1>4, <1>5, <1>6, Zenon DEF Submit

(* A submitted operation keeps the session sound. *)
LEMMA SubmittedKeeps ==
  ASSUME SessionInv, Submitted
  PROVE  SessionInv'
<1>1. /\ a = "submit" /\ s \in Sessions /\ dirty \in BOOLEAN
      /\ a' = s.after /\ s.after \in {"loop", "wait"}
      /\ Same /\ UNCHANGED <<s, dirty>> /\ Rest
  BY Typed, Zenon DEF Submitted, SessionInv, PhaseInv, Go
<1>2. Quiet'
  BY <1>1, Zenon DEF Quiet
<1>3. QED
  BY <1>1, <1>2, StepInPlace, Zenon

-----------------------------------------------------------------------------
(* A round up to the inventories. *)
LEMMA ReadTipKeeps ==
  ASSUME SessionInv, ReadTip
  PROVE  SessionInv'
<1>1. /\ a = "loop" /\ a' = "tip" /\ s' = [s EXCEPT !.sent = tip["A"]]
      /\ s \in Sessions /\ tip["A"] \in Block /\ dirty' \in BOOLEAN /\ Same /\ Rest
  BY Typed, Zenon DEF ReadTip, Go
<1>2. s' \in Sessions /\ Quiet'
  BY <1>1, Zenon DEF Sessions, Quiet
<1>3. QED
  BY <1>1, <1>2, StepInPlace, Zenon

(* A round of the loop keeps the session sound. *)
LEMMA ExchangeTipsKeeps ==
  ASSUME SessionInv, ExchangeTips
  PROVE  SessionInv'
<1> DEFINE batch == Chained(early, tip["B"])
<1>1. /\ a = "tip" /\ a' = "push"
      /\ s' = [s EXCEPT !.remote = tip["B"], !.batch = batch, !.after = "decide"]
      /\ s \in Sessions /\ tip["B"] \in Block /\ dirty' \in BOOLEAN /\ Same /\ Rest
  BY Typed, Zenon DEF ExchangeTips, Go
<1>2. batch \in Seq(Block)
  BY Typed, ChainedBlocks, Zenon
<1> HIDE DEF batch
<1>3. s' \in Sessions /\ s'.after = "decide"
  BY <1>1, <1>2, Zenon DEF Sessions
<1>4. Quiet'
  BY <1>1, <1>3, Zenon DEF Quiet
<1>5. QED
  BY <1>1, <1>3, <1>4, StepInPlace, Zenon

(* A round without an inventory keeps the session sound. *)
LEMMA SkipKeeps ==
  ASSUME SessionInv, Skip
  PROVE  SessionInv'
<1>1. /\ a = "decide" /\ a' = "loop" /\ s' = [s EXCEPT !.force = dirty]
      /\ s \in Sessions /\ dirty \in BOOLEAN /\ dirty' \in BOOLEAN /\ Same /\ Rest
  BY Typed, Zenon DEF Skip, Go
<1>2. s' \in Sessions /\ Quiet'
  BY <1>1, Zenon DEF Sessions, Quiet
<1>3. QED
  BY <1>1, <1>2, StepInPlace, Zenon

(* An inventory and its answer keeps the session sound. *)
LEMMA SendInventoryKeeps ==
  ASSUME SessionInv, SendInventory
  PROVE  SessionInv'
<1> DEFINE seen == <<s.sent, s.remote>>
<1>1. /\ a = "decide" /\ a' = "inventory"
      /\ s' = [s EXCEPT !.seen = seen, !.force = FALSE, !.sent = tip["A"]]
      /\ s \in Sessions /\ tip["A"] \in Block /\ dirty' \in BOOLEAN /\ Same /\ Rest
  BY Typed, Zenon DEF SendInventory, Go
<1>2. seen \in Seq(Block)
  BY Typed
<1> HIDE DEF seen
<1>3. s' \in Sessions /\ s'.sent = tip["A"]
  BY <1>1, <1>2, Zenon DEF Sessions
<1>4. Quiet'
  BY <1>1, <1>3, Zenon DEF Quiet, Same
<1>5. QED
  BY <1>1, <1>3, <1>4, StepInPlace, Zenon

(* Both sides decide from the same two inventories: when A offers its chain, *)
(* B asks for it or does not allow it.                                       *)
LEMMA ExchangeInventoriesKeeps ==
  ASSUME SessionInv, ExchangeInventories
  PROVE  SessionInv'
<1>1. /\ a = "inventory" /\ b' = (IF Reverses(s.sent) THEN "reverse" ELSE "serving")
      /\ s' = AfterInventory(s, tip["B"])
      /\ s \in Sessions /\ tip["B"] \in Block /\ pool["B"] \subseteq Op
      /\ dirty' \in BOOLEAN /\ Same /\ Rest
  BY Typed, Zenon DEF ExchangeInventories
<1>2. /\ s' \in Sessions /\ s'.remote = tip["B"] /\ s'.theirs = pool["B"] \ Deploys /\ s'.sent = s.sent
  BY <1>1, Zenon DEF Sessions, AfterInventory, Calls
<1>3. \/ tip["B"] = s.sent /\ a' = "exchange"
      \/ a' = "shallow" \/ a' = "loop"
      \/ Better(s.sent, tip["B"]) /\ a' = "offer"
  BY Zenon DEF ExchangeInventories
<1>4. disturbed \/ s.sent = tip["A"]
  BY <1>1, Zenon DEF SessionInv, QuietInv, Quiet
<1>5. disturbed \/ Quiet'
  BY <1>1, <1>2, <1>3, <1>4, Zenon DEF Quiet, Same
<1>6. a' \in {"offer", "serve"} => b' = "reverse" \/ ~ Allows("B", s'.sent)
  BY <1>1, <1>2, <1>3, Zenon DEF Reverses
<1>7. QED
  BY <1>1, <1>2, <1>3, <1>5, <1>6, StepInPlace, ZenonT(40)

-----------------------------------------------------------------------------
(* B's chain is the better one. *)
LEMMA ShallowKeeps ==
  ASSUME SessionInv, Shallow
  PROVE  SessionInv'
<1>1. /\ a = "shallow" /\ a' \in {"loop", "compact", "descend"}
      /\ s' = [s EXCEPT !.mine = tip["A"]]
      /\ s \in Sessions /\ tip["A"] \in Block /\ dirty' \in BOOLEAN /\ Same /\ Rest
  BY Typed, Zenon DEF Shallow, Go
<1>2. s' \in Sessions /\ s'.mine = tip["A"] /\ s'.remote = s.remote
  BY <1>1, Zenon DEF Sessions
<1>3. disturbed \/ s.remote = tip["B"]
  BY <1>1, Zenon DEF SessionInv, QuietInv, Quiet
<1>4. disturbed \/ Quiet'
  BY <1>1, <1>2, <1>3, Zenon DEF Quiet, Same
<1>5. QED
  BY <1>1, <1>2, <1>4, StepInPlace, Zenon

(* A adopts B's tip and goes on with the next round. *)
LEMMA AdoptsRemote ==
  ASSUME SessionInv, a # "closed", Go("loop"), dirty' = FALSE, Adopt("A", s.remote), UNCHANGED s, Rest
  PROVE  SessionInv'
<1>1. tip' \in [Node -> Block] /\ pool' \in [Node -> SUBSET Op] /\ PoolsSound'
  BY Typed, AdoptSound, Zenon DEF SessionInv, Node
<1>2. Quiet'
  BY Zenon DEF Go, Quiet
<1>3. QED
  BY <1>1, <1>2, Typed, GoesOn, Zenon DEF Go, Rest

(* A pulled block keeps the session sound. *)
LEMMA PullCompactKeeps ==
  ASSUME SessionInv, PullCompact
  PROVE  SessionInv'
<1>1. a = "compact" /\ s \in Sessions /\ s.remote \in Block /\ dirty \in BOOLEAN
  BY Typed, Zenon DEF PullCompact
<1>2. disturbed \/ (s.remote = tip["B"] /\ s.mine = tip["A"])
  BY <1>1, Zenon DEF SessionInv, QuietInv, Quiet
<1>3. CASE ~ OnLine(s.remote, tip["B"]) /\ Fail("not canonical")
  BY <1>1, <1>2, <1>3, OnOwnLine, FailKeeps, Zenon
<1>4. CASE Go("loop") /\ dirty' = FALSE /\ Same /\ UNCHANGED s /\ Rest
  <2>1. Quiet'
    BY <1>4, Zenon DEF Go, Quiet
  <2>2. QED
    BY <1>1, <1>4, <2>1, StepInPlace, Zenon DEF Go
<1>5. CASE Go("loop") /\ dirty' = FALSE /\ Adopt("A", s.remote) /\ UNCHANGED s /\ Rest
  BY <1>1, <1>5, AdoptsRemote, Zenon
<1>6. CASE Go("descend") /\ Same /\ UNCHANGED <<s, dirty>> /\ Rest
  <2>1. disturbed \/ Quiet'
    BY <1>2, <1>6, Zenon DEF Go, Quiet, Same
  <2>2. QED
    BY <1>1, <1>6, <2>1, StepInPlace, Zenon DEF Go
<1>7. QED
  BY <1>3, <1>4, <1>5, <1>6, Zenon DEF PullCompact

(* The search for a common ancestor keeps the session sound. *)
LEMMA DescendKeeps ==
  ASSUME SessionInv, Descend
  PROVE  SessionInv'
<1>1. a = "descend" /\ s \in Sessions /\ s.remote \in Block /\ dirty \in BOOLEAN
  BY Typed, Zenon DEF Descend
<1>2. disturbed \/ (s.remote = tip["B"] /\ s.mine = tip["A"])
  BY <1>1, Zenon DEF SessionInv, QuietInv, Quiet
<1>3. CASE ~ OnLine(s.remote, tip["B"]) /\ Fail("not canonical")
  BY <1>1, <1>2, <1>3, OnOwnLine, FailKeeps, Zenon
<1>4. CASE Fail("resync")
  BY <1>4, FailKeeps, Zenon
<1>5. CASE Go("apply") /\ Same /\ UNCHANGED <<s, dirty>> /\ Rest
  <2>1. disturbed \/ Quiet'
    BY <1>2, <1>5, Zenon DEF Go, Quiet, Same
  <2>2. QED
    BY <1>1, <1>5, <2>1, StepInPlace, Zenon DEF Go
<1>6. QED
  BY <1>3, <1>4, <1>5, Zenon DEF Descend

(* The ancestor found is on A's chain unless that chain has changed. *)
LEMMA ApplyKeeps ==
  ASSUME SessionInv, Apply
  PROVE  SessionInv'
<1>1. a = "apply" /\ s \in Sessions /\ s.remote \in Block /\ s.mine \in Block /\ dirty \in BOOLEAN
  BY Typed, Zenon DEF Apply
<1>2. disturbed \/ s.mine = tip["A"]
  BY <1>1, Zenon DEF SessionInv, QuietInv, Quiet
<1>3. CASE ~ OnLine(Common(s.remote, s.mine), tip["A"]) /\ Fail("ancestor")
  BY <1>1, <1>2, <1>3, CommonOnBoth, FailKeeps, ZenonT(40)
<1>4. CASE Go("loop") /\ dirty' = FALSE /\ Same /\ UNCHANGED s /\ Rest
  <2>1. Quiet'
    BY <1>4, Zenon DEF Go, Quiet
  <2>2. QED
    BY <1>1, <1>4, <2>1, StepInPlace, ZenonT(40) DEF Go
<1>5. CASE Go("loop") /\ dirty' = FALSE /\ Adopt("A", s.remote) /\ UNCHANGED s /\ Rest
  BY <1>1, <1>5, AdoptsRemote, Zenon
<1>6. CASE Fail("pool too large")
  BY <1>6, FailKeeps, Zenon
<1>7. QED
  BY <1>3, <1>4, <1>5, <1>6, Zenon DEF Apply

-----------------------------------------------------------------------------
(* A's chain is the better one. *)
LEMMA OfferKeeps ==
  ASSUME SessionInv, Offer
  PROVE  SessionInv'
<1>1. a = "offer" /\ s \in Sessions /\ dirty \in BOOLEAN
      /\ (b = "reverse" \/ ~ Allows("B", s.sent))
  BY Typed, Zenon DEF Offer, SessionInv, PhaseInv
<1>2. CASE OnLine(s.sent, tip["A"]) /\ Go("serve") /\ Same /\ UNCHANGED <<s, dirty>> /\ Rest
  <2>1. Quiet'
    BY <1>2, Zenon DEF Go, Quiet, Same
  <2>2. QED
    BY <1>1, <1>2, <2>1, StepInPlace, Zenon DEF Go
<1>3. CASE Fail("resync")
  BY <1>3, FailKeeps, Zenon
<1>4. QED
  BY <1>2, <1>3, Zenon DEF Offer

(* A synchronization in the other direction keeps the session sound. *)
LEMMA ReverseSyncKeeps ==
  ASSUME SessionInv, ReverseSync
  PROVE  SessionInv'
<1>1. a = "serve" /\ s.sent \in Block /\ why = "none"
  BY Typed, Zenon DEF ReverseSync, SessionInv, PhaseInv
<1>2. disturbed \/ OnLine(s.sent, tip["A"])
  BY <1>1, Zenon DEF SessionInv, QuietInv, Quiet
<1>3. CASE Same /\ Quit /\ UNCHANGED why
  <2>1. tip' \in [Node -> Block] /\ pool' \in [Node -> SUBSET Op] /\ PoolsSound'
    BY <1>3, SameSound, Zenon DEF SessionInv
  <2>2. FailsOnlyByRace'
    BY <1>1, <1>3, Zenon DEF FailsOnlyByRace
  <2>3. QED
    BY <1>3, <2>1, <2>2, QuitKeeps, ZenonT(40)
<1>4. CASE Adopt("B", s.sent) /\ Quit /\ UNCHANGED why
  <2>1. tip' \in [Node -> Block] /\ pool' \in [Node -> SUBSET Op] /\ PoolsSound'
    BY <1>1, <1>4, AdoptSound, Zenon DEF SessionInv, Node
  <2>2. FailsOnlyByRace'
    BY <1>1, <1>4, Zenon DEF FailsOnlyByRace
  <2>3. QED
    BY <1>4, <2>1, <2>2, QuitKeeps, Zenon
<1>5. CASE ~ OnLine(s.sent, tip["A"]) /\ Fail("not canonical")
  BY <1>2, <1>5, FailKeeps, Zenon
<1>6. CASE Fail("pool too large")
  BY <1>6, FailKeeps, Zenon
<1>7. QED
  BY <1>3, <1>4, <1>5, <1>6, Zenon DEF ReverseSync

(* A time limit keeps the session sound. *)
LEMMA TimeoutKeeps ==
  ASSUME SessionInv, Timeout
  PROVE  SessionInv'
BY FailKeeps, Zenon DEF Timeout

(* So does a busy gate. *)
LEMMA BusyKeeps ==
  ASSUME SessionInv, Busy
  PROVE  SessionInv'
BY FailKeeps, Zenon DEF Busy

-----------------------------------------------------------------------------
(* The tips are equal: operations are exchanged. *)
LEMMA RequestKeeps ==
  ASSUME SessionInv, Request
  PROVE  SessionInv'
<1>1. /\ a = "exchange" /\ a' = "fetch" /\ s \in Sessions /\ s.theirs \subseteq Op
      /\ dirty' \in BOOLEAN /\ Same /\ Rest
  BY Typed, Zenon DEF Request, Go, Sessions
<1>2. PICK items \in Take(s.theirs \ Calls("A")) : s' = [s EXCEPT !.todo = items]
  BY Zenon DEF Request
<1>3. s' \in Sessions /\ s'.todo = items /\ s'.theirs = s.theirs
  <2>1. items \in SUBSET Op
    BY <1>1, <1>2, Zenon DEF Take
  <2>2. QED
    BY <1>1, <1>2, <2>1, Zenon DEF Sessions
<1>4. disturbed \/ (tip["A"] = tip["B"] /\ s.theirs = pool["B"] \ Deploys)
  BY <1>1, Zenon DEF SessionInv, QuietInv, Quiet
<1>5. disturbed \/ Sendable(tip["A"], pool["B"], pool["A"], items)
  <2> SUFFICES ASSUME ~ disturbed PROVE Sendable(tip["A"], pool["B"], pool["A"], items)
    BY Zenon
  <2>1. items \in Take((pool["B"] \ Deploys) \ Calls("A")) /\ Calls("A") \subseteq pool["A"]
    BY <1>2, <1>4, Zenon DEF Calls
  <2>2. Sound(tip["A"], pool["B"])
    BY <1>4, Zenon DEF SessionInv, PoolsSound, Node
  <2>3. QED
    BY <2>1, <2>2, TakenSendable, Zenon
<1>6. disturbed \/ Quiet'
  BY <1>1, <1>3, <1>4, <1>5, Zenon DEF Quiet, Same
<1>7. QED
  BY <1>1, <1>3, <1>6, StepInPlace, Zenon

(* A request for an operation keeps the session sound. *)
LEMMA FetchKeeps ==
  ASSUME SessionInv, NEW o \in Op, Fetch(o)
  PROVE  SessionInv'
<1>1. /\ a = "fetch" /\ First(o) /\ s \in Sessions /\ dirty \in BOOLEAN
      /\ s.todo \subseteq Op /\ s.reqs \in Nat
  BY Typed, Zenon DEF Fetch, Sessions
<1>2. \/ disturbed
      \/ /\ tip["A"] = tip["B"] /\ s.theirs = pool["B"] \ Deploys
         /\ Sendable(tip["A"], pool["B"], pool["A"], s.todo) /\ o \in pool["B"]
  BY <1>1, Zenon DEF SessionInv, QuietInv, Quiet, Sendable, First
<1>3. CASE Fail("transaction limit")
  BY <1>3, FailKeeps, Zenon
<1>4. CASE o \notin pool["B"] /\ Fail("missing transaction")
  BY <1>1, <1>2, <1>4, FailKeeps, Zenon
<1>5. CASE o \notin pool["A"] /\ ~ Applies("A", o) /\ Fail("rejected")
  <2>1. disturbed \/ Conflict \/ Undelivered
    <3> SUFFICES ASSUME ~ disturbed PROVE Conflict \/ Undelivered
      BY Zenon
    <3>1. (\E p \in pool["A"] : o # p /\ CoinOf[o] = CoinOf[p]) \/ Undelivered
      BY <1>1, <1>2, <1>5, RejectedCause, Zenon DEF SessionInv, Node
    <3>2. QED
      BY <1>2, <3>1, Zenon DEF Conflict
  <2>2. QED
    BY <1>5, <2>1, FailKeeps, Zenon
<1>6. CASE /\ ~ (o \notin pool["A"] /\ ~ Applies("A", o))
           /\ pool' = [pool EXCEPT !["A"] = @ \cup {o}]
           /\ dirty' = (dirty \/ o \notin pool["A"])
           /\ s' = [s EXCEPT !.todo = @ \ {o}, !.reqs = @ + 1]
           /\ UNCHANGED <<tip, a, b>> /\ Rest
  <2>1. /\ tip' \in [Node -> Block] /\ pool' \in [Node -> SUBSET Op] /\ PoolsSound'
        /\ pool'["B"] = pool["B"] /\ pool'["A"] = pool["A"] \cup {o}
    BY <1>6, TakenSound, Zenon DEF SessionInv, Node
  <2>2. s' \in Sessions /\ s'.theirs = s.theirs /\ s'.todo = s.todo \ {o}
    <3> DEFINE rest == s.todo \ {o}
               n == s.reqs + 1
    <3>1. rest \in SUBSET Op /\ n \in Nat /\ s' = [s EXCEPT !.todo = rest, !.reqs = n]
      BY <1>1, <1>6
    <3> HIDE DEF rest, n
    <3>2. s' \in Sessions /\ s'.theirs = s.theirs /\ s'.todo = rest
      BY <1>1, <3>1, Zenon DEF Sessions
    <3>3. QED
      BY <3>2, Zenon DEF rest
  <2>3. disturbed \/ Quiet'
    <3>1. \/ disturbed
          \/ Sendable(tip["A"], pool["B"], pool["A"] \cup {o}, s.todo \ {o})
      BY <1>2, SentSendable, Zenon
    <3>2. QED
      BY <1>1, <1>2, <1>6, <2>1, <2>2, <3>1, Zenon DEF Quiet
  <2>4. dirty' \in BOOLEAN
    BY <1>6, Zenon
  <2>5. QED
    BY <1>1, <1>6, <2>1, <2>2, <2>3, <2>4, GoesOn, ZenonT(40) DEF Rest
<1>7. CASE Fail("pool full")
  BY <1>7, FailKeeps, Zenon
<1>8. QED
  BY <1>3, <1>4, <1>5, <1>6, <1>7, Zenon DEF Fetch

(* The last answer to these requests keeps the session sound. *)
LEMMA FetchedKeeps ==
  ASSUME SessionInv, Fetched
  PROVE  SessionInv'
<1>1. /\ a = "fetch" /\ a' = "submit" /\ s \in Sessions /\ pool["A"] \subseteq Op
      /\ dirty' \in BOOLEAN /\ Same /\ Rest
  BY Typed, Zenon DEF Fetched, Go
<1>2. PICK items \in Take(Calls("A") \ s.theirs) :
        s' = [s EXCEPT !.todo = items, !.after = "wait"]
  BY Zenon DEF Fetched, Offered
<1>3. s' \in Sessions /\ s'.todo = items /\ s'.after = "wait"
  <2>1. items \in SUBSET Op
    BY <1>1, <1>2, Zenon DEF Take, Calls
  <2>2. QED
    BY <1>1, <1>2, <2>1, Zenon DEF Sessions
<1>4. disturbed \/ (tip["A"] = tip["B"] /\ s.theirs \subseteq pool["B"])
  BY <1>1, Zenon DEF SessionInv, QuietInv, Quiet
<1>5. disturbed \/ Sendable(tip["B"], pool["A"], pool["B"], items)
  <2> SUFFICES ASSUME ~ disturbed PROVE Sendable(tip["B"], pool["A"], pool["B"], items)
    BY Zenon
  <2>1. items \in Take((pool["A"] \ Deploys) \ s.theirs)
    BY <1>2, Zenon DEF Calls
  <2>2. Sound(tip["B"], pool["A"])
    BY <1>4, Zenon DEF SessionInv, PoolsSound, Node
  <2>3. QED
    BY <1>4, <2>1, <2>2, TakenSendable, Zenon
<1>6. disturbed \/ Quiet'
  BY <1>1, <1>3, <1>4, <1>5, Zenon DEF Quiet, Same
<1>7. QED
  BY <1>1, <1>3, <1>6, StepInPlace, Zenon

(* Waiting for the other node keeps the session sound. *)
LEMMA WaitKeeps ==
  ASSUME SessionInv, Wait
  PROVE  SessionInv'
<1>1. /\ a = "wait" /\ a' = "loop" /\ s' = [s EXCEPT !.force = dirty, !.theirs = {}, !.mine = Genesis]
      /\ s \in Sessions /\ dirty \in BOOLEAN /\ dirty' \in BOOLEAN /\ Same /\ Rest
  BY Typed, Zenon DEF Wait, Go
<1>2. s' \in Sessions /\ Quiet'
  BY <1>1, GenesisHeight, Zenon DEF Sessions, Quiet
<1>3. QED
  BY <1>1, <1>2, StepInPlace, Zenon

-----------------------------------------------------------------------------
(* The nodes go on with others. *)
LEMMA LearnKeeps ==
  ASSUME SessionInv, NEW n \in Node, NEW t \in Block, Learn(n, t)
  PROVE  SessionInv'
<1>1. tip' \in [Node -> Block] /\ pool' \in [Node -> SUBSET Op] /\ PoolsSound'
  BY AdoptSound, Zenon DEF SessionInv, Learn
<1>2. Move /\ early' \in Seq(Block) /\ dirty' \in BOOLEAN
  BY Typed, Zenon DEF Learn
<1>3. QED
  BY <1>1, <1>2, MoveKeeps, Zenon

(* An operation that a node takes from elsewhere is a change from outside. *)
LEMMA InsertKeeps ==
  ASSUME SessionInv, NEW n \in Node, NEW o \in Op, Insert(n, o)
  PROVE  SessionInv'
<1>1. tip' \in [Node -> Block] /\ pool' \in [Node -> SUBSET Op] /\ PoolsSound'
  BY TakenSound, Zenon DEF SessionInv, Insert
<1>2. Move /\ early' \in Seq(Block) /\ dirty' \in BOOLEAN
  BY Typed, Zenon DEF Insert
<1>3. QED
  BY <1>1, <1>2, MoveKeeps, Zenon

(* So is a branch that a node takes from elsewhere. *)
LEMMA DownloadKeeps ==
  ASSUME SessionInv, NEW t \in Block, Download(t)
  PROVE  SessionInv'
<1>1. tip' \in [Node -> Block] /\ pool' \in [Node -> SUBSET Op] /\ PoolsSound'
  BY SameSound, Zenon DEF SessionInv, Download
<1> DEFINE q == Append(early, t)
<1>2. q \in Seq(Block)
  BY Typed
<1>3. Move /\ early' = Queued(q) /\ dirty' \in BOOLEAN
  BY Zenon DEF Download
<1> HIDE DEF q
<1>4. Queued(q) \in Seq(Block)
  <2>1. SubSeq(q, 2, Len(q)) \in Seq(Block) /\ SubSeq(q, 1, Len(q)) \in Seq(Block)
    BY <1>2
  <2>2. QED
    BY <2>1, Zenon DEF Queued
<1>5. QED
  BY <1>1, <1>3, <1>4, MoveKeeps, Zenon

-----------------------------------------------------------------------------
(* The invariant holds at the start. *)
LEMMA SessionInitially == Init => SessionInv
<1> SUFFICES ASSUME Init PROVE SessionInv
  BY Zenon
<1>1. SessionTypes
  <2>1. {t \in Block : Runs(t)} \subseteq Block
    BY Zenon
  <2>2. tip \in [Node -> Block] /\ pool \in [Node -> SUBSET Op]
    BY <2>1, Zenon DEF Init
  <2>3. <<>> \in Seq(Block)
    OBVIOUS
  <2>4. early \in Seq(Block) /\ dirty \in BOOLEAN
    BY <2>3, Zenon DEF Init
  <2>5. s \in Sessions
    BY NoSessionTyped, Zenon DEF Init
  <2>6. QED
    BY <2>2, <2>4, <2>5, Zenon DEF SessionTypes
<1>2. PoolsSound /\ PhaseInv /\ QuietInv /\ FailsOnlyByRace
  BY Zenon DEF Init, PoolsSound, Sound, PhaseInv, QuietInv, Quiet, FailsOnlyByRace
<1>3. QED
  BY <1>1, <1>2, Zenon DEF SessionInv

(* Every step of the session and of its surroundings keeps it. *)
LEMMA SessionStep == SessionInv /\ [Next]_vars => SessionInv'
<1> SUFFICES ASSUME SessionInv, [Next]_vars PROVE SessionInv'
  BY Zenon
<1>1. CASE Connect \/ Synchronize \/ Greet \/ RelayMempool \/ Push \/ Pushed \/ Submitted
  BY <1>1, ConnectKeeps, SynchronizeKeeps, GreetKeeps, RelayMempoolKeeps, PushKeeps,
     PushedKeeps, SubmittedKeeps, ZenonT(40)
<1>2. CASE ReadTip \/ ExchangeTips \/ SendInventory \/ Skip \/ ExchangeInventories
  BY <1>2, ReadTipKeeps, ExchangeTipsKeeps, SendInventoryKeeps, SkipKeeps,
     ExchangeInventoriesKeeps, Zenon
<1>3. CASE Shallow \/ PullCompact \/ Descend \/ Apply
  BY <1>3, ShallowKeeps, PullCompactKeeps, DescendKeeps, ApplyKeeps, Zenon
<1>4. CASE Offer \/ ReverseSync \/ Timeout \/ Request \/ Fetched \/ Busy \/ Wait
  BY <1>4, OfferKeeps, ReverseSyncKeeps, TimeoutKeeps, RequestKeeps, FetchedKeeps, BusyKeeps,
     WaitKeeps, ZenonT(40)
<1>5. ASSUME NEW o \in Op, Submit(o) \/ Fetch(o)
      PROVE  SessionInv'
  BY <1>5, SubmitKeeps, FetchKeeps, Zenon
<1>6. ASSUME NEW n \in Node, NEW t \in Block, Learn(n, t)
      PROVE  SessionInv'
  BY <1>6, LearnKeeps, Zenon
<1>7. ASSUME NEW n \in Node, NEW o \in Op, Insert(n, o)
      PROVE  SessionInv'
  BY <1>7, InsertKeeps, Zenon
<1>8. ASSUME NEW t \in Block, Download(t)
      PROVE  SessionInv'
  BY <1>8, DownloadKeeps, Zenon
<1>9. CASE UNCHANGED vars
  <2>1. UNCHANGED <<tip, pool, floor, early, dirty, a, b, s, why, disturbed>>
    BY <1>9, ZenonT(40) DEF vars
  <2>2. SessionTypes' /\ PoolsSound'
    <3>1. tip' = tip /\ pool' = pool /\ early' = early /\ dirty' = dirty /\ s' = s
      BY <2>1, Zenon
    <3>2. SessionTypes'
      BY <3>1, Zenon DEF SessionInv, SessionTypes
    <3>3. PoolsSound'
      BY <3>1, ZenonT(40) DEF SessionInv, PoolsSound
    <3>4. QED
      BY <3>2, <3>3, Zenon
  <2>3. PhaseInv' /\ QuietInv'
    BY <2>1, ZenonT(40) DEF SessionInv, PhaseInv, Allows, QuietInv, Quiet
  <2>4. FailsOnlyByRace'
    BY <2>1, Zenon DEF SessionInv, FailsOnlyByRace, Conflict, Undelivered, Calls
  <2>5. QED
    BY <2>2, <2>3, <2>4, Zenon DEF SessionInv
<1>10. QED
  BY <1>1, <1>2, <1>3, <1>4, <1>5, <1>6, <1>7, <1>8, <1>9, ZenonT(40) DEF Next, Step

(* It holds in every reachable state. *)
LEMMA SessionInvariance == Spec => []SessionInv
BY SessionInitially, SessionStep, PTL DEF Spec

(* A session between two nodes that nothing else changes never fails for a   *)
(* tip, an ancestor or an operation that is gone; a rejected operation then  *)
(* means that the pools conflict, or that it calls a program whose pending   *)
(* deployment the other does not have.                                       *)
THEOREM SessionsFailOnlyByRace == Spec => []FailsOnlyByRace
<1>1. SessionInv => FailsOnlyByRace
  BY Zenon DEF SessionInv
<1>2. QED
  BY <1>1, SessionInvariance, PTL

(* Two nodes wait for each other on one connection only when A's better      *)
(* chain is below B's configured minimum.                                    *)
THEOREM WaitsOnlyBelowMinimum == Spec => []MutualWaitOnlyBelowMinimum
<1>1. SessionInv => MutualWaitOnlyBelowMinimum
  BY Zenon DEF SessionInv, PhaseInv, MutualWaitOnlyBelowMinimum
<1>2. QED
  BY <1>1, SessionInvariance, PTL

=============================================================================
