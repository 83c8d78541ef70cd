------------------------------ MODULE BlockTree ------------------------------
(***************************************************************************)
(* The blocks the nodes of a network can come to know, as a fixed tree,    *)
(* and the order of chain tips.  A block is named by its hash, a number;   *)
(* Line gives the headers of the chain that ends in it, genesis first, and *)
(* BlockWeight and WorkOf its weight and its work.                         *)
(***************************************************************************)
EXTENDS Integers, Sequences, FiniteSetsExt

CONSTANTS
  Genesis,      \* EXPECTED_GENESIS_HASH
  Line,         \* Chain::headers by tip
  BlockWeight,  \* header weight
  WorkOf        \* block_work of the header's target

Block == DOMAIN Line

ASSUME BlockTreeAssumption ==
  /\ Block \subseteq Nat
  /\ Genesis \in Block /\ Line[Genesis] = <<Genesis>>
  /\ \A b \in Block :
       /\ Line[b] \in Seq(Block) /\ Line[b] # <<>>
       /\ Line[b][1] = Genesis /\ Line[b][Len(Line[b])] = b
       /\ \A i \in 1 .. Len(Line[b]) : Line[Line[b][i]] = SubSeq(Line[b], 1, i)
  /\ BlockWeight \in [Block -> Nat]
  /\ WorkOf \in [Block -> Nat]

-----------------------------------------------------------------------------
HeightOf(b) == Len(Line[b]) - 1

Parent(b) == Line[b][Len(Line[b]) - 1]

HeaderAt(tip, height) == Line[tip][height + 1]

OnLine(b, tip) == HeightOf(b) <= HeightOf(tip) /\ HeaderAt(tip, HeightOf(b)) = b

(* Totals of a line.  Genesis counts for nothing. *)
Along(line, value) ==
  LET sum[i \in 1 .. Len(line)] == IF i = 1 THEN 0 ELSE sum[i - 1] + value[line[i]]
  IN  sum[Len(line)]

TotalWork == [tip \in Block |-> Along(Line[tip], WorkOf)]

TotalWeight == [tip \in Block |-> Along(Line[tip], BlockWeight)]

(* compare_chain_tips(...).is_gt() on totals and tip hashes. *)
TipGreater(work, weight, tip, otherWork, otherWeight, other) ==
  \/ work > otherWork
  \/ work = otherWork /\ weight > otherWeight
  \/ work = otherWork /\ weight = otherWeight /\ tip < other

Better(b, c) ==
  TipGreater(TotalWork[b], TotalWeight[b], b, TotalWork[c], TotalWeight[c], c)

=============================================================================
