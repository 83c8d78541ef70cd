--------------------------- MODULE CanonicalChain ---------------------------
(***************************************************************************)
(* What a node promises about its chain, crashes included: it ends in a    *)
(* block whose whole line executes, and is only ever replaced by one that  *)
(* fork choice prefers.                                                    *)
(***************************************************************************)
CONSTANTS
  Root,               \* the tip of the chain of a new node
  Acceptable,         \* the tips of chains that execute
  Preferred(_, _)     \* fork choice

VARIABLE tip

Init == tip = Root

Next ==
  \E b \in Acceptable :
    /\ Preferred(b, tip)
    /\ tip' = b

Spec == Init /\ [][Next]_tip

=============================================================================
