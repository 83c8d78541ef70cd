------------------------------- MODULE MCCalls -------------------------------
(* Two applications and a program of the older version.  The first has two *)
(* coins, so that a transfer can need both, one of them, or change.        *)
EXTENDS ProgramCalls, TLC

MCFirstCoins ==
  (<<0, "p", 0, 0>> :> [owner |-> "p", amount |-> 2])
  @@ (<<0, "p", 0, 1>> :> [owner |-> "p", amount |-> 1])
  @@ (<<0, "l", 0, 0>> :> [owner |-> "l", amount |-> 1])
  @@ (<<0, "s", 0, 0>> :> [owner |-> "s", amount |-> 1])
=============================================================================
