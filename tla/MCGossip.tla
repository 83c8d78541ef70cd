------------------------------ MODULE MCGossip ------------------------------
(***************************************************************************)
(* A chain of two blocks, a fork of equal work, and a block that does not  *)
(* execute:                                                                *)
(*                                                                         *)
(*     0 -- 1 -- 2                                                         *)
(*     +--- 3                                                              *)
(*     +--- 4 (does not execute)                                           *)
(***************************************************************************)
EXTENDS GossipSession, TLC

MCLine ==
  0 :> <<0>> @@ 1 :> <<0, 1>> @@ 2 :> <<0, 1, 2>> @@ 3 :> <<0, 3>> @@ 4 :> <<0, 4>>

MCBlockWeight == [t \in DOMAIN MCLine |-> 1]

MCWorkOf == [t \in DOMAIN MCLine |-> IF t = 3 THEN 2 ELSE 1]

MCExecutes == DOMAIN MCLine \ {4}

(* d deploys what x calls; z builds on y; x and z spend the same coin.  The *)
(* operations of block 3 and z, or d and z, are too large together.         *)
MCCoinOf == "d" :> 0 @@ "x" :> 2 @@ "y" :> 1 @@ "z" :> 2

MCNeeds == "d" :> {} @@ "x" :> {"d"} @@ "y" :> {} @@ "z" :> {"y"}

MCSize == "d" :> 2 @@ "x" :> 1 @@ "y" :> 1 @@ "z" :> 2

MCOpsIn ==
  [t \in DOMAIN MCLine |-> CASE t = 2 -> {"y"} [] t = 3 -> {"d", "y"} [] OTHER -> {}]

NoFloor == [work |-> 0, weight |-> 0]

MCFloors ==
  {"A" :> NoFloor @@ "B" :> NoFloor,
   "A" :> NoFloor @@ "B" :> [work |-> 2, weight |-> 0],
   "A" :> [work |-> 0, weight |-> 2] @@ "B" :> NoFloor}
=============================================================================
