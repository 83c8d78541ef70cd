----------------------------- MODULE MCMempool -----------------------------
(***************************************************************************)
(* Operations that depend on or exclude each other, a miner, and a session *)
(* that offers a branch which leaves operations behind.                    *)
(*                                                                         *)
(*     0 -- 1 <a> -- 3 <b>                                                  *)
(*     +--- 2 ------ 4 <c>                                                  *)
(*     +--- 5 <d>                                                           *)
(***************************************************************************)
EXTENDS NodeState, TLC

CONSTANTS s1, a, b, c, d, e

MCLine ==
  0 :> <<0>> @@ 1 :> <<0, 1>> @@ 2 :> <<0, 2>> @@ 3 :> <<0, 1, 3>>
  @@ 4 :> <<0, 2, 4>> @@ 5 :> <<0, 5>>

MCBlockWeight == [x \in DOMAIN MCLine |-> 1]

MCWorkOf == [x \in DOMAIN MCLine |-> IF x \in {2, 4} THEN 2 ELSE 1]

(* b spends what a creates; a and c, and b and d, spend the same coin; e    *)
(* fills the pool by its size.                                              *)
MCSpends == a :> {1} @@ b :> {2, 3} @@ c :> {1} @@ d :> {3} @@ e :> {4}

MCNeeds == a :> {} @@ b :> {a} @@ c :> {} @@ d :> {} @@ e :> {}

MCSize == a :> 1 @@ b :> 1 @@ c :> 1 @@ d :> 1 @@ e :> 2

MCOpsOf ==
  0 :> <<>> @@ 1 :> <<a>> @@ 2 :> <<>> @@ 3 :> <<b>> @@ 4 :> <<c>> @@ 5 :> <<d>>
=============================================================================
