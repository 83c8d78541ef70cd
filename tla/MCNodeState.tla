---------------------------- MODULE MCNodeState ----------------------------
(***************************************************************************)
(* A tree in which sessions offer what is hard for a node: a branch that    *)
(* forks below its rollback journals, a heavier one with a block that does  *)
(* not execute, and a short fork.  What 3 and 8  *)
(* hold is too large for the pool, so 3 cannot be left for 8, nor 8 for 6.  *)
(*                                                                         *)
(*     0 -- 1 -- 2 -- 3 -- 4                                                *)
(*     |         +--- 8                                                     *)
(*     +--- 5 -- 6                                                          *)
(*          +--- 7 (does not execute)                                       *)
(***************************************************************************)
EXTENDS NodeState, TLC

CONSTANTS s1, s2

MCLine ==
  0 :> <<0>> @@ 1 :> <<0, 1>> @@ 2 :> <<0, 1, 2>> @@ 3 :> <<0, 1, 2, 3>>
  @@ 4 :> <<0, 1, 2, 3, 4>> @@ 5 :> <<0, 5>> @@ 6 :> <<0, 5, 6>>
  @@ 7 :> <<0, 5, 7>> @@ 8 :> <<0, 1, 2, 8>>

MCBlockWeight == [b \in DOMAIN MCLine |-> 1]

MCWorkOf == [b \in DOMAIN MCLine |-> IF b \in {5, 6, 7} THEN 3 ELSE IF b = 8 THEN 2 ELSE 1]

MCOp == {"a", "b", "c", "d", "e", "f"}

MCSpends == "a" :> {1} @@ "b" :> {2} @@ "c" :> {1} @@ "d" :> {3} @@ "e" :> {4}
            @@ "f" :> {5}

MCNeeds == [o \in MCOp |-> IF o = "b" THEN {"a"} ELSE {}]

MCSize == [o \in MCOp |-> IF o \in {"b", "f"} THEN 2 ELSE 1]

MCOpsOf ==
  [b \in DOMAIN MCLine |->
     CASE b = 1 -> <<"a">> [] b = 3 -> <<"b", "d">> [] b = 4 -> <<"e">>
       [] b = 5 -> <<"c">> [] b = 7 -> <<"a">> [] b = 8 -> <<"e", "f">>
       [] OTHER -> <<>>]
=============================================================================
