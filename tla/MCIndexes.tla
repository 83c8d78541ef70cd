----------------------------- MODULE MCIndexes ------------------------------
(* Two branches from genesis.  The second block of each side weighs more   *)
(* than what it competes with, so the node moves to a branch of the same   *)
(* height and can come back; the operation t is in both branches.          *)
EXTENDS Indexes, TLC

MCBranches == {<<"g", "a", "c">>, <<"g", "b", "d">>, <<"g", "b", "e">>}
MCChain == UNION {{SubSeq(c, 1, n) : n \in 1 .. Len(c)} : c \in MCBranches}
MCWeight == [b \in {"g", "a", "b", "c", "d", "e"} |-> IF b \in {"g", "a"} THEN 1 ELSE 2]
MCContent == [b \in {"g", "a", "b", "c", "d", "e"} |->
  CASE b = "a" -> <<"t">> [] b = "b" -> <<"u">> [] b = "c" -> <<"v", "u">> [] b = "d" -> <<"v", "t">>
    [] OTHER -> <<>>]

MCReaders == Permutations(Reader)
=============================================================================
