---------------------------- MODULE MCHeaderSync ----------------------------
(***************************************************************************)
(* Epochs of two blocks, so a window of four recent headers; lines of up   *)
(* to nine blocks, longer than the window, that part above a checkpoint,   *)
(* at one and below one.  Block 100 is genesis; 11..19 is a line of light  *)
(* blocks, 24..28 leaves it at 13 with heavy ones, 32..35 at 11.  41 has   *)
(* the target of another branch, 51 no weight, 61 no proof of work.        *)
(***************************************************************************)
EXTENDS HeaderSync, TLC

LineOf ==
  (100 :> <<100>>)
  @@ (11 :> <<100, 11>>)
  @@ (12 :> <<100, 11, 12>>)
  @@ (13 :> <<100, 11, 12, 13>>)
  @@ (14 :> <<100, 11, 12, 13, 14>>)
  @@ (15 :> <<100, 11, 12, 13, 14, 15>>)
  @@ (16 :> <<100, 11, 12, 13, 14, 15, 16>>)
  @@ (17 :> <<100, 11, 12, 13, 14, 15, 16, 17>>)
  @@ (18 :> <<100, 11, 12, 13, 14, 15, 16, 17, 18>>)
  @@ (19 :> <<100, 11, 12, 13, 14, 15, 16, 17, 18, 19>>)
  @@ (24 :> <<100, 11, 12, 13, 24>>)
  @@ (25 :> <<100, 11, 12, 13, 24, 25>>)
  @@ (26 :> <<100, 11, 12, 13, 24, 25, 26>>)
  @@ (27 :> <<100, 11, 12, 13, 24, 25, 26, 27>>)
  @@ (28 :> <<100, 11, 12, 13, 24, 25, 26, 27, 28>>)
  @@ (32 :> <<100, 11, 32>>)
  @@ (33 :> <<100, 11, 32, 33>>)
  @@ (34 :> <<100, 11, 32, 33, 34>>)
  @@ (35 :> <<100, 11, 32, 33, 34, 35>>)
  @@ (41 :> <<100, 11, 32, 33, 34, 41>>)
  @@ (42 :> <<100, 11, 32, 33, 34, 41, 42>>)
  @@ (51 :> <<100, 11, 12, 13, 14, 15, 16, 51>>)
  @@ (61 :> <<100, 11, 12, 13, 24, 25, 61>>)

WeightOf == [b \in DOMAIN LineOf |->
  CASE b \in {100, 51} -> 0
    [] b \in 24 .. 28 \cup {34} -> 4
    [] b \in {32, 33} -> 2
    [] OTHER -> 1]

(* The starting target, three times harder by 80%, and easier by 120%. *)
BitsOf == [b \in DOMAIN LineOf |->
  CASE b = 100 -> 0
    [] b \in {11, 12, 32} -> 67174399
    [] b \in {13, 14, 24, 25, 26, 33, 34, 61} -> 67161292
    [] b \in {15, 16, 41, 42} -> 67150806
    [] b \in {17, 18, 51} -> 67142417
    [] b = 19 -> 57203302
    [] b \in {27, 28, 35} -> 67171777]

WorkOfBlock == [b \in DOMAIN LineOf |->
  CASE b = 100 -> 0
    [] b \in {11, 12, 32} -> 64
    [] b \in {13, 14, 24, 25, 26, 33, 34, 61} -> 80
    [] b \in {15, 16, 41, 42} -> 100
    [] b \in {17, 18, 51} -> 125
    [] b = 19 -> 156
    [] b \in {27, 28, 35} -> 66]

(* Peers that serve what they advertise, and two that do not. *)
Offers == {<<t, t>> : t \in {11, 12, 15, 18, 19, 28, 35, 42, 51, 61}}
          \cup {<<19, 18>>, <<35, 28>>}

=============================================================================
