---------------------------- MODULE MCForkChoice ----------------------------
(***************************************************************************)
(* Epochs of two blocks and a tree in which two branches leave different   *)
(* epochs behind (one under, one at the target weight), tips tie on work,  *)
(* on work and weight, and blocks with the wrong height, target, weight,   *)
(* structure or proof of work are offered as well.                         *)
(***************************************************************************)
EXTENDS ForkChoice

StartBits == 67174399   \* 0x0400FFFF: 0xFFFF00
Harder == NextDifficulty(StartBits, <<1, 1>>)
Hardest == NextDifficulty(Harder, <<1, 1>>)
Easier == NextDifficulty(Harder, <<4, 4>>)

Block(hash, parent, height, bits, weight) ==
  [hash |-> hash, parent |-> parent, height |-> height, bits |-> bits,
   weight |-> weight, sound |-> TRUE, pow |-> TRUE]

Offered == {
  Block(50, NoHash, 0, 0, 0),
  Block(51, NoHash, 0, 0, 0),
  \* a line of light blocks: the second epoch is harder, the third too
  Block(40, 50, 1, StartBits, 1),
  Block(41, 40, 2, StartBits, 1),
  Block(42, 41, 3, Harder, 1),
  Block(43, 42, 4, Harder, 1),
  Block(44, 43, 5, Hardest, 1),
  \* heavy blocks: the third epoch is easier again, within the limit
  Block(45, 41, 3, Harder, 4),
  Block(46, 45, 4, Harder, 4),
  Block(47, 46, 5, Easier, 1),
  \* the same height with an equal total, and a twin that ties in all
  Block(30, 50, 1, StartBits, 1),
  Block(31, 40, 2, StartBits, 3),
  Block(32, 31, 3, StartBits, 4),
  Block(33, 32, 4, StartBits, 4),
  Block(34, 33, 5, StartBits, 4),
  Block(36, 34, 6, StartBits, 1),
  Block(35, 31, 3, StartBits, 4),
  \* blocks that must be refused
  Block(20, 31, 3, Harder, 1),
  Block(26, 41, 3, StartBits, 1),
  Block(21, 40, 4, StartBits, 1),
  Block(22, 40, 2, StartBits, 0),
  Block(23, 40, 2, 0, 1),
  [Block(24, 40, 2, StartBits, 1) EXCEPT !.pow = FALSE],
  [Block(25, 40, 2, StartBits, 1) EXCEPT !.sound = FALSE]}

=============================================================================
