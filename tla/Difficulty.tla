----------------------------- MODULE Difficulty -----------------------------
(***************************************************************************)
(* Proof-of-work targets and their weight-based adjustment:                *)
(* kernel/src/consensus/target.rs, policy/difficulty.rs and fork/work.rs.  *)
(*                                                                         *)
(* A target is a natural number below HashSpace (2^256 in the code); a     *)
(* header carries its compact form, which keeps 23 significant bits.  Here *)
(* the arithmetic on targets is that of the integers; the digit-by-digit   *)
(* algorithms of the code are not modelled.                                *)
(***************************************************************************)
EXTENDS Integers, Sequences, FiniteSets, Functions

CONSTANTS
  WbdaWindow,        \* WBDA_WINDOW, blocks of an epoch
  TargetWeight,      \* WBDA_TARGET_BLOCK_WEIGHT
  MaxBlockSize,      \* MAX_BLOCK_SIZE
  TargetBitsStart,   \* TARGET_BITS_START, compact
  HashSpace,         \* 2^256
  MaxWork,           \* Work::MAX
  MaxWeight          \* u64::MAX

ASSUME DifficultyAssumption ==
  /\ WbdaWindow \in Nat \ {0}
  /\ TargetWeight \in Nat \ {0}
  /\ MaxBlockSize \in Nat
  /\ TargetBitsStart \in Nat
  /\ HashSpace \in Nat \ {0}
  /\ MaxWork \in Nat /\ MaxWeight \in Nat

LowUtilizationPpm == 800000
HighUtilizationPpm == 1200000
HarderPercent == 80
EasierPercent == 120

-----------------------------------------------------------------------------
(* The compact form size * 2^24 + mantissa of a target, for targets of at   *)
(* most four bytes.  A mantissa whose bit 23 would be set moves down one    *)
(* byte, and the bytes below the mantissa are lost.                         *)
Shift == 2 ^ 24

ByteSize(target) == CHOOSE n \in 1 .. 4 :
                      /\ target \div 256 ^ (n - 1) > 0
                      /\ n < 4 => target \div 256 ^ n = 0

LeadingBytes(target, size) == IF size <= 3
                              THEN target * 256 ^ (3 - size)
                              ELSE target \div 256 ^ (size - 3)

ToCompact(target) ==
  LET size     == ByteSize(target)
      mantissa == LeadingBytes(target, size)
  IN  IF mantissa >= 2 ^ 23
      THEN (size + 1) * Shift + mantissa \div 256
      ELSE size * Shift + mantissa

FromCompact(bits) ==
  LET size     == bits \div Shift
      mantissa == bits % Shift
  IN  IF size <= 3
      THEN mantissa \div 256 ^ (3 - size)
      ELSE mantissa * 256 ^ (size - 3)

(* A compact form that decodes to a target: no sign bit, and not zero. *)
ValidBits(bits) ==
  /\ bits % Shift < 2 ^ 23
  /\ bits \div Shift > 0
  /\ FromCompact(bits) \in 1 .. HashSpace - 1

ScaleRatio(target, numerator) ==
  LET scaled == (target * numerator) \div 100
  IN  IF scaled = 0 THEN 1 ELSE scaled

SaturatingSum(m, n, max) == IF m + n > max THEN max ELSE m + n

BlockWork(bits) == HashSpace \div (FromCompact(bits) + 1)

-----------------------------------------------------------------------------
IsEpochBoundary(height) == height > 1 /\ (height - 1) % WbdaWindow = 0

AverageWeight(weights) == SumFunction(weights) \div WbdaWindow

UtilizationPpm(weights) == (AverageWeight(weights) * 1000000) \div TargetWeight

NextDifficulty(bits, weights) ==
  LET utilization == UtilizationPpm(weights)
      previous    == FromCompact(bits)
      limit       == FromCompact(TargetBitsStart)
      next        == CASE utilization < LowUtilizationPpm
                            -> ScaleRatio(previous, HarderPercent)
                       [] utilization > HighUtilizationPpm
                            -> ScaleRatio(previous, EasierPercent)
                       [] OTHER -> previous
  IN  ToCompact(IF next > limit THEN limit ELSE next)

(* The compact target of a block.  WeightAt gives the weights the caller    *)
(* can still see by height; the result is refused if one of the window is   *)
(* missing.                                                                 *)
WindowHeights(height) == height - WbdaWindow .. height - 1

WindowVisible(height, weightAt) ==
  IsEpochBoundary(height) => WindowHeights(height) \subseteq DOMAIN weightAt

ExpectedDifficulty(height, parentBits, weightAt) ==
  IF height = 1
  THEN TargetBitsStart
  ELSE IF IsEpochBoundary(height)
       THEN NextDifficulty(parentBits,
              [i \in 1 .. WbdaWindow |-> weightAt[height - WbdaWindow + i - 1]])
       ELSE parentBits

(* The target in force in an epoch of a line of weights, epoch by epoch     *)
(* from the starting target: what every validation route must agree on.     *)
EpochBits(weights, epoch) ==
  LET at[e \in 0 .. epoch] ==
        IF e = 0 THEN TargetBitsStart
        ELSE NextDifficulty(at[e - 1],
               SubSeq(weights, (e - 1) * WbdaWindow + 1, e * WbdaWindow))
  IN  at[epoch]

(* A header's claimed weight. *)
ValidWeight(weight) == weight \in 1 .. MaxBlockSize

=============================================================================
