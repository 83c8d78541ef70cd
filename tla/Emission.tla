------------------------------ MODULE Emission ------------------------------
(***************************************************************************)
(* The coin issuance schedule: kernel/src/consensus/policy/emission.rs.    *)
(*                                                                         *)
(* The gross subsidy doubles once per interval for EmissionRisingSteps     *)
(* intervals, then halves once per interval until it reaches a permanent   *)
(* tail.  From the first tail block on ("FOTE", fees offset tail           *)
(* emission) the fees of the block are subtracted from what is newly       *)
(* issued to the miner.  The amounts and the length of an interval are     *)
(* parameters, so that a small instance passes through every phase.        *)
(***************************************************************************)
EXTENDS Integers, Sequences

CONSTANTS
  BlockEmissionStart,        \* BLOCK_EMISSION_START
  EmissionRisingSteps,       \* EMISSION_RISING_STEPS
  EmissionHalvingsToTail,    \* EMISSION_HALVINGS_TO_TAIL
  EmissionInterval,          \* EMISSION_INTERVAL
  MinerProtocolBurn,         \* MINER_PROTOCOL_BURN
  MaxZeno                    \* u64::MAX

ASSUME EmissionAssumption ==
  /\ BlockEmissionStart \in Nat \ {0}
  /\ EmissionRisingSteps \in Nat
  /\ EmissionHalvingsToTail \in Nat
  /\ EmissionInterval \in Nat \ {0}
  /\ MinerProtocolBurn \in Nat
  /\ MaxZeno \in Nat

MaxBlockEmission == BlockEmissionStart * 2 ^ EmissionRisingSteps

TailBlockEmission == MaxBlockEmission \div 2 ^ EmissionHalvingsToTail

(* The burn of an empty block is less than the smallest gross subsidy. *)
ASSUME TailPaysBurn == MinerProtocolBurn <= TailBlockEmission

-----------------------------------------------------------------------------
(* An amount of coin: a u64 whose additions and subtractions are checked. *)
Zeno == 0 .. MaxZeno

FoteActivationHeight ==
  (EmissionRisingSteps + EmissionHalvingsToTail) * EmissionInterval + 1

AtLeast(lower, n) == IF n < lower THEN lower ELSE n

(* The height-scheduled gross subsidy.  Subtracting 1 from a height         *)
(* saturates at 0, and the rising phase is capped at its maximum.           *)
BlockEmissionForHeight(height) ==
  LET completed == AtLeast(0, height - 1) \div EmissionInterval
      halvings  == completed - EmissionRisingSteps
      rising    == BlockEmissionStart * 2 ^ completed
  IN  IF completed <= EmissionRisingSteps
      THEN IF rising > MaxBlockEmission THEN MaxBlockEmission ELSE rising
      ELSE IF halvings >= EmissionHalvingsToTail
           THEN TailBlockEmission
           ELSE AtLeast(TailBlockEmission, MaxBlockEmission \div 2 ^ halvings)

(* The subsidy a block must claim, given the miner fees of its operations. *)
ExpectedEmission(height, fees) ==
  LET scheduled == BlockEmissionForHeight(height)
  IN  IF height < FoteActivationHeight
      THEN scheduled
      ELSE MinerProtocolBurn
             + AtLeast(0, scheduled - MinerProtocolBurn - fees)

=============================================================================
