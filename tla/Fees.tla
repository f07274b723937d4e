-------------------------------- MODULE Fees --------------------------------
(***************************************************************************)
(* The deterministic fee formula of consensus/fees.rs.  Amounts are in     *)
(* micro-NOID.  The u64 saturations of the code cannot be reached by the   *)
(* bounded page shapes of a spend and are left out.                        *)
(***************************************************************************)
EXTENDS Integers

MIN_FEE_BASE == 5000
FEE_PER_INPUT == 100
FEE_PER_OUTPUT == 700
STATE_GROWTH_FEE_BASE == 2500

(* Occupancy of the slot space in basis points, rounded down. *)
OccupancyBps(active, logSlots) == (active * 10000) \div (2 ^ logSlots)

(* The stepwise multiplier of the state-growth price. *)
PressureMultiplier(active, logSlots) ==
    LET bps == OccupancyBps(active, logSlots) IN
    CASE bps >= 9000 -> 8
      [] bps >= 7500 /\ bps < 9000 -> 4
      [] bps >= 5000 /\ bps < 7500 -> 2
      [] OTHER -> 1

(* The part of the required fee that is burned: only net-new slots pay it. *)
BurnedFee(nInputs, nOutputs, active, logSlots) ==
    IF nOutputs > nInputs
    THEN STATE_GROWTH_FEE_BASE * PressureMultiplier(active, logSlots)
           * (nOutputs - nInputs)
    ELSE 0

RequiredFee(nInputs, nOutputs, active, logSlots) ==
    MIN_FEE_BASE + FEE_PER_INPUT * nInputs + FEE_PER_OUTPUT * nOutputs
      + BurnedFee(nInputs, nOutputs, active, logSlots)
=============================================================================
