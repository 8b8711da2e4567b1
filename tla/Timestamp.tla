----------------------------- MODULE Timestamp ------------------------------
(***************************************************************************)
(* The block clock: pallet_timestamp (external), as runtime/src/lib.rs     *)
(* configures it. The inherent of a block sets the moment once, before the *)
(* block's other extrinsics; it must move by at least MinimumPeriod, half  *)
(* of a slot. Moments are counted from the first block's.                  *)
(***************************************************************************)
EXTENDS Integers

CONSTANTS
    MinimumPeriod,  \* SLOT_DURATION / 2
    MomentMax       \* the largest u64 moment; TLC's runs end there

ASSUME MomentAssumption ==
    /\ MomentMax \in Nat
    /\ MinimumPeriod \in Nat \ {0}

Moment == 0 .. MomentMax

VARIABLE now

TimestampInit == now = 0

\* Timestamp::set, the inherent that starts a block
SetTimestamp ==
    now' \in {t \in Moment : t >= now + MinimumPeriod}
=============================================================================
