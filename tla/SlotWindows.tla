----------------------------- MODULE SlotWindows -----------------------------
(***************************************************************************)
(* The epoch layout that every loop of the preconfer shares:               *)
(* preconfirmation/src/preconf/slot_model.rs.                              *)
(*                                                                         *)
(* The last HandoverSlots slots of an epoch are its handover window.  They *)
(* are sequenced by the operator of the NEXT epoch, the slots before them  *)
(* by the operator of the epoch itself.                                    *)
(*                                                                         *)
(* A position in time is a record with (at least) the fields epoch and     *)
(* slot.  The Option<u64> active_epoch of the code is a set `active' of at *)
(* most one epoch: {} is None.  SlotsPerEpoch - HandoverSlots - 1 is -1    *)
(* when HandoverSlots = SlotsPerEpoch, which equals no slot, as the        *)
(* wrapped u64 of the release build does not either.                       *)
(*                                                                         *)
(* A definition marked "Mistake", here or in another module, is part of no *)
(* specification: it is a plausible slip in the code that the definition   *)
(* after it models, and breaks a property when put in its place.           *)
(***************************************************************************)
EXTENDS Integers

CONSTANTS
    SlotsPerEpoch,   \* L1 slots of an epoch
    HandoverSlots    \* slots at the end of an epoch handed to the next operator

ASSUME SlotsAssumption ==
    /\ SlotsPerEpoch \in Nat \ {0}
    /\ HandoverSlots \in 0..SlotsPerEpoch

WithinHandoverPeriod(slot) == slot >= SlotsPerEpoch - HandoverSlots

IsHandoverStartSlot(slot) == slot = SlotsPerEpoch - HandoverSlots

IsLastSlotBeforeHandoverWindow(slot) ==
    slot = SlotsPerEpoch - HandoverSlots - 1

\* Mistake: an active epoch includes its own handover window.
CanPreconfirmToTheEnd(active, at) ==
    \E epoch \in active :
        \/ at.epoch + 1 = epoch /\ WithinHandoverPeriod(at.slot)
        \/ at.epoch = epoch

CanPreconfirm(active, at) ==
    \E epoch \in active :
        \/ at.epoch + 1 = epoch /\ WithinHandoverPeriod(at.slot)
        \/ at.epoch = epoch /\ ~WithinHandoverPeriod(at.slot)

CanConfirm(active, at) == at.epoch \in active

IsFirstPreconfirmationSlot(active, at) ==
    at.epoch + 1 \in active /\ IsHandoverStartSlot(at.slot)

-----------------------------------------------------------------------------
(* What the predicates are meant to decide.                                *)

\* The epoch whose operator sequences the position.
WindowEpoch(at) ==
    IF WithinHandoverPeriod(at.slot) THEN at.epoch + 1 ELSE at.epoch
=============================================================================
