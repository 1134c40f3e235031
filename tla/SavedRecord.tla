----------------------------- MODULE SavedRecord -----------------------------
(***************************************************************************)
(* What a localStorage slot of the progress store holds: nothing, text     *)
(* that does not parse as a record, or a record under a generation.        *)
(***************************************************************************)
EXTENDS MergeRules

Legacy == 0   \* a record without _generation

Slot == [status: {"absent", "damaged", "valid"}, state: State, generation: Nat]

Absent == [status |-> "absent", state |-> FreshState, generation |-> Legacy]
Damaged == [status |-> "damaged", state |-> FreshState, generation |-> Legacy]
Saved(state, generation) ==
    [status |-> "valid", state |-> state, generation |-> generation]

Valid(slot) == slot.status = "valid"
=============================================================================
