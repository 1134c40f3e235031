---------------------------- MODULE SharedRecord ----------------------------
(***************************************************************************)
(* What the browser store promises of the saved record, whatever the       *)
(* number of tabs, failed writes and crashes: under one generation it only *)
(* gains lessons and, as long as no sync merge was saved through a page    *)
(* that does not know of it, practice; a new generation is one never used  *)
(* before, and a damaged record comes back only as a generation that was   *)
(* saved.                                                                  *)
(***************************************************************************)
EXTENDS SavedRecord

VARIABLES record,  \* the saved record
          epoch,   \* the newest generation in use
          synced   \* a sync merge was saved

Init == /\ record = Absent \/ record \in [status: {"valid"}, state: State, generation: {Legacy}]
        /\ epoch = Legacy /\ synced = FALSE

Grows(s, u) == /\ s.completed \subseteq u.completed
               /\ s.focusSeconds <= u.focusSeconds \/ synced

Commit == /\ Valid(record) /\ Valid(record')
          /\ record'.generation = record.generation
          /\ Grows(record.state, record'.state)
          /\ UNCHANGED <<epoch, synced>>

Import == /\ Valid(record')
          /\ record'.generation = epoch'
          /\ epoch' = epoch + 1 /\ synced' = synced

Damage == record' = Damaged /\ UNCHANGED <<epoch, synced>>

Recover == /\ ~Valid(record) /\ Valid(record')
           /\ record'.generation <= epoch
           /\ UNCHANGED <<epoch, synced>>

\* The sync client gives the store a merge to save.
Merge == synced' = TRUE /\ UNCHANGED <<record, epoch>>

Next == Commit \/ Import \/ Damage \/ Recover \/ Merge

Spec == Init /\ [][Next]_<<record, epoch, synced>>
=============================================================================
