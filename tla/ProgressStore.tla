---------------------------- MODULE ProgressStore ----------------------------
(***************************************************************************)
(* public/progress-store.js: the tabs of one browser share a saved record  *)
(* and two recovery copies in localStorage.  Each tab keeps a view, the    *)
(* changes not yet saved, and a promise chain of calls; a call that writes *)
(* runs inside the one Web Lock, whose callback is synchronous, so it is   *)
(* one step here.  Its two storage writes can fail one by one (quota), the *)
(* browser can die between them, and storage can be denied or found        *)
(* damaged.  app.js calls save, sync, focus and replace in any order, from *)
(* timers, events and the sync client.                                     *)
(*                                                                         *)
(* The page works on a record of its own (`state` of app.js), which        *)
(* follows the view when the store publishes one.  The sync client saves   *)
(* its merges through the same store without telling the page.             *)
(***************************************************************************)
EXTENDS SavedRecord, Sequences

CONSTANTS Tabs, Imports,  \* the records a learner may import or reset to
          Merges,         \* the records the sync client may have merged
          MaxEdits,       \* bound: edits, imports and merges together
          MaxQueue, MaxFaults, MaxDamage   \* bounds

ASSUME StoreAssumption ==
    /\ Imports \subseteq State /\ Merges \subseteq State
    /\ \A s \in Imports : s.focusSeconds >= 0

NoGeneration == -1     \* generation = null: nothing could be read yet

Call == [op: {"flush", "sync", "focus"}, with: {FreshState}]
          \cup [op: {"replace"}, with: Imports]

VARIABLES main, backup, imported,             \* the three storage slots
          open, view, generation, pending,    \* per tab
          blocked, recovered, problem, chain,
          shown, replacing,                   \* per tab: state, replacingProgress
          epoch,                              \* newest generation handed out
          edits, merges, faults, damage,      \* how much of the bounds is used
          base, madeUnder, seen, behind       \* history, read by properties only

slots == <<main, backup, imported>>
tabs == <<open, view, generation, pending, blocked, recovered, problem, chain>>
page == <<shown, replacing>>
bounds == <<epoch, edits, merges, faults, damage>>
history == <<base, madeUnder, seen, behind>>
vars == <<slots, tabs, page, bounds, history>>

-----------------------------------------------------------------------------

\* read(): the record if it parses, else the first recovery copy that does.
Source == IF Valid(main) THEN main
          ELSE IF Valid(backup) THEN backup
          ELSE IF Valid(imported) THEN imported
          ELSE Absent

\* Mutant: a damaged record without copies reads as an empty one.
CorruptNever == FALSE

Corrupt == ~Valid(Source) /\ main = Damaged

LatestState == IF Valid(Source) THEN SanitizeState(Source.state) ELSE FreshState
LatestGeneration == IF Valid(Source) THEN Source.generation ELSE Legacy

RecoveredByRead(t) ==
    IF Valid(main) THEN FALSE ELSE Valid(Source) \/ recovered[t]

ReadNotice(t) == IF RecoveredByRead(t) THEN "recovered" ELSE "none"

HasChanges(t) == pending[t] # NoChanges

-----------------------------------------------------------------------------

ClosedTab(t) ==
    /\ open' = [open EXCEPT ![t] = FALSE]
    /\ view' = [view EXCEPT ![t] = FreshState]
    /\ generation' = [generation EXCEPT ![t] = NoGeneration]
    /\ pending' = [pending EXCEPT ![t] = NoChanges]
    /\ blocked' = [blocked EXCEPT ![t] = FALSE]
    /\ recovered' = [recovered EXCEPT ![t] = FALSE]
    /\ problem' = [problem EXCEPT ![t] = "none"]
    /\ chain' = [chain EXCEPT ![t] = << >>]
    /\ shown' = [shown EXCEPT ![t] = FreshState]
    /\ replacing' = [replacing EXCEPT ![t] = FALSE]
    /\ base' = [base EXCEPT ![t] = FreshState]
    /\ madeUnder' = [madeUnder EXCEPT ![t] = NoGeneration]
    /\ seen' = [seen EXCEPT ![t] = [k \in Keys |-> {}]]
    /\ behind' = [behind EXCEPT ![t] = {}]

\* Mutant: errors never reach the status line.
ReportsNoErrors(t, message) ==
    problem' = IF message = "error" THEN problem ELSE [problem EXCEPT ![t] = message]

\* report(): the status line. "none" is the empty message, "saving" and
\* "recovered" the two notices, "error" any failure.
Reports(t, message) == problem' = [problem EXCEPT ![t] = message]

\* The page shows a record: the learner sees its texts.
Shows(t, state) ==
    /\ shown' = [shown EXCEPT ![t] = state]
    /\ seen' = [seen EXCEPT ![t] = [k \in Keys |-> @[k] \cup {state.notes[k]}]]

\* onChange() of app.js: the page takes a published record and keeps what it has
\* of its own, except during a reset or an import.  A record that says the same
\* is published or not, by the order of its entries.
Followed(t, next) ==
    {IF replacing[t] THEN next
     ELSE ApplyProgressChanges(next, ProgressChanges(view[t], shown[t]))}
      \cup (IF next = view[t] THEN {shown[t]} ELSE {})

\* publish(next) of a record just read or written: nothing is pending.
Settles(t, next, state) ==
    /\ view' = [view EXCEPT ![t] = next]
    /\ base' = [base EXCEPT ![t] = next]
    /\ Shows(t, state)
    /\ behind' = [behind EXCEPT ![t] = {k \in Keys : state.notes[k] # next.notes[k]}]

Publish(t, next) == \E state \in Followed(t, next) : Settles(t, next, state)

Init == /\ main \in {Absent, Saved(FreshState, Legacy)}
        /\ backup = Absent /\ imported = Absent
        /\ open = [t \in Tabs |-> FALSE]
        /\ view = [t \in Tabs |-> FreshState]
        /\ generation = [t \in Tabs |-> NoGeneration]
        /\ pending = [t \in Tabs |-> NoChanges]
        /\ blocked = [t \in Tabs |-> FALSE]
        /\ recovered = [t \in Tabs |-> FALSE]
        /\ problem = [t \in Tabs |-> "none"]
        /\ chain = [t \in Tabs |-> << >>]
        /\ shown = [t \in Tabs |-> FreshState]
        /\ replacing = [t \in Tabs |-> FALSE]
        /\ epoch = Legacy /\ edits = 0 /\ merges = 0 /\ faults = 0 /\ damage = 0
        /\ base = [t \in Tabs |-> FreshState]
        /\ madeUnder = [t \in Tabs |-> NoGeneration]
        /\ seen = [t \in Tabs |-> [k \in Keys |-> {}]]
        /\ behind = [t \in Tabs |-> {}]

\* createProgressStore reads the record, and the page takes what was read.
Open(t) ==
    /\ ~open[t]
    /\ ~Corrupt
    /\ open' = [open EXCEPT ![t] = TRUE]
    /\ Settles(t, LatestState, LatestState)
    /\ generation' = [generation EXCEPT ![t] = LatestGeneration]
    /\ recovered' = [recovered EXCEPT ![t] = RecoveredByRead(t)]
    /\ Reports(t, ReadNotice(t))
    /\ UNCHANGED <<slots, bounds, pending, blocked, chain, replacing, madeUnder>>

\* ... and starts empty when the read throws: blocked if the record is damaged
\* beyond recovery, not blocked if storage was merely denied.
OpenUnread(t) ==
    /\ ~open[t]
    /\ \/ Corrupt /\ faults' = faults
       \/ faults < MaxFaults /\ faults' = faults + 1
    /\ open' = [open EXCEPT ![t] = TRUE]
    /\ blocked' = [blocked EXCEPT ![t] = Corrupt /\ faults' = faults]
    /\ Settles(t, FreshState, FreshState)
    /\ Reports(t, "error")
    /\ UNCHANGED <<slots, epoch, edits, merges, damage, generation, pending,
                   recovered, chain, replacing, madeUnder>>

\* The tab is closed, or its process dies, while no write is under way.
Close(t) == /\ open[t]
            /\ ClosedTab(t)
            /\ UNCHANGED <<slots, bounds>>

-----------------------------------------------------------------------------

\* Mutant: a save forgets the changes still pending.
PushedAlone(t, next) == ProgressChanges(view[t], next)

\* pending.push(...progressChanges(view, next)).
Pushed(t, next) == Compose(pending[t], ProgressChanges(view[t], next))

\* save(next): what next changes of the view is pending, and the view is next.
\* Nobody is told.
SaveRecord(t, next) ==
    LET all == Pushed(t, next) IN
    /\ open[t]
    /\ pending' = [pending EXCEPT ![t] = all]
    /\ view' = [view EXCEPT ![t] = next]
    /\ IF all = NoChanges /\ ~recovered[t] THEN UNCHANGED <<chain, problem>>
       ELSE /\ Len(chain[t]) < MaxQueue
            /\ Reports(t, "saving")
            /\ chain' = [chain EXCEPT ![t] = Append(@, [op |-> "flush", with |-> FreshState])]
    /\ madeUnder' = IF HasChanges(t) THEN madeUnder
                    ELSE [madeUnder EXCEPT ![t] = generation[t]]
    /\ UNCHANGED <<slots, open, generation, blocked, recovered, replacing,
                   epoch, faults, damage, base>>

\* save() of app.js: a gesture edits the page's record and saves it; focus and
\* storage events save it as it is.
Save(t) ==
    \E next \in Edits(shown[t]) \cup {shown[t]} :
      /\ IF next = shown[t] THEN edits' = edits
         ELSE edits + merges < MaxEdits /\ edits' = edits + 1
      /\ SaveRecord(t, next)
      /\ Shows(t, next)
      /\ UNCHANGED <<merges, behind>>

\* writeState() of app.js: the sync client saves what it merged.  The page is not
\* told; where the merge brings another text, it is behind.
SaveMerged(t) ==
    /\ edits + merges < MaxEdits /\ merges' = merges + 1
    /\ \E next \in Merges :
         /\ SaveRecord(t, next)
         /\ behind' = [behind EXCEPT ![t] =
                         @ \cup {k \in Keys : next.notes[k] # shown[t].notes[k]}]
    /\ UNCHANGED <<shown, seen, edits>>

\* sync(), focus() and replace(next) only join the chain.
Ask(t) ==
    /\ open[t]
    /\ Len(chain[t]) < MaxQueue
    /\ \E call \in Call :
         /\ call.op # "flush"
         /\ chain' = [chain EXCEPT ![t] = Append(@, call)]
         /\ IF call.op = "sync" THEN edits' = edits
            ELSE edits + merges < MaxEdits /\ edits' = edits + 1
         /\ replacing' = [replacing EXCEPT ![t] = @ \/ call.op = "replace"]
    /\ UNCHANGED <<slots, open, view, generation, pending, blocked, recovered,
                   problem, shown, epoch, merges, faults, damage, history>>

-----------------------------------------------------------------------------

Running(t, ops) == open[t] /\ chain[t] # << >> /\ Head(chain[t]).op \in ops

\* A call ends, and whoever waited for it goes on.
Finish(t) ==
    /\ chain' = [chain EXCEPT ![t] = Tail(@)]
    /\ replacing' = [replacing EXCEPT ![t] = @ /\ Head(chain[t]).op # "replace"]

\* A sync with unsaved changes is a flush.
Flushing(t) == \/ Running(t, {"flush", "focus"})
               \/ Running(t, {"sync"}) /\ HasChanges(t)

\* The generation a flush works under: a tab that had read nothing takes the
\* one it finds.
FlushGeneration(t) ==
    IF generation[t] = NoGeneration THEN LatestGeneration ELSE generation[t]

\* What focus() credits to the record it reads: nothing, or some practice.
Credit(t) == IF Head(chain[t]).op = "focus" THEN {0, 1} ELSE {0}

\* Mutant: the generation of the record is not compared.
MergeableUnfenced(t) == ~blocked[t] /\ ~Corrupt /\ ~Conflicts(LatestState, pending[t])

\* Mutant: a tab that had read nothing does not adopt the generation it finds.
MergeableNoAdoption(t) ==
    /\ ~blocked[t] /\ ~Corrupt
    /\ generation[t] = LatestGeneration
    /\ ~Conflicts(LatestState, pending[t])

Mergeable(t) == /\ ~blocked[t] /\ ~Corrupt
                /\ FlushGeneration(t) = LatestGeneration
                /\ ~Conflicts(LatestState, pending[t])

\* Mutant: the tab stores its own view.
FlushedView(t, credit) == [view[t] EXCEPT !.focusSeconds = @ + credit]

FlushedState(t, credit) ==
    LET merged == ApplyProgressChanges(LatestState, pending[t]) IN
    [merged EXCEPT !.focusSeconds = @ + credit]

Dirty(t, next) == HasChanges(t) \/ RecoveredByRead(t) \/ next # LatestState

\* Mutant: whatever the record slot holds is kept, damaged or not.
BackupUnread(t, next) == main

BackupCopy(t, next) ==
    IF Valid(Source) THEN Source
    ELSE Saved(next, FlushGeneration(t))

\* flush() succeeds: the record as found is kept as the recovery copy, the
\* merged one takes its place and is published.
Flush(t) ==
    /\ Flushing(t) /\ Mergeable(t)
    /\ \E credit \in Credit(t) :
         LET next == FlushedState(t, credit) IN
         /\ IF Dirty(t, next)
            THEN /\ backup' = BackupCopy(t, next)
                 /\ main' = Saved(next, FlushGeneration(t))
                 /\ pending' = [pending EXCEPT ![t] = NoChanges]
                 /\ recovered' = [recovered EXCEPT ![t] = FALSE]
            ELSE /\ UNCHANGED <<main, backup, pending>>
                 /\ recovered' = [recovered EXCEPT ![t] = RecoveredByRead(t)]
         /\ Publish(t, next)
    /\ generation' = [generation EXCEPT ![t] = FlushGeneration(t)]
    /\ Reports(t, "none")
    /\ Finish(t)
    /\ UNCHANGED <<imported, open, blocked, bounds, madeUnder>>

\* flush() throws on what it read: another generation, or a conflicting text.
FlushRefused(t) ==
    /\ Flushing(t) /\ ~blocked[t] /\ ~Corrupt /\ ~Mergeable(t)
    /\ generation' = [generation EXCEPT ![t] = FlushGeneration(t)]
    /\ recovered' = [recovered EXCEPT ![t] = RecoveredByRead(t)]
    /\ Reports(t, "error")
    /\ Finish(t)
    /\ UNCHANGED <<slots, open, view, pending, blocked, shown, bounds, history>>

\* Mutant: the pending changes are dropped before the writes are done.
FlushQuotaForgets(t) ==
    /\ Flushing(t) /\ Mergeable(t) /\ faults < MaxFaults
    /\ faults' = faults + 1
    /\ pending' = [pending EXCEPT ![t] = NoChanges]
    /\ Reports(t, "error")
    /\ Finish(t)
    /\ UNCHANGED <<slots, open, view, generation, blocked, recovered, shown,
                   epoch, edits, merges, damage, history>>

\* The browser's storage is full: the first or the second write throws.
FlushQuota(t) ==
    /\ Flushing(t) /\ Mergeable(t) /\ faults < MaxFaults
    /\ \E credit \in Credit(t) :
         LET next == FlushedState(t, credit) IN
         /\ Dirty(t, next)
         /\ backup' \in {backup, BackupCopy(t, next)}
    /\ faults' = faults + 1
    /\ generation' = [generation EXCEPT ![t] = FlushGeneration(t)]
    /\ recovered' = [recovered EXCEPT ![t] = RecoveredByRead(t)]
    /\ Reports(t, "error")
    /\ Finish(t)
    /\ UNCHANGED <<main, imported, open, view, pending, blocked, shown,
                   epoch, edits, merges, damage, history>>

\* The browser dies between the two writes.
FlushCrash(t) ==
    /\ Flushing(t) /\ Mergeable(t) /\ faults < MaxFaults
    /\ \E credit \in Credit(t) :
         LET next == FlushedState(t, credit) IN
         /\ Dirty(t, next)
         /\ backup' = BackupCopy(t, next)
    /\ faults' = faults + 1
    /\ ClosedTab(t)
    /\ UNCHANGED <<main, imported, epoch, edits, merges, damage>>

\* sync() with nothing to save: an unlocked read that follows the record into
\* whatever generation it is now.
Sync(t) ==
    /\ Running(t, {"sync"}) /\ ~HasChanges(t) /\ ~Corrupt
    /\ generation' = [generation EXCEPT ![t] = LatestGeneration]
    /\ recovered' = [recovered EXCEPT ![t] = RecoveredByRead(t)]
    /\ Publish(t, LatestState)
    /\ IF blocked[t] THEN problem' = problem ELSE Reports(t, ReadNotice(t))
    /\ Finish(t)
    /\ UNCHANGED <<slots, bounds, open, pending, blocked, madeUnder>>

\* A call that throws before it has read anything: a blocked tab's flush, a
\* record damaged beyond recovery, storage denied.
Throws(t) ==
    /\ \/ /\ \/ Flushing(t) /\ (blocked[t] \/ Corrupt)
             \/ Running(t, {"sync"}) /\ Corrupt
          /\ faults' = faults
       \/ /\ Running(t, {"flush", "focus", "sync", "replace"})
          /\ faults < MaxFaults
          /\ faults' = faults + 1
    /\ Reports(t, "error")
    /\ Finish(t)
    /\ UNCHANGED <<slots, open, view, generation, pending, blocked, recovered,
                   shown, epoch, edits, merges, damage, history>>

-----------------------------------------------------------------------------

\* What replace() does first: whatever the record slot holds, damaged or not,
\* becomes the copy kept from before the import.
KeptBeforeImport == IF main = Absent THEN imported ELSE main

\* A reset or an import takes the record to the page as well; the first merge of
\* a sign-in leaves that to what is published.
Replace(t) ==
    /\ Running(t, {"replace"})
    /\ LET replacement == Head(chain[t]).with IN
       /\ imported' = KeptBeforeImport
       /\ main' = Saved(replacement, epoch + 1)
       /\ Settles(t, replacement, replacement) \/ Publish(t, replacement)
    /\ epoch' = epoch + 1
    /\ generation' = [generation EXCEPT ![t] = epoch + 1]
    /\ pending' = [pending EXCEPT ![t] = NoChanges]
    /\ blocked' = [blocked EXCEPT ![t] = FALSE]
    /\ recovered' = [recovered EXCEPT ![t] = FALSE]
    /\ Reports(t, "none")
    /\ Finish(t)
    /\ UNCHANGED <<backup, open, edits, merges, faults, damage, madeUnder>>

\* Its second write throws: the import is refused, the copy already replaced.
ReplaceQuota(t) ==
    /\ Running(t, {"replace"}) /\ faults < MaxFaults
    /\ imported' = KeptBeforeImport
    /\ faults' = faults + 1
    /\ Reports(t, "error")
    /\ Finish(t)
    /\ UNCHANGED <<main, backup, open, view, generation, pending, blocked,
                   recovered, shown, epoch, edits, merges, damage, history>>

\* The browser dies between its two writes.
ReplaceCrash(t) ==
    /\ Running(t, {"replace"}) /\ faults < MaxFaults
    /\ imported' = KeptBeforeImport
    /\ faults' = faults + 1
    /\ ClosedTab(t)
    /\ UNCHANGED <<main, backup, epoch, edits, merges, damage>>

\* The saved record stops parsing (an interrupted disk write, an extension).
Damage ==
    /\ Valid(main) /\ damage < MaxDamage
    /\ main' = Damaged
    /\ damage' = damage + 1
    /\ UNCHANGED <<backup, imported, tabs, page, epoch, edits, merges, faults, history>>

TabStep(t) == \/ Open(t) \/ OpenUnread(t) \/ Close(t)
              \/ Save(t) \/ SaveMerged(t) \/ Ask(t)
              \/ Flush(t) \/ FlushRefused(t) \/ FlushQuota(t) \/ FlushCrash(t)
              \/ Sync(t) \/ Throws(t)
              \/ Replace(t) \/ ReplaceQuota(t) \/ ReplaceCrash(t)

Next == Damage \/ \E t \in Tabs : TabStep(t)

Spec == Init /\ [][Next]_vars

\* The chain runs by itself and the lock is granted in turn; nothing makes a
\* learner edit, or a tab stay open.
Runs(t) == Flush(t) \/ FlushRefused(t) \/ Sync(t) \/ Throws(t) \/ Replace(t)

FairSpec == Spec /\ \A t \in Tabs : WF_vars(Runs(t))

-----------------------------------------------------------------------------

TypeOK ==
    /\ main \in Slot /\ backup \in Slot /\ imported \in Slot
    /\ open \in [Tabs -> BOOLEAN]
    /\ view \in [Tabs -> State]
    /\ generation \in [Tabs -> Nat \cup {NoGeneration}]
    /\ pending \in [Tabs -> Delta]
    /\ blocked \in [Tabs -> BOOLEAN]
    /\ recovered \in [Tabs -> BOOLEAN]
    /\ problem \in [Tabs -> {"none", "saving", "recovered", "error"}]
    /\ chain \in [Tabs -> Seq(Call)]
    /\ shown \in [Tabs -> State]
    /\ replacing \in [Tabs -> BOOLEAN]
    /\ epoch \in Nat /\ edits \in Nat /\ merges \in Nat
    /\ faults \in Nat /\ damage \in Nat
    /\ base \in [Tabs -> State]
    /\ madeUnder \in [Tabs -> Nat \cup {NoGeneration}]
    /\ seen \in [Tabs -> [Keys -> SUBSET Text]]
    /\ behind \in [Tabs -> SUBSET Keys]

\* v is the record b with the changes p, or has them without a lesson of it: a
\* record may lack one, but its changes never take one away.
Tracks(v, b, p) ==
    LET now == ApplyProgressChanges(b, p) IN
    /\ v.notes = now.notes /\ v.checks = now.checks
    /\ v.focusSeconds = now.focusSeconds /\ v.goal = now.goal
    /\ v.completed \subseteq now.completed

\* Nothing a tab holds can be lost, whichever of its writes failed on the way:
\* its view is what storage held when the tab last read or wrote it, plus its
\* pending changes, and so is the page, but for the texts a sync merge brought
\* past it.  Until the sync client has saved a merge, the page shows exactly that.
ShownIsSavedOrPending ==
    \A t \in Tabs : open[t] =>
        LET now == ApplyProgressChanges(base[t], pending[t]) IN
        /\ Tracks(view[t], base[t], pending[t])
        /\ \A k \in Keys \ behind[t] : shown[t].notes[k] = now.notes[k]
        /\ merges = 0 => shown[t] = now

\* The status line is honest: a tab with unsaved changes says that it is saving
\* or that it failed, and it says that it is saving only while a write is due.
StatusLineIsHonest ==
    \A t \in Tabs : open[t] =>
        /\ HasChanges(t) => problem[t] \in {"saving", "error"}
        /\ problem[t] = "saving" => chain[t] # << >>

\* No text is replaced in the saved record except by a tab whose page had that
\* very text on screen, or was left behind at that text by a sync merge, which the
\* page's next save takes back.  (README: conflicting text edits are stopped.)
NoSilentOverwrite ==
    [][\A k \in Keys :
          /\ Valid(main) /\ Valid(main') /\ epoch' = epoch
          /\ main'.state.notes[k] # main.state.notes[k]
          => \E t \in Tabs : /\ HasChanges(t) /\ pending'[t] = NoChanges
                             /\ main.state.notes[k] \in seen[t][k] \/ k \in behind[t]]_vars

\* Work done before an import never reaches the imported record: changes are
\* merged only into a record of the generation they were made under, or by a tab
\* that had read nothing when they were made, and the generation stays.
\* (progress-store.test.mjs: "stale tabs cannot undo it".)
ImportFence ==
    [][\A t \in Tabs :
          HasChanges(t) /\ pending'[t] = NoChanges /\ open'[t] /\ epoch' = epoch
          => /\ madeUnder[t] \in {LatestGeneration, NoGeneration}
             /\ main'.generation = LatestGeneration]_vars

\* Practice is neither lost nor repeated by a failed, refused or retried save:
\* when a call ends and the tab lives, what was stored plus what was pending is
\* still stored or pending, plus what the call itself credits.  (A count that
\* saves of several tabs took below zero is read as zero.)
PracticeIsConserved ==
    [][\A t \in Tabs :
          /\ open[t] /\ open'[t] /\ chain[t] # << >> /\ chain'[t] = Tail(chain[t])
          /\ Valid(main) /\ Valid(main') /\ epoch' = epoch
          /\ main.state.focusSeconds >= 0
          => main'.state.focusSeconds + pending'[t].focusSeconds
               - main.state.focusSeconds - pending[t].focusSeconds \in Credit(t)]_vars

HasCopy == \E slot \in {main, backup, imported} : Valid(slot)

\* A record damaged beyond recovery is never written over by a save; only an
\* import replaces it.  (progress-store.test.mjs: "unrecoverable data is not
\* overwritten by automatic saves".)
CorruptIsNotOverwritten ==
    [][main = Damaged /\ ~HasCopy /\ main' # main => epoch' = epoch + 1]_vars

\* Apart from damage from outside and an import that fails half-way, no step
\* destroys the last copy of the learner's progress that can be read.
SavingKeepsACopy ==
    [][\/ Damage
       \/ \E t \in Tabs : ReplaceQuota(t) \/ ReplaceCrash(t)
       \/ HasCopy => HasCopy']_vars

\* The same of every step of the program.  (progress-store.js:155: "so import
\* cannot erase the only remaining copy".)
ImportKeepsACopy == [][Damage \/ (HasCopy => HasCopy')]_vars

\* Saves are not starved: once storage works, changes with a call in the chain
\* are saved, unless the tab closes or they may not be saved at all.
Unsaveable(t) == \/ blocked[t] \/ Corrupt
                 \/ FlushGeneration(t) # LatestGeneration
                 \/ Conflicts(LatestState, pending[t])

ChangesAreSaved ==
    \A t \in Tabs :
        open[t] /\ HasChanges(t) /\ chain[t] # << >> /\ faults = MaxFaults
        ~> ~open[t] \/ ~HasChanges(t) \/ Unsaveable(t)

\* The saved record behaves as SharedRecord says.
SR == INSTANCE SharedRecord WITH record <- main, synced <- merges > 0
ImplementsSharedRecord == SR!Spec
=============================================================================
