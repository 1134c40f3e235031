------------------------- MODULE ProgressStoreProofs -------------------------
(***************************************************************************)
(* Theorems about ProgressStore for any set of tabs, keys, texts, lessons, *)
(* steps, goals and imports, and any bounds.                               *)
(***************************************************************************)
EXTENDS ProgressStore, MergeLemmas

\* What a read returns is a record under a generation (read()).
LEMMA ReadType ==
    ASSUME TypeOK
    PROVE  /\ Source \in Slot
           /\ LatestState \in State
           /\ LatestGeneration \in Nat
           /\ \A t \in Tabs : RecoveredByRead(t) \in BOOLEAN
<1>1. Source \in Slot
  BY FreshStateType DEF TypeOK, Source, Absent, Slot, Legacy
<1>2. LatestState \in State
  BY <1>1, FreshStateType, SanitizeType DEF LatestState, Slot
<1>3. LatestGeneration \in Nat
  BY <1>1 DEF LatestGeneration, Slot, Legacy
<1>4. ASSUME NEW t \in Tabs PROVE RecoveredByRead(t) \in BOOLEAN
  BY DEF RecoveredByRead, TypeOK, Valid
<1>5. QED
  BY <1>1, <1>2, <1>3, <1>4

\* A flush keeps the generation of a tab a generation (flush()).
LEMMA FlushGenerationType ==
    ASSUME TypeOK, NEW t \in Tabs
    PROVE  FlushGeneration(t) \in Nat
BY ReadType DEF FlushGeneration, TypeOK

\* What a flush stores is a record, and so is the copy it keeps.
LEMMA FlushedType ==
    ASSUME TypeOK, NEW t \in Tabs, NEW credit \in {0, 1}
    PROVE  /\ FlushedState(t, credit) \in State
           /\ BackupCopy(t, FlushedState(t, credit)) \in Slot
           /\ Saved(FlushedState(t, credit), FlushGeneration(t)) \in Slot
<1> DEFINE merged == ApplyProgressChanges(LatestState, pending[t])
<1>1. merged \in State
  BY ReadType, ApplyType DEF TypeOK
<1>2. FlushedState(t, credit) \in State
  BY <1>1 DEF FlushedState, State
<1>3. Saved(FlushedState(t, credit), FlushGeneration(t)) \in Slot
  BY <1>2, FlushGenerationType DEF Saved, Slot
<1>4. QED
  BY <1>2, <1>3, ReadType DEF BackupCopy

\* What a flush may credit is nothing or some practice (focus()).
LEMMA CreditType == ASSUME NEW t \in Tabs PROVE Credit(t) \subseteq {0, 1}
BY DEF Credit

\* The rest of a chain is a chain.
LEMMA FinishType ==
    ASSUME TypeOK, NEW t \in Tabs, chain[t] # << >>
    PROVE  /\ Head(chain[t]) \in Call
           /\ [chain EXCEPT ![t] = Tail(@)] \in [Tabs -> Seq(Call)]
           /\ Finish(t) => /\ chain' \in [Tabs -> Seq(Call)]
                           /\ replacing' \in [Tabs -> BOOLEAN]
<1>1. /\ Head(chain[t]) \in Call
      /\ [chain EXCEPT ![t] = Tail(@)] \in [Tabs -> Seq(Call)]
  BY DEF TypeOK
<1> DEFINE still == replacing[t] /\ Head(chain[t]).op # "replace"
<1>2. still \in BOOLEAN
  OBVIOUS
<1> HIDE DEF still
<1>3. [replacing EXCEPT ![t] = still] \in [Tabs -> BOOLEAN]
  BY <1>2 DEF TypeOK
<1>4. QED
  BY <1>1, <1>3 DEF Finish, still

\* Showing a record keeps the types.
LEMMA ShowsType ==
    ASSUME TypeOK, NEW t \in Tabs, NEW s \in State, Shows(t, s)
    PROVE  /\ shown' \in [Tabs -> State]
           /\ seen' \in [Tabs -> [Keys -> SUBSET Text]]
BY DEF TypeOK, Shows, State

\* So does taking a record as the view (publish()).
LEMMA SettlesType ==
    ASSUME TypeOK, NEW t \in Tabs, NEW next \in State, NEW state \in State,
           Settles(t, next, state)
    PROVE  /\ view' \in [Tabs -> State] /\ base' \in [Tabs -> State]
           /\ shown' \in [Tabs -> State]
           /\ seen' \in [Tabs -> [Keys -> SUBSET Text]]
           /\ behind' \in [Tabs -> SUBSET Keys]
BY ShowsType DEF TypeOK, Settles

\* What the page makes of a published record is a record (onChange()).
LEMMA FollowedType ==
    ASSUME TypeOK, NEW t \in Tabs, NEW next \in State, NEW state \in Followed(t, next)
    PROVE  state \in State
<1>1. view[t] \in State /\ shown[t] \in State
  BY DEF TypeOK
<1>2. ApplyProgressChanges(next, ProgressChanges(view[t], shown[t])) \in State
  BY <1>1, ChangesType, ApplyType
<1>3. QED
  BY <1>1, <1>2 DEF Followed

\* Publishing keeps the types.
LEMMA PublishType ==
    ASSUME TypeOK, NEW t \in Tabs, NEW next \in State, Publish(t, next)
    PROVE  /\ view' \in [Tabs -> State] /\ base' \in [Tabs -> State]
           /\ shown' \in [Tabs -> State]
           /\ seen' \in [Tabs -> [Keys -> SUBSET Text]]
           /\ behind' \in [Tabs -> SUBSET Keys]
<1>1. PICK state \in Followed(t, next) : Settles(t, next, state)
  BY DEF Publish
<1>2. QED
  BY <1>1, FollowedType, SettlesType

\* A closed tab is a tab (the page is gone).
LEMMA ClosedType ==
    ASSUME TypeOK, NEW t \in Tabs, ClosedTab(t),
           main' \in Slot, backup' \in Slot, imported' \in Slot,
           epoch' \in Nat, edits' \in Nat, merges' \in Nat, faults' \in Nat, damage' \in Nat
    PROVE  TypeOK'
BY FreshStateType, NoChangesType DEF TypeOK, ClosedTab

\* A save keeps every variable in its type but the page's (save()).
LEMMA SaveRecordType ==
    ASSUME TypeOK, NEW t \in Tabs, NEW next \in State, SaveRecord(t, next)
    PROVE  /\ pending' \in [Tabs -> Delta] /\ view' \in [Tabs -> State]
           /\ chain' \in [Tabs -> Seq(Call)]
           /\ problem' \in [Tabs -> {"none", "saving", "recovered", "error"}]
           /\ madeUnder' \in [Tabs -> Nat \cup {NoGeneration}]
<1>1. Pushed(t, next) \in Delta
  BY ChangesType, ComposeType DEF Pushed, TypeOK
<1>2. pending' \in [Tabs -> Delta] /\ view' \in [Tabs -> State]
  BY <1>1 DEF SaveRecord, TypeOK
<1> DEFINE call == [op |-> "flush", with |-> FreshState]
<1>3. call \in Call
  BY DEF Call
<1>4. /\ chain' = chain \/ chain' = [chain EXCEPT ![t] = Append(@, call)]
      /\ problem' = problem \/ Reports(t, "saving")
  BY DEF SaveRecord
<1> HIDE DEF call
<1>5. Append(chain[t], call) \in Seq(Call)
  BY <1>3 DEF TypeOK
<1>6. chain' \in [Tabs -> Seq(Call)]
  BY <1>4, <1>5 DEF TypeOK
<1>7. problem' \in [Tabs -> {"none", "saving", "recovered", "error"}]
  BY <1>4 DEF TypeOK, Reports
<1>8. madeUnder' \in [Tabs -> Nat \cup {NoGeneration}]
  BY DEF SaveRecord, TypeOK
<1>9. QED
  BY <1>2, <1>6, <1>7, <1>8

\* One step of a tab keeps every variable in its type.
LEMMA TabStepType ==
    ASSUME TypeOK, NEW t \in Tabs, TabStep(t)
    PROVE  TypeOK'
<1> USE DEF bounds, slots, page, history
<1>1. CASE Open(t)
  BY <1>1, ReadType, SettlesType DEF Open, TypeOK, Reports, ReadNotice
<1>2. CASE OpenUnread(t)
  BY <1>2, FreshStateType, SettlesType DEF OpenUnread, TypeOK, Reports, Corrupt, Valid
<1>3. CASE Close(t)
  BY <1>3, ClosedType DEF Close, TypeOK
<1>4. CASE Save(t)
  <2>1. PICK next \in Edits(shown[t]) \cup {shown[t]} :
          /\ edits' \in {edits, edits + 1}
          /\ SaveRecord(t, next) /\ Shows(t, next)
          /\ UNCHANGED <<merges, behind>>
    BY <1>4 DEF Save
  <2>2. next \in State
    BY EditsType DEF TypeOK
  <2>3. /\ pending' \in [Tabs -> Delta] /\ view' \in [Tabs -> State]
        /\ chain' \in [Tabs -> Seq(Call)]
        /\ problem' \in [Tabs -> {"none", "saving", "recovered", "error"}]
        /\ madeUnder' \in [Tabs -> Nat \cup {NoGeneration}]
    BY <2>1, <2>2, SaveRecordType
  <2>4. shown' \in [Tabs -> State] /\ seen' \in [Tabs -> [Keys -> SUBSET Text]]
    BY <2>1, <2>2, ShowsType
  <2>5. edits' \in Nat
    BY <2>1 DEF TypeOK
  <2>6. UNCHANGED <<slots, open, generation, blocked, recovered, replacing,
                    epoch, faults, damage, base, merges, behind>>
    BY <2>1 DEF SaveRecord
  <2>7. QED
    BY <2>3, <2>4, <2>5, <2>6 DEF TypeOK
<1>4a. CASE SaveMerged(t)
  <2>1. PICK next \in Merges :
          /\ SaveRecord(t, next)
          /\ behind' = [behind EXCEPT ![t] =
                         @ \cup {k \in Keys : next.notes[k] # shown[t].notes[k]}]
    BY <1>4a DEF SaveMerged
  <2>2. next \in State
    BY StoreAssumption
  <2>3. merges' \in Nat /\ shown' = shown /\ seen' = seen /\ edits' = edits
    BY <1>4a DEF SaveMerged, TypeOK
  <2>4. QED
    BY <2>1, <2>2, <2>3, SaveRecordType DEF SaveRecord, TypeOK
<1>5. CASE Ask(t)
  BY <1>5 DEF Ask, TypeOK
<1>6. CASE Flush(t)
  <2>1. PICK credit \in Credit(t) :
          LET next == FlushedState(t, credit) IN
          /\ main' \in {main, Saved(next, FlushGeneration(t))}
          /\ backup' \in {backup, BackupCopy(t, next)}
          /\ pending' \in {pending, [pending EXCEPT ![t] = NoChanges]}
          /\ recovered' \in {[recovered EXCEPT ![t] = FALSE],
                            [recovered EXCEPT ![t] = RecoveredByRead(t)]}
          /\ Publish(t, next)
    BY <1>6 DEF Flush
  <2>2. credit \in {0, 1}
    BY CreditType
  <2>3. /\ main' \in Slot /\ backup' \in Slot
        /\ FlushedState(t, credit) \in State
    BY <2>1, <2>2, FlushedType DEF TypeOK
  <2>4. chain' \in [Tabs -> Seq(Call)] /\ replacing' \in [Tabs -> BOOLEAN]
    BY <1>6, FinishType DEF Flush, Flushing, Running
  <2>5. recovered' \in [Tabs -> BOOLEAN] /\ pending' \in [Tabs -> Delta]
    BY <2>1, ReadType, NoChangesType DEF TypeOK
  <2>6. QED
    BY <1>6, <2>1, <2>3, <2>4, <2>5, PublishType, FlushGenerationType
    DEF Flush, TypeOK, Reports
<1>7. CASE FlushRefused(t)
  BY <1>7, FinishType, ReadType, FlushGenerationType
  DEF FlushRefused, Flushing, Running, TypeOK, Reports
<1>8. CASE FlushQuota(t)
  <2>1. backup' \in Slot
    <3>1. PICK credit \in Credit(t) :
            backup' \in {backup, BackupCopy(t, FlushedState(t, credit))}
      BY <1>8 DEF FlushQuota
    <3>2. QED
      BY <3>1, CreditType, FlushedType DEF TypeOK
  <2>2. chain' \in [Tabs -> Seq(Call)] /\ replacing' \in [Tabs -> BOOLEAN]
    BY <1>8, FinishType DEF FlushQuota, Flushing, Running
  <2>3. /\ generation' \in [Tabs -> Nat \cup {NoGeneration}]
        /\ recovered' \in [Tabs -> BOOLEAN]
        /\ problem' \in [Tabs -> {"none", "saving", "recovered", "error"}]
        /\ faults' \in Nat
    BY <1>8, ReadType, FlushGenerationType DEF FlushQuota, TypeOK, Reports
  <2>4. UNCHANGED <<main, imported, open, view, pending, blocked, shown,
                    epoch, edits, merges, damage, history>>
    BY <1>8 DEF FlushQuota
  <2>5. QED
    BY <2>1, <2>2, <2>3, <2>4 DEF TypeOK
<1>9. CASE FlushCrash(t)
  <2>1. backup' \in Slot
    <3>1. PICK credit \in Credit(t) :
            backup' = BackupCopy(t, FlushedState(t, credit))
      BY <1>9 DEF FlushCrash
    <3>2. QED
      BY <3>1, CreditType, FlushedType
  <2>2. QED
    BY <1>9, <2>1, ClosedType DEF FlushCrash, TypeOK
<1>10. CASE Sync(t)
  BY <1>10, FinishType, ReadType, PublishType
  DEF Sync, Running, TypeOK, Reports, ReadNotice
<1>11. CASE Throws(t)
  BY <1>11, FinishType DEF Throws, Flushing, Running, TypeOK, Reports
<1>12. CASE Replace(t)
  <2>1. Head(chain[t]) \in Call /\ Head(chain[t]).op = "replace"
    BY <1>12, FinishType DEF Replace, Running
  <2>2. Head(chain[t]).with \in State
    BY <2>1, StoreAssumption DEF Call
  <2>3. Saved(Head(chain[t]).with, epoch + 1) \in Slot /\ KeptBeforeImport \in Slot
    BY <2>2 DEF Saved, Slot, TypeOK, KeptBeforeImport
  <2>4. /\ view' \in [Tabs -> State] /\ base' \in [Tabs -> State]
        /\ shown' \in [Tabs -> State]
        /\ seen' \in [Tabs -> [Keys -> SUBSET Text]]
        /\ behind' \in [Tabs -> SUBSET Keys]
    BY <1>12, <2>2, SettlesType, PublishType DEF Replace
  <2>5. chain' \in [Tabs -> Seq(Call)] /\ replacing' \in [Tabs -> BOOLEAN]
    BY <1>12, FinishType DEF Replace, Running
  <2>6. main' \in Slot /\ imported' \in Slot
    BY <1>12, <2>3 DEF Replace
  <2>7. /\ generation' \in [Tabs -> Nat \cup {NoGeneration}]
        /\ pending' \in [Tabs -> Delta]
        /\ blocked' \in [Tabs -> BOOLEAN] /\ recovered' \in [Tabs -> BOOLEAN]
        /\ problem' \in [Tabs -> {"none", "saving", "recovered", "error"}]
        /\ epoch' \in Nat
    BY <1>12, NoChangesType DEF Replace, TypeOK, Reports
  <2>8. UNCHANGED <<backup, open, edits, merges, faults, damage, madeUnder>>
    BY <1>12 DEF Replace
  <2>9. QED
    BY <2>4, <2>5, <2>6, <2>7, <2>8 DEF TypeOK
<1>13. CASE ReplaceQuota(t)
  BY <1>13, FinishType
  DEF ReplaceQuota, KeptBeforeImport, Running, TypeOK, Reports
<1>14. CASE ReplaceCrash(t)
  BY <1>14, ClosedType DEF ReplaceCrash, KeptBeforeImport, TypeOK
<1>15. QED
  BY <1>1, <1>2, <1>3, <1>4, <1>5, <1>6, <1>7, <1>8, <1>9, <1>10, <1>11, <1>12,
     <1>13, <1>14, <1>4a DEF TabStep

\* Every step keeps every variable in its type.
LEMMA TypeStep == TypeOK /\ [Next]_vars => TypeOK'
<1> SUFFICES ASSUME TypeOK, [Next]_vars PROVE TypeOK'
  OBVIOUS
<1>1. CASE Damage
  BY <1>1, FreshStateType DEF Damage, TypeOK, Damaged, Slot, Legacy, tabs, page, history
<1>2. CASE \E t \in Tabs : TabStep(t)
  BY <1>2, TabStepType
<1>3. CASE UNCHANGED vars
  BY <1>3 DEF TypeOK, vars, slots, tabs, page, bounds, history
<1>4. QED
  BY <1>1, <1>2, <1>3 DEF Next

\* Every reachable state of the store is well typed.
THEOREM TypeCorrect == Spec => []TypeOK
<1>1. Init => TypeOK
  BY FreshStateType, NoChangesType
  DEF Init, TypeOK, Slot, Absent, Saved, Legacy, NoGeneration
<1>2. QED
  BY <1>1, TypeStep, PTL DEF Spec

-----------------------------------------------------------------------------

\* What a tab's history, its page and its pending changes have to do with each
\* other: the strengthening that makes the properties below inductive.
PageInv(t) ==
    /\ open[t] => \A k \in Keys : shown[t].notes[k] \in seen[t][k]
    /\ \A k \in Keys \ behind[t] :
         /\ shown[t].notes[k] = view[t].notes[k]
         /\ open[t] /\ pending[t].notes[k].changed =>
              pending[t].notes[k].before \in seen[t][k] /\ pending[t].notes[k].first \in seen[t][k]

\* ... and what is more until a sync merge is saved.
AloneInv(t) ==
    merges = 0 => /\ shown[t] = view[t]
                  /\ view[t] = ApplyProgressChanges(base[t], pending[t])
                  /\ pending[t].focusSeconds >= 0

TabInv(t) ==
    /\ ~open[t] => /\ pending[t] = NoChanges /\ generation[t] = NoGeneration
                   /\ view[t] = FreshState /\ base[t] = FreshState
                   /\ shown[t] = FreshState /\ behind[t] = {}
    /\ Tracks(view[t], base[t], pending[t])
    /\ ~pending[t].counted => pending[t].focusSeconds = 0
    /\ HasChanges(t) => madeUnder[t] \in {generation[t], NoGeneration}
    /\ PageInv(t)
    /\ AloneInv(t)

StoreInv == TypeOK /\ \A t \in Tabs : TabInv(t)

\* A list of changes extended by others is empty only if it was empty: changes of
\* a counter that add up to nothing are changes still.
LEMMA ComposeNothing ==
    ASSUME NEW p \in Delta, NEW d \in Delta, ~p.counted => p.focusSeconds = 0,
           Compose(p, d) = NoChanges
    PROVE  p = NoChanges
<1>1. ASSUME NEW k \in Keys PROVE p.notes[k] = NoTextEdit
  <2>1. Compose(p, d).notes[k] = NoTextEdit
    BY DEF NoChanges
  <2>2. Compose(p, d).notes[k] =
          IF ~d.notes[k].changed THEN p.notes[k]
          ELSE IF ~p.notes[k].changed THEN d.notes[k]
          ELSE [p.notes[k] EXCEPT !.value = d.notes[k].value]
    BY DEF Compose
  <2>3. p.notes[k] \in TextEdit /\ d.notes[k] \in TextEdit
    BY DEF Delta
  <2>4. [p.notes[k] EXCEPT !.value = d.notes[k].value].changed = p.notes[k].changed
    BY <2>3 DEF TextEdit
  <2>5. NoTextEdit.changed = FALSE
    BY DEF NoTextEdit
  <2>6. QED
    BY <2>1, <2>2, <2>4, <2>5
<1>2. p.notes = NoChanges.notes
  BY <1>1 DEF Delta, NoChanges
<1>3. /\ p.completed = {} /\ p.checked = {} /\ p.unchecked = {}
      /\ p.counted = FALSE /\ p.focusSeconds = 0 /\ p.goal = NoGoal
  <2>1. /\ Compose(p, d).completed = {} /\ Compose(p, d).checked = {}
        /\ Compose(p, d).unchecked = {} /\ ~Compose(p, d).counted
        /\ Compose(p, d).goal = NoGoal
    BY DEF NoChanges
  <2>2. p.completed = {} /\ p.checked = {} /\ p.unchecked = {}
    BY <2>1 DEF Compose, Delta
  <2>3. p.counted = FALSE /\ p.focusSeconds = 0
    BY <2>1 DEF Compose, Delta
  <2>4. p.goal = NoGoal
    BY <2>1 DEF Compose, Delta
  <2>5. QED
    BY <2>2, <2>3, <2>4
<1>4. QED
  BY <1>2, <1>3 DEF Delta, NoChanges

\* A record tracks itself.
LEMMA TracksNothing == ASSUME NEW s \in State PROVE Tracks(s, s, NoChanges)
BY ApplyNothing DEF Tracks

\* Two records that are the same differ in nothing.
LEMMA ChangesNothing == ASSUME NEW s \in State PROVE ProgressChanges(s, s) = NoChanges
<1>1. /\ s.completed \ s.completed = {} /\ s.checks \ s.checks = {}
      /\ s.focusSeconds - s.focusSeconds = 0
      /\ (s.focusSeconds # s.focusSeconds) = FALSE
  BY DEF State
<1>2. QED
  BY <1>1 DEF ProgressChanges, NoChanges

\* Whatever record is saved, it is tracked by the changes it adds (save()).
LEMMA PushTracks ==
    ASSUME NEW b \in State, NEW p \in Delta, NEW v \in State, NEW next \in State,
           Tracks(v, b, p)
    PROVE  Tracks(next, b, Compose(p, ProgressChanges(v, next)))
<1> DEFINE d == ProgressChanges(v, next)
           all == Compose(p, d)
           r == ApplyProgressChanges(b, all)
<1>1. d \in Delta
  BY ChangesType
<1>2. r.notes = next.notes
  <2>1. ASSUME NEW k \in Keys PROVE r.notes[k] = next.notes[k]
    <3>1. v.notes[k] = IF p.notes[k].changed THEN p.notes[k].value ELSE b.notes[k]
      BY DEF Tracks, ApplyProgressChanges
    <3>2. r.notes[k] = IF all.notes[k].changed THEN all.notes[k].value ELSE b.notes[k]
      BY DEF ApplyProgressChanges
    <3>3. all.notes[k] = IF ~d.notes[k].changed THEN p.notes[k]
                         ELSE IF ~p.notes[k].changed THEN d.notes[k]
                         ELSE [p.notes[k] EXCEPT !.value = d.notes[k].value]
      BY DEF Compose
    <3>4. CASE v.notes[k] = next.notes[k]
      <4>1. ~d.notes[k].changed
        BY <3>4 DEF ProgressChanges, NoTextEdit
      <4> HIDE DEF d, all, r
      <4>2. QED
        BY <3>1, <3>2, <3>3, <3>4, <4>1
    <3>5. CASE v.notes[k] # next.notes[k]
      <4>1. d.notes[k].changed /\ d.notes[k].value = next.notes[k]
        BY <3>5 DEF ProgressChanges
      <4>2. p.notes[k] \in TextEdit
        BY DEF Delta
      <4> HIDE DEF d, all, r
      <4>3. QED
        BY <3>2, <3>3, <4>1, <4>2 DEF TextEdit
    <3>6. QED
      BY <3>4, <3>5
  <2>2. r \in State
    BY <1>1, ComposeType, ApplyType
  <2> HIDE DEF r
  <2>3. QED
    BY <2>1, <2>2 DEF State
<1>3. r.checks = next.checks
  <2>1. v.checks = (b.checks \cup p.checked) \ p.unchecked
    BY DEF Tracks, ApplyProgressChanges
  <2>2. r.checks = (b.checks \cup ((p.checked \ d.unchecked) \cup d.checked))
                     \ ((p.unchecked \ d.checked) \cup d.unchecked)
    BY DEF ApplyProgressChanges, Compose
  <2>3. d.checked = next.checks \ v.checks /\ d.unchecked = v.checks \ next.checks
    BY DEF ProgressChanges
  <2> HIDE DEF d, all, r
  <2>4. QED
    BY <2>1, <2>2, <2>3
<1>4. r.focusSeconds = next.focusSeconds
  <2>1. v.focusSeconds = b.focusSeconds + p.focusSeconds
    BY DEF Tracks, ApplyProgressChanges
  <2>2. r.focusSeconds = b.focusSeconds + (p.focusSeconds + (next.focusSeconds - v.focusSeconds))
    BY DEF ApplyProgressChanges, Compose, ProgressChanges
  <2>3. /\ b.focusSeconds \in Int /\ p.focusSeconds \in Int
        /\ next.focusSeconds \in Int /\ v.focusSeconds \in Int
    BY DEF State, Delta
  <2> HIDE DEF r
  <2>4. QED
    BY <2>1, <2>2, <2>3
<1>5. r.goal = next.goal
  <2>1. v.goal = IF p.goal = NoGoal THEN b.goal ELSE p.goal
    BY DEF Tracks, ApplyProgressChanges
  <2>2. d.goal = IF v.goal = next.goal THEN NoGoal ELSE next.goal
    BY DEF ProgressChanges
  <2>3. r.goal = IF all.goal = NoGoal THEN b.goal ELSE all.goal
    BY DEF ApplyProgressChanges
  <2>4. all.goal = IF d.goal = NoGoal THEN p.goal ELSE d.goal
    BY DEF Compose
  <2>5. next.goal # NoGoal
    BY MergeAssumption DEF State
  <2> HIDE DEF d, all, r
  <2>6. QED
    BY <2>1, <2>2, <2>3, <2>4, <2>5
<1>6. next.completed \subseteq r.completed
  BY DEF Tracks, ApplyProgressChanges, Compose, ProgressChanges
<1>7. QED
  BY <1>2, <1>3, <1>4, <1>5, <1>6 DEF Tracks

\* A step of one tab leaves the others' records, changes and pages alone.
LEMMA OthersUntouched ==
    ASSUME TypeOK, NEW t \in Tabs, NEW u \in Tabs \ {t}, TabStep(t), TabInv(u)
    PROVE  TabInv(u)'
<1>1. /\ open'[u] = open[u] /\ view'[u] = view[u] /\ generation'[u] = generation[u]
      /\ pending'[u] = pending[u] /\ shown'[u] = shown[u] /\ base'[u] = base[u]
      /\ madeUnder'[u] = madeUnder[u] /\ seen'[u] = seen[u] /\ behind'[u] = behind[u]
  BY DEF TabStep, TypeOK, Open, OpenUnread, Close, Save, SaveMerged, SaveRecord, Ask, Flush,
         FlushRefused, FlushQuota, FlushCrash, Sync, Throws, Replace, ReplaceQuota,
         ReplaceCrash, ClosedTab, Publish, Settles, Shows, history, slots, bounds
<1>2. merges' = 0 => merges = 0
  BY DEF TabStep, TypeOK, Open, OpenUnread, Close, Save, SaveMerged, Ask, Flush, FlushRefused,
         FlushQuota, FlushCrash, Sync, Throws, Replace, ReplaceQuota, ReplaceCrash, bounds
<1>3. PageInv(u)' /\ AloneInv(u)'
  BY <1>1, <1>2 DEF TabInv, PageInv, AloneInv
<1>4. QED
  BY <1>1, <1>3 DEF TabInv, HasChanges

\* A tab that has just read or written a record, with nothing pending.
LEMMA SettledTab ==
    ASSUME TypeOK, NEW t \in Tabs, NEW next \in State, NEW state \in State,
           Settles(t, next, state), merges' = 0 => state = next,
           pending'[t] = NoChanges, open'[t]
    PROVE  TabInv(t)'
<1>1. view'[t] = next /\ base'[t] = next /\ shown'[t] = state
  BY DEF TypeOK, Settles, Shows
<1>2. \A k \in Keys : state.notes[k] \in seen'[t][k]
  BY DEF TypeOK, Settles, Shows
<1>3. behind'[t] = {k \in Keys : state.notes[k] # next.notes[k]}
  BY DEF TypeOK, Settles
<1>4. ~(HasChanges(t)')
  BY DEF HasChanges
<1>5. \A k \in Keys : ~NoChanges.notes[k].changed
  BY DEF NoChanges, NoTextEdit
<1>6. NoChanges.focusSeconds = 0
  BY DEF NoChanges
<1>7. PageInv(t)'
  BY <1>1, <1>2, <1>3, <1>5 DEF PageInv
<1>8. AloneInv(t)'
  BY <1>1, <1>6, ApplyNothing DEF AloneInv
<1>9. Tracks(view'[t], base'[t], pending'[t])
  BY <1>1, TracksNothing
<1>10. QED
  BY <1>4, <1>6, <1>7, <1>8, <1>9 DEF TabInv

\* A tab to which a record has been published, with nothing pending.
LEMMA PublishedTab ==
    ASSUME TypeOK, NEW t \in Tabs, TabInv(t), NEW next \in State, Publish(t, next),
           merges' = merges, pending'[t] = NoChanges, open'[t]
    PROVE  TabInv(t)'
<1>1. PICK state \in Followed(t, next) : Settles(t, next, state)
  BY DEF Publish
<1>2. state \in State
  BY <1>1, FollowedType
<1>3. ASSUME merges = 0 PROVE state = next
  <2>1. shown[t] = view[t] /\ view[t] \in State
    BY <1>3 DEF TabInv, AloneInv, TypeOK
  <2>2. ApplyProgressChanges(next, ProgressChanges(view[t], shown[t])) = next
    BY <2>1, ChangesNothing, ApplyNothing
  <2>3. QED
    BY <2>1, <2>2 DEF Followed
<1>4. QED
  BY <1>1, <1>2, <1>3, SettledTab

\* A closed tab has nothing to keep.
LEMMA ClosedInv ==
    ASSUME TypeOK, NEW t \in Tabs, ClosedTab(t)
    PROVE  TabInv(t)'
<1>1. /\ ~open'[t] /\ pending'[t] = NoChanges /\ generation'[t] = NoGeneration
      /\ view'[t] = FreshState /\ base'[t] = FreshState
      /\ shown'[t] = FreshState /\ behind'[t] = {}
  BY DEF ClosedTab, TypeOK
<1>2. NoChanges.focusSeconds = 0
  BY DEF NoChanges
<1>3. AloneInv(t)'
  BY <1>1, <1>2, ApplyNothing, FreshStateType DEF AloneInv
<1>4. PageInv(t)'
  BY <1>1 DEF PageInv
<1>5. Tracks(view'[t], base'[t], pending'[t])
  BY <1>1, TracksNothing, FreshStateType
<1>6. QED
  BY <1>1, <1>2, <1>3, <1>4, <1>5 DEF TabInv, HasChanges

\* A tab whose record, changes, page and history stay as they are.
LEMMA IdleTab ==
    ASSUME NEW t \in Tabs, TabInv(t), open[t],
           UNCHANGED <<open, view, pending, shown, merges, base, madeUnder, seen, behind>>,
           generation'[t] = generation[t] \/ generation[t] = NoGeneration
    PROVE  TabInv(t)'
<1>1. PageInv(t)' /\ AloneInv(t)'
  BY DEF TabInv, PageInv, AloneInv
<1>2. QED
  BY <1>1 DEF TabInv, HasChanges

\* What a save does to a tab, the page apart (save()).
LEMMA SaveRecordInv ==
    ASSUME TypeOK, NEW t \in Tabs, TabInv(t), NEW next \in State, SaveRecord(t, next)
    PROVE  /\ open[t] /\ open'[t]
           /\ view'[t] = next /\ base'[t] = base[t]
           /\ pending'[t] = Compose(pending[t], ProgressChanges(view[t], next))
           /\ Tracks(view'[t], base'[t], pending'[t])
           /\ ~pending'[t].counted => pending'[t].focusSeconds = 0
           /\ HasChanges(t)' => madeUnder'[t] \in {generation'[t], NoGeneration}
<1>1. /\ open[t] /\ view'[t] = next /\ base'[t] = base[t] /\ open'[t]
      /\ generation'[t] = generation[t]
      /\ pending'[t] = Compose(pending[t], ProgressChanges(view[t], next))
      /\ madeUnder' = IF HasChanges(t) THEN madeUnder
                      ELSE [madeUnder EXCEPT ![t] = generation[t]]
  BY DEF SaveRecord, Pushed, TypeOK
<1>2. base[t] \in State /\ view[t] \in State /\ pending[t] \in Delta
  BY DEF TypeOK
<1>3. Tracks(view'[t], base'[t], pending'[t])
  BY <1>1, <1>2, PushTracks DEF TabInv
<1>4. ~pending'[t].counted => pending'[t].focusSeconds = 0
  <2> DEFINE d == ProgressChanges(view[t], next)
  <2>1. d.counted = (view[t].focusSeconds # next.focusSeconds)
        /\ d.focusSeconds = next.focusSeconds - view[t].focusSeconds
    BY DEF ProgressChanges
  <2>2. pending'[t].counted = (pending[t].counted \/ d.counted)
        /\ pending'[t].focusSeconds = pending[t].focusSeconds + d.focusSeconds
    BY <1>1 DEF Compose
  <2>3. ~pending[t].counted => pending[t].focusSeconds = 0
    BY DEF TabInv
  <2>4. /\ view[t].focusSeconds \in Int /\ next.focusSeconds \in Int
        /\ pending[t].focusSeconds \in Int /\ pending[t].counted \in BOOLEAN
    BY <1>2 DEF State, Delta
  <2> HIDE DEF d
  <2>5. SUFFICES ASSUME ~pending'[t].counted PROVE pending'[t].focusSeconds = 0
    OBVIOUS
  <2>6. ~pending[t].counted /\ ~d.counted
    BY <2>2, <2>5
  <2>7. view[t].focusSeconds = next.focusSeconds
    BY <2>1, <2>6
  <2>8. QED
    BY <2>1, <2>2, <2>3, <2>4, <2>6, <2>7
<1>5. HasChanges(t)' => madeUnder'[t] \in {generation'[t], NoGeneration}
  <2>1. CASE HasChanges(t)
    BY <1>1, <2>1 DEF TabInv
  <2>2. CASE ~HasChanges(t)
    BY <1>1, <2>2 DEF TypeOK
  <2>3. QED
    BY <2>1, <2>2
<1>6. QED
  BY <1>1, <1>3, <1>4, <1>5

\* An edit of the page's record, joined to the changes already pending.
LEMMA SaveInv ==
    ASSUME TypeOK, NEW t \in Tabs, TabInv(t), Save(t)
    PROVE  TabInv(t)'
<1>1. PICK next \in Edits(shown[t]) \cup {shown[t]} :
        SaveRecord(t, next) /\ Shows(t, next) /\ UNCHANGED <<merges, behind>>
  BY DEF Save
<1> DEFINE d == ProgressChanges(view[t], next)
<1>2. /\ shown[t] \in State /\ view[t] \in State /\ base[t] \in State
      /\ pending[t] \in Delta
  BY DEF TypeOK
<1>3. /\ next \in State /\ shown[t].completed \subseteq next.completed
      /\ shown[t].focusSeconds <= next.focusSeconds
  <2>1. CASE next = shown[t]
    BY <1>2, <2>1 DEF State
  <2>2. CASE next \in Edits(shown[t])
    BY <1>2, <2>2, EditsType
  <2>3. QED
    BY <2>1, <2>2
<1>4. /\ open[t] /\ open'[t] /\ view'[t] = next /\ base'[t] = base[t]
      /\ pending'[t] = Compose(pending[t], d)
      /\ Tracks(view'[t], base'[t], pending'[t])
      /\ ~pending'[t].counted => pending'[t].focusSeconds = 0
      /\ HasChanges(t)' => madeUnder'[t] \in {generation'[t], NoGeneration}
  BY <1>1, <1>3, SaveRecordInv
<1>5. /\ shown'[t] = next /\ behind'[t] = behind[t]
      /\ \A k \in Keys : seen'[t][k] = seen[t][k] \cup {next.notes[k]}
  BY <1>1 DEF Shows, TypeOK
<1>6. ASSUME NEW k \in Keys \ behind[t], pending'[t].notes[k].changed
      PROVE  pending'[t].notes[k].before \in seen'[t][k] /\ pending'[t].notes[k].first \in seen'[t][k]
  <2>1. /\ view[t].notes[k] \in seen[t][k]
        /\ pending[t].notes[k].changed =>
             pending[t].notes[k].before \in seen[t][k] /\ pending[t].notes[k].first \in seen[t][k]
    BY <1>4 DEF TabInv, PageInv
  <2>2. d.notes[k] = IF view[t].notes[k] = next.notes[k] THEN NoTextEdit
                     ELSE [changed |-> TRUE, before |-> view[t].notes[k],
                           first |-> next.notes[k], value |-> next.notes[k]]
    BY DEF ProgressChanges
  <2>3. pending'[t].notes[k] =
          IF ~d.notes[k].changed THEN pending[t].notes[k]
          ELSE IF ~pending[t].notes[k].changed THEN d.notes[k]
          ELSE [pending[t].notes[k] EXCEPT !.value = d.notes[k].value]
    BY <1>4 DEF Compose
  <2>4. pending[t].notes[k] \in TextEdit
    BY <1>2 DEF Delta
  <2> HIDE DEF d
  <2>5. CASE ~d.notes[k].changed
    BY <1>5, <1>6, <2>1, <2>3, <2>5
  <2>6. CASE d.notes[k].changed /\ ~pending[t].notes[k].changed
    BY <1>5, <2>1, <2>2, <2>3, <2>6 DEF NoTextEdit
  <2>7. CASE d.notes[k].changed /\ pending[t].notes[k].changed
    BY <1>5, <2>1, <2>3, <2>4, <2>7 DEF TextEdit
  <2>8. QED
    BY <2>5, <2>6, <2>7
<1>7. PageInv(t)'
  <2>1. \A k \in Keys : shown'[t].notes[k] \in seen'[t][k]
    BY <1>5
  <2>2. QED
    BY <1>4, <1>5, <1>6, <2>1 DEF PageInv
<1>8. AloneInv(t)'
  <2> SUFFICES ASSUME merges = 0
               PROVE  /\ shown'[t] = view'[t]
                      /\ view'[t] = ApplyProgressChanges(base'[t], pending'[t])
                      /\ pending'[t].focusSeconds >= 0
    BY <1>1 DEF AloneInv
  <2>1. /\ shown[t] = view[t] /\ view[t] = ApplyProgressChanges(base[t], pending[t])
        /\ pending[t].focusSeconds >= 0
    BY DEF TabInv, AloneInv
  <2>2. view'[t] = ApplyProgressChanges(base'[t], pending'[t])
    BY <1>2, <1>3, <1>4, <2>1, ComposeApply
  <2>3. pending'[t].focusSeconds
          = pending[t].focusSeconds + (next.focusSeconds - view[t].focusSeconds)
    BY <1>4 DEF Compose, ProgressChanges
  <2>4. /\ pending[t].focusSeconds \in Int /\ next.focusSeconds \in Int
        /\ view[t].focusSeconds \in Int
    BY <1>2, <1>3 DEF Delta, State
  <2>5. pending'[t].focusSeconds >= 0
    BY <1>3, <2>1, <2>3, <2>4
  <2>6. QED
    BY <1>4, <1>5, <2>2, <2>5
<1>9. QED
  BY <1>4, <1>7, <1>8 DEF TabInv

\* A sync merge saved past the page: where it brings another text, the page is
\* behind; elsewhere it leaves the text as it was.
LEMMA SaveMergedInv ==
    ASSUME TypeOK, NEW t \in Tabs, TabInv(t), SaveMerged(t)
    PROVE  TabInv(t)'
<1>1. PICK next \in Merges :
        /\ SaveRecord(t, next)
        /\ behind' = [behind EXCEPT ![t] =
                       @ \cup {k \in Keys : next.notes[k] # shown[t].notes[k]}]
  BY DEF SaveMerged
<1>2. /\ shown[t] \in State /\ view[t] \in State /\ next \in State
      /\ pending[t] \in Delta
  BY StoreAssumption DEF TypeOK
<1>3. /\ open[t] /\ open'[t] /\ view'[t] = next
      /\ pending'[t] = Compose(pending[t], ProgressChanges(view[t], next))
      /\ Tracks(view'[t], base'[t], pending'[t])
      /\ ~pending'[t].counted => pending'[t].focusSeconds = 0
      /\ HasChanges(t)' => madeUnder'[t] \in {generation'[t], NoGeneration}
  BY <1>1, <1>2, SaveRecordInv
<1>4. /\ shown'[t] = shown[t] /\ seen'[t] = seen[t]
      /\ behind'[t] = behind[t] \cup {k \in Keys : next.notes[k] # shown[t].notes[k]}
  BY <1>1 DEF SaveMerged, TypeOK
<1>5. ASSUME NEW k \in Keys \ behind'[t]
      PROVE  /\ next.notes[k] = shown[t].notes[k]
             /\ pending'[t].notes[k] = pending[t].notes[k]
  <2>1. k \in Keys \ behind[t] /\ next.notes[k] = shown[t].notes[k]
    BY <1>4
  <2>2. view[t].notes[k] = next.notes[k]
    BY <2>1 DEF TabInv, PageInv
  <2>3. ProgressChanges(view[t], next).notes[k] = NoTextEdit
    BY <2>2 DEF ProgressChanges
  <2>4. QED
    BY <1>3, <2>1, <2>3 DEF Compose, NoTextEdit
<1>6. PageInv(t)'
  <2>1. \A k \in Keys \ behind'[t] : k \in Keys \ behind[t]
    BY <1>4
  <2>2. QED
    BY <1>3, <1>4, <1>5, <2>1 DEF TabInv, PageInv
<1>7. AloneInv(t)'
  BY DEF SaveMerged, AloneInv, TypeOK
<1>8. QED
  BY <1>3, <1>6, <1>7 DEF TabInv

\* A flush leaves the tab with what it stored and nothing pending.
LEMMA FlushInv ==
    ASSUME TypeOK, NEW t \in Tabs, TabInv(t), Flush(t)
    PROVE  TabInv(t)'
<1>1. PICK credit \in Credit(t) :
        LET next == FlushedState(t, credit) IN
        /\ \/ pending' = [pending EXCEPT ![t] = NoChanges]
           \/ ~Dirty(t, next) /\ pending' = pending
        /\ Publish(t, next)
  BY DEF Flush
<1>2. FlushedState(t, credit) \in State
  BY CreditType, FlushedType
<1>3. pending'[t] = NoChanges
  BY <1>1 DEF Dirty, HasChanges, TypeOK
<1>4. open'[t] /\ merges' = merges
  BY DEF Flush, Flushing, Running, bounds
<1>5. QED
  BY <1>1, <1>2, <1>3, <1>4, PublishedTab

\* One step of a tab keeps its invariant.
LEMMA TabStepInv ==
    ASSUME TypeOK, NEW t \in Tabs, TabInv(t), TabStep(t)
    PROVE  TabInv(t)'
<1> USE DEF history, slots, bounds
<1>1. CASE Open(t)
  <2>1. pending'[t] = NoChanges /\ open'[t]
    BY <1>1 DEF Open, TabInv, TypeOK
  <2>2. QED
    BY <1>1, <2>1, ReadType, SettledTab DEF Open
<1>2. CASE OpenUnread(t)
  <2>1. pending'[t] = NoChanges /\ open'[t] /\ Settles(t, FreshState, FreshState)
    BY <1>2 DEF OpenUnread, TabInv, TypeOK
  <2>2. QED
    BY <2>1, FreshStateType, SettledTab
<1>3. CASE Close(t)
  BY <1>3, ClosedInv DEF Close
<1>4. CASE Save(t) \/ SaveMerged(t)
  BY <1>4, SaveInv, SaveMergedInv
<1>5. CASE Ask(t)
  BY <1>5, IdleTab DEF Ask
<1>6. CASE Flush(t)
  BY <1>6, FlushInv
<1>7. CASE FlushRefused(t) \/ FlushQuota(t)
  <2>1. /\ UNCHANGED <<open, view, pending, shown, merges, base, madeUnder, seen, behind>>
        /\ generation' = [generation EXCEPT ![t] = FlushGeneration(t)] /\ open[t]
    BY <1>7 DEF FlushRefused, FlushQuota, Flushing, Running
  <2>2. generation'[t] = generation[t] \/ generation[t] = NoGeneration
    BY <2>1 DEF TypeOK, FlushGeneration
  <2>3. QED
    BY <2>1, <2>2, IdleTab
<1>8. CASE FlushCrash(t) \/ ReplaceCrash(t)
  BY <1>8, ClosedInv DEF FlushCrash, ReplaceCrash
<1>9. CASE Sync(t)
  <2>1. pending'[t] = NoChanges /\ open'[t]
    BY <1>9 DEF Sync, HasChanges, Running
  <2>2. QED
    BY <1>9, <2>1, ReadType, PublishedTab DEF Sync
<1>10. CASE Throws(t) \/ ReplaceQuota(t)
  BY <1>10, IdleTab DEF Throws, ReplaceQuota, Flushing, Running
<1>11. CASE Replace(t)
  <2>1. Head(chain[t]) \in Call /\ Head(chain[t]).op = "replace"
    BY <1>11, FinishType DEF Replace, Running
  <2>2. Head(chain[t]).with \in State
    BY <2>1, StoreAssumption DEF Call
  <2>3. pending'[t] = NoChanges /\ open'[t] /\ merges' = merges
    BY <1>11 DEF Replace, Running, TypeOK
  <2>4. QED
    BY <1>11, <2>2, <2>3, SettledTab, PublishedTab DEF Replace
<1>12. QED
  BY <1>1, <1>2, <1>3, <1>4, <1>5, <1>6, <1>7, <1>8, <1>9, <1>10, <1>11 DEF TabStep

\* The strengthened invariant holds in every reachable state.
THEOREM StoreInvariant == Spec => []StoreInv
<1>1. Init => StoreInv
  <2> SUFFICES ASSUME Init PROVE StoreInv
    OBVIOUS
  <2>1. TypeOK
    BY FreshStateType, NoChangesType
    DEF Init, TypeOK, Slot, Absent, Saved, Legacy, NoGeneration
  <2>2. ASSUME NEW t \in Tabs PROVE TabInv(t)
    <3>1. Tracks(FreshState, FreshState, NoChanges)
      BY FreshStateType, TracksNothing
    <3>2. ApplyProgressChanges(FreshState, NoChanges) = FreshState
      BY FreshStateType, ApplyNothing
    <3>3. \A k \in Keys : ~NoChanges.notes[k].changed
      BY DEF NoChanges, NoTextEdit
    <3>4. NoChanges.focusSeconds = 0
      BY DEF NoChanges
    <3>5. /\ ~open[t] /\ pending[t] = NoChanges /\ generation[t] = NoGeneration
          /\ view[t] = FreshState /\ base[t] = FreshState
          /\ shown[t] = FreshState /\ behind[t] = {}
      BY DEF Init
    <3>6. QED
      BY <3>1, <3>2, <3>3, <3>4, <3>5 DEF TabInv, PageInv, AloneInv, HasChanges
  <2>3. QED
    BY <2>1, <2>2 DEF StoreInv
<1>2. StoreInv /\ [Next]_vars => StoreInv'
  <2> SUFFICES ASSUME StoreInv, [Next]_vars PROVE \A u \in Tabs : TabInv(u)'
    <3>1. TypeOK /\ [Next]_vars => TypeOK'
      BY TypeStep
    <3>2. QED
      BY <3>1 DEF StoreInv
  <2> USE DEF StoreInv
  <2>1. CASE Damage
    BY <2>1 DEF Damage, tabs, page, history, TabInv, PageInv, AloneInv, HasChanges
  <2>2. ASSUME NEW t \in Tabs, TabStep(t), NEW u \in Tabs PROVE TabInv(u)'
    <3>1. CASE u = t
      BY <2>2, <3>1, TabStepInv
    <3>2. CASE u # t
      BY <2>2, <3>2, OthersUntouched
    <3>3. QED
      BY <3>1, <3>2
  <2>3. CASE UNCHANGED vars
    BY <2>3 DEF vars, tabs, page, bounds, history, TabInv, PageInv, AloneInv, HasChanges
  <2>4. QED
    BY <2>1, <2>2, <2>3 DEF Next
<1>3. QED
  BY <1>1, <1>2, PTL DEF Spec

\* A tab's view is what storage held when it last read or wrote it, plus its
\* pending changes, and the page shows that but for what a sync merge brought past
\* it, in every reachable state.
THEOREM ShownIsTracked == Spec => []ShownIsSavedOrPending
<1>1. ASSUME StoreInv PROVE ShownIsSavedOrPending
  <2>1. ASSUME NEW t \in Tabs, open[t]
        PROVE  LET now == ApplyProgressChanges(base[t], pending[t]) IN
               /\ Tracks(view[t], base[t], pending[t])
               /\ \A k \in Keys \ behind[t] : shown[t].notes[k] = now.notes[k]
               /\ merges = 0 => shown[t] = now
    BY <1>1, <2>1 DEF StoreInv, TabInv, PageInv, AloneInv, Tracks
  <2>2. QED
    BY <2>1 DEF ShownIsSavedOrPending
<1>2. QED
  BY <1>1, StoreInvariant, PTL

-----------------------------------------------------------------------------

\* Which steps of a tab touch the saved record, and which settle its changes.
LEMMA WhoWrites ==
    ASSUME TypeOK, NEW t \in Tabs, TabStep(t)
    PROVE  main' = main \/ Flush(t) \/ Replace(t)
BY DEF TabStep, Open, OpenUnread, Close, Save, SaveMerged, SaveRecord, Ask, FlushRefused,
       FlushQuota, FlushCrash, Sync, Throws, ReplaceQuota, ReplaceCrash, slots

\* The pending changes of a tab are settled only by a flush, an import or its end.
LEMMA WhoSettles ==
    ASSUME TypeOK, NEW t \in Tabs, TabInv(t), NEW u \in Tabs, TabStep(u),
           HasChanges(t), pending'[t] = NoChanges, open'[t]
    PROVE  u = t /\ (Flush(t) \/ Replace(t))
<1>1. u = t
  <2>1. SUFFICES ASSUME u # t PROVE pending'[t] = pending[t]
    BY DEF HasChanges
  <2>2. QED
    BY <2>1 DEF TabStep, TypeOK, Open, OpenUnread, Close, Save, SaveMerged, SaveRecord, Ask,
           Flush, FlushRefused, FlushQuota, FlushCrash, Sync, Throws, Replace, ReplaceQuota,
           ReplaceCrash, ClosedTab, Publish, Settles, Shows, history, slots, bounds
<1>2. ~Save(t) /\ ~SaveMerged(t)
  <2>1. SUFFICES ASSUME NEW next \in State, SaveRecord(t, next) PROVE FALSE
    <3>1. \A next \in Edits(shown[t]) \cup {shown[t]} : next \in State
      BY EditsType DEF TypeOK
    <3>2. QED
      BY <2>1, <3>1, StoreAssumption DEF Save, SaveMerged
  <2>2. view[t] \in State /\ pending[t] \in Delta
    BY DEF TypeOK
  <2>3. Compose(pending[t], ProgressChanges(view[t], next)) = NoChanges
    BY <2>1, SaveRecordInv
  <2>4. QED
    BY <2>1, <2>2, <2>3, ChangesType, ComposeNothing DEF HasChanges, TabInv
<1>3. ~Close(t) /\ ~FlushCrash(t) /\ ~ReplaceCrash(t)
  BY <1>1 DEF Close, FlushCrash, ReplaceCrash, ClosedTab, TypeOK
<1>4. pending' # pending
  BY DEF HasChanges
<1>5. QED
  BY <1>1, <1>2, <1>3, <1>4 DEF TabStep, Open, OpenUnread, Ask, FlushRefused, FlushQuota,
     Sync, Throws, ReplaceQuota

\* Work done before an import never reaches the imported record.
THEOREM ImportIsFenced == Spec => ImportFence
<1>1. ASSUME StoreInv, [Next]_vars, NEW t \in Tabs, HasChanges(t),
             pending'[t] = NoChanges, open'[t], epoch' = epoch
      PROVE  /\ madeUnder[t] \in {LatestGeneration, NoGeneration}
             /\ main'.generation = LatestGeneration
  <2>1. PICK u \in Tabs : TabStep(u)
    BY <1>1 DEF Next, Damage, vars, tabs, HasChanges
  <2>2. Flush(t)
    <3>1. Flush(t) \/ Replace(t)
      BY <1>1, <2>1, WhoSettles DEF StoreInv
    <3>2. ~Replace(t)
      BY <1>1 DEF Replace, StoreInv, TypeOK
    <3>3. QED
      BY <3>1, <3>2
  <2>3. main'.generation = FlushGeneration(t)
    BY <1>1, <2>2 DEF Flush, Dirty, Saved
  <2>4. madeUnder[t] \in {generation[t], NoGeneration}
    BY <1>1 DEF StoreInv, TabInv
  <2>5. FlushGeneration(t) = LatestGeneration
    BY <2>2 DEF Flush, Mergeable
  <2>6. QED
    BY <2>3, <2>4, <2>5 DEF FlushGeneration
<1>2. StoreInv /\ [Next]_vars =>
        [\A t \in Tabs :
           HasChanges(t) /\ pending'[t] = NoChanges /\ open'[t] /\ epoch' = epoch
           => /\ madeUnder[t] \in {LatestGeneration, NoGeneration}
              /\ main'.generation = LatestGeneration]_vars
  BY <1>1
<1>3. QED
  BY <1>2, StoreInvariant, PTL DEF Spec, ImportFence

\* No text is replaced in the saved record except by a tab whose page had that very
\* text on screen, or was left behind at that text by a sync merge.
THEOREM NothingIsOverwrittenUnseen == Spec => NoSilentOverwrite
<1>1. ASSUME StoreInv, [Next]_vars, NEW k \in Keys, Valid(main), Valid(main'),
             epoch' = epoch, main'.state.notes[k] # main.state.notes[k]
      PROVE  \E t \in Tabs : /\ HasChanges(t) /\ pending'[t] = NoChanges
                             /\ main.state.notes[k] \in seen[t][k] \/ k \in behind[t]
  <2>1. main' # main
    BY <1>1
  <2>2. ~Damage
    BY <1>1 DEF Damage, Damaged, Valid
  <2>3. PICK t \in Tabs : TabStep(t)
    BY <1>1, <2>1, <2>2 DEF Next, vars, slots
  <2>4. Flush(t)
    <3>1. ~Replace(t)
      BY <1>1 DEF Replace, StoreInv, TypeOK
    <3>2. QED
      BY <1>1, <2>1, <2>3, <3>1, WhoWrites DEF StoreInv
  <2>5. PICK credit \in Credit(t) :
          LET next == FlushedState(t, credit) IN
          /\ main' = Saved(next, FlushGeneration(t))
          /\ pending' = [pending EXCEPT ![t] = NoChanges]
    BY <2>1, <2>4 DEF Flush
  <2>6. LatestState.notes = main.state.notes
    BY <1>1 DEF LatestState, Source, SanitizeState, StoreInv, TypeOK, Slot, State
  <2>7. main'.state.notes[k] =
          IF pending[t].notes[k].changed THEN pending[t].notes[k].value
          ELSE main.state.notes[k]
    <3>1. main'.state = FlushedState(t, credit)
      BY <2>5 DEF Saved
    <3>2. FlushedState(t, credit).notes = ApplyProgressChanges(LatestState, pending[t]).notes
      BY DEF FlushedState, ApplyProgressChanges
    <3>3. QED
      BY <2>6, <3>1, <3>2 DEF ApplyProgressChanges
  <2>8. pending[t].notes[k].changed
    BY <1>1, <2>7
  <2>9. main.state.notes[k] \in {pending[t].notes[k].before, pending[t].notes[k].first}
    BY <2>4, <2>6, <2>8 DEF Flush, Mergeable, Conflicts
  <2>10. open[t] /\ HasChanges(t)
    BY <2>4, <2>8 DEF Flush, Flushing, Running, HasChanges, NoChanges, NoTextEdit
  <2>11. pending'[t] = NoChanges
    BY <1>1, <2>5 DEF StoreInv, TypeOK
  <2>12. main.state.notes[k] \in seen[t][k] \/ k \in behind[t]
    BY <1>1, <2>8, <2>9, <2>10 DEF StoreInv, TabInv, PageInv
  <2>13. QED
    BY <2>10, <2>11, <2>12
<1>2. StoreInv /\ [Next]_vars =>
        [\A k \in Keys :
          /\ Valid(main) /\ Valid(main') /\ epoch' = epoch
          /\ main'.state.notes[k] # main.state.notes[k]
          => \E t \in Tabs : /\ HasChanges(t) /\ pending'[t] = NoChanges
                             /\ main.state.notes[k] \in seen[t][k] \/ k \in behind[t]]_vars
  BY <1>1
<1>3. QED
  BY <1>2, StoreInvariant, PTL DEF Spec, NoSilentOverwrite

\* A record damaged beyond recovery is written over by nothing but an import.
THEOREM CorruptIsKept == Spec => CorruptIsNotOverwritten
<1>1. ASSUME StoreInv, [Next]_vars, main = Damaged, ~HasCopy, main' # main
      PROVE  epoch' = epoch + 1
  <2>1. ~Valid(main) /\ ~Valid(backup) /\ ~Valid(imported)
    BY <1>1 DEF HasCopy
  <2>2. Corrupt
    BY <1>1, <2>1 DEF Corrupt, Source, Valid, Absent
  <2>3. PICK t \in Tabs : TabStep(t)
    BY <1>1, <2>1 DEF Next, Damage, vars, slots
  <2>4. ~Flush(t)
    BY <2>2 DEF Flush, Mergeable
  <2>5. Replace(t)
    BY <1>1, <2>3, <2>4, WhoWrites DEF StoreInv
  <2>6. QED
    BY <2>5 DEF Replace
<1>2. StoreInv /\ [Next]_vars =>
        [main = Damaged /\ ~HasCopy /\ main' # main => epoch' = epoch + 1]_vars
  BY <1>1
<1>3. QED
  BY <1>2, StoreInvariant, PTL DEF Spec, CorruptIsNotOverwritten

-----------------------------------------------------------------------------

\* A slot holds a generation already handed out and, until a sync merge is saved,
\* practice that is not negative: what the refinement needs to know of the two
\* recovery copies.
SlotInv(slot) == /\ slot.generation <= epoch
                 /\ merges = 0 => slot.state.focusSeconds >= 0

SlotsInv == SlotInv(main) /\ SlotInv(backup) /\ SlotInv(imported)

\* What a read returns satisfies the slots' invariant: it was saved before.
LEMMA ReadInv ==
    ASSUME TypeOK, SlotsInv
    PROVE  /\ LatestGeneration <= epoch
           /\ LatestState.focusSeconds >= 0
           /\ Valid(Source) => SlotInv(Source)
<1>1. Valid(Source) => SlotInv(Source)
  BY DEF Source, SlotsInv, Absent, Valid
<1>2. LatestGeneration <= epoch
  BY <1>1 DEF LatestGeneration, SlotInv, Legacy, TypeOK
<1>3. LatestState.focusSeconds >= 0
  BY ReadType, SanitizeType DEF LatestState, FreshState, Slot
<1>4. QED
  BY <1>1, <1>2, <1>3

\* A flush stores a record that grew out of the one it read.
LEMMA FlushGrows ==
    ASSUME TypeOK, SlotsInv, NEW t \in Tabs, TabInv(t), NEW credit \in {0, 1}
    PROVE  /\ LatestState.completed \subseteq FlushedState(t, credit).completed
           /\ merges = 0 =>
                /\ LatestState.focusSeconds <= FlushedState(t, credit).focusSeconds
                /\ FlushedState(t, credit).focusSeconds >= 0
<1> DEFINE merged == ApplyProgressChanges(LatestState, pending[t])
<1>1. /\ merged.completed = LatestState.completed \cup pending[t].completed
      /\ merged.focusSeconds = LatestState.focusSeconds + pending[t].focusSeconds
  BY DEF ApplyProgressChanges
<1>2. /\ LatestState.focusSeconds \in Int /\ pending[t].focusSeconds \in Int
      /\ LatestState.focusSeconds >= 0
      /\ merges = 0 => pending[t].focusSeconds >= 0
  BY ReadType, ReadInv DEF State, Delta, TypeOK, TabInv, AloneInv
<1>3. /\ FlushedState(t, credit).completed = merged.completed
      /\ FlushedState(t, credit).focusSeconds = merged.focusSeconds + credit
  BY DEF FlushedState, ApplyProgressChanges
<1> HIDE DEF merged
<1>4. QED
  BY <1>1, <1>2, <1>3

\* What the writes of one step leave in the slots.
LEMMA SlotsStep ==
    ASSUME StoreInv, SlotsInv, NEW t \in Tabs, TabStep(t)
    PROVE  SlotsInv' /\ epoch' >= epoch
<1> USE DEF StoreInv
<1>1. ASSUME NEW credit \in Credit(t), FlushGeneration(t) = LatestGeneration
      PROVE  /\ SlotInv(Saved(FlushedState(t, credit), FlushGeneration(t)))
             /\ SlotInv(BackupCopy(t, FlushedState(t, credit)))
  <2>1. credit \in {0, 1}
    BY CreditType
  <2>2. SlotInv(Saved(FlushedState(t, credit), FlushGeneration(t)))
    BY <1>1, <2>1, ReadInv, FlushGrows DEF Saved, SlotInv
  <2>3. QED
    BY <2>2, ReadInv DEF BackupCopy
<1>2. CASE Flush(t)
  <2>1. PICK credit \in Credit(t) :
          LET next == FlushedState(t, credit) IN
          /\ main' \in {main, Saved(next, FlushGeneration(t))}
          /\ backup' \in {backup, BackupCopy(t, next)}
    BY <1>2 DEF Flush
  <2>2. FlushGeneration(t) = LatestGeneration /\ imported' = imported /\ epoch' = epoch
        /\ merges' = merges
    BY <1>2 DEF Flush, Mergeable, bounds
  <2>3. QED
    BY <1>1, <2>1, <2>2 DEF SlotsInv, SlotInv, TypeOK
<1>3. CASE FlushQuota(t) \/ FlushCrash(t)
  <2>1. PICK credit \in Credit(t) :
          backup' \in {backup, BackupCopy(t, FlushedState(t, credit))}
    BY <1>3 DEF FlushQuota, FlushCrash
  <2>2. /\ FlushGeneration(t) = LatestGeneration
        /\ main' = main /\ imported' = imported /\ epoch' = epoch
        /\ merges' = merges
    BY <1>3 DEF FlushQuota, FlushCrash, Mergeable
  <2>3. QED
    BY <1>1, <2>1, <2>2 DEF SlotsInv, SlotInv, TypeOK
<1>4. CASE Replace(t)
  <2>1. Head(chain[t]) \in Call /\ Head(chain[t]).op = "replace"
    BY <1>4, FinishType DEF Replace, Running
  <2>2. Head(chain[t]).with.focusSeconds >= 0
    BY <2>1, StoreAssumption DEF Call
  <2>3. /\ main' = Saved(Head(chain[t]).with, epoch + 1)
        /\ imported' = KeptBeforeImport /\ backup' = backup /\ epoch' = epoch + 1
        /\ merges' = merges
    BY <1>4 DEF Replace
  <2>4. main.generation \in Nat /\ backup.generation \in Nat /\ imported.generation \in Nat
    BY DEF TypeOK, Slot
  <2>5. QED
    BY <2>2, <2>3, <2>4 DEF SlotsInv, SlotInv, KeptBeforeImport, Saved, TypeOK
<1>5. CASE ReplaceQuota(t) \/ ReplaceCrash(t)
  BY <1>5 DEF ReplaceQuota, ReplaceCrash, KeptBeforeImport, SlotsInv, SlotInv, TypeOK
<1>6. CASE UNCHANGED <<slots, epoch>> /\ merges' \in {merges, merges + 1}
  BY <1>6 DEF slots, SlotsInv, SlotInv, TypeOK
<1>7. QED
  BY <1>2, <1>3, <1>4, <1>5, <1>6
  DEF TabStep, Open, OpenUnread, Close, Save, SaveMerged, SaveRecord, Ask, FlushRefused,
      Sync, Throws, bounds

\* The slots' invariant holds in every reachable state.
LEMMA SlotsInvariant == Spec => []SlotsInv
<1>1. Init => SlotsInv
  BY DEF Init, SlotsInv, SlotInv, Absent, Saved, FreshState, Legacy
<1>2. StoreInv /\ SlotsInv /\ [Next]_vars => SlotsInv'
  <2> SUFFICES ASSUME StoreInv, SlotsInv, [Next]_vars PROVE SlotsInv'
    OBVIOUS
  <2>1. CASE Damage
    BY <2>1 DEF Damage, SlotsInv, SlotInv, Damaged, FreshState, Legacy, StoreInv, TypeOK
  <2>2. CASE \E t \in Tabs : TabStep(t)
    BY <2>2, SlotsStep
  <2>3. CASE UNCHANGED vars
    BY <2>3 DEF vars, slots, bounds, SlotsInv, SlotInv
  <2>4. QED
    BY <2>1, <2>2, <2>3 DEF Next
<1>3. QED
  BY <1>1, <1>2, StoreInvariant, PTL DEF Spec

\* Every step of the store is a step of the shared record, or leaves it alone.
LEMMA StepImplements ==
    ASSUME StoreInv, SlotsInv, [Next]_vars
    PROVE  [SR!Next]_<<main, epoch, merges > 0>>
<1> USE DEF StoreInv
<1>1. CASE Damage
  BY <1>1 DEF Damage, SR!Next, SR!Damage, SR!Damaged, Damaged, SR!FreshState, FreshState,
     SR!DefaultGoal, DefaultGoal, SR!Legacy, Legacy
<1>2. ASSUME UNCHANGED <<main, epoch, merges>>
      PROVE  UNCHANGED <<main, epoch, merges > 0>>
  BY <1>2
<1>3. ASSUME NEW t \in Tabs, Flush(t), main' # main
      PROVE  SR!Next
  <2>1. PICK credit \in Credit(t) : main' = Saved(FlushedState(t, credit), FlushGeneration(t))
    BY <1>3 DEF Flush
  <2>2. /\ FlushGeneration(t) = LatestGeneration
        /\ epoch' = epoch /\ (merges > 0)' = (merges > 0)
    BY <1>3 DEF Flush, Mergeable, bounds
  <2>3. /\ main'.generation = LatestGeneration
        /\ main'.state = FlushedState(t, credit)
        /\ main'.status = "valid"
    BY <2>1, <2>2 DEF Saved
  <2>4. credit \in {0, 1}
    BY CreditType
  <2>5. CASE Valid(main)
    <3>1. LatestGeneration = main.generation
      BY <2>5 DEF LatestGeneration, Source
    <3>2. /\ LatestState.completed = main.state.completed
          /\ merges = 0 => LatestState.focusSeconds = main.state.focusSeconds
      BY <2>5 DEF LatestState, Source, SanitizeState, SlotsInv, SlotInv, TypeOK, Slot, State
    <3>3. /\ LatestState.completed \subseteq FlushedState(t, credit).completed
          /\ merges = 0 => LatestState.focusSeconds <= FlushedState(t, credit).focusSeconds
      BY <2>4, FlushGrows
    <3>4. SR!Grows(main.state, main'.state)
      BY <2>3, <3>2, <3>3 DEF SR!Grows, TypeOK
    <3>5. SR!Commit
      BY <2>2, <2>3, <2>5, <3>1, <3>4 DEF SR!Commit, SR!Valid, Valid
    <3>6. QED
      BY <3>5 DEF SR!Next
  <2>6. CASE ~Valid(main)
    BY <2>2, <2>3, <2>6, ReadInv DEF SR!Next, SR!Recover, SR!Valid, Valid
  <2>7. QED
    BY <2>5, <2>6
<1>4. ASSUME NEW t \in Tabs, Replace(t)
      PROVE  SR!Next
  BY <1>4 DEF Replace, Saved, SR!Next, SR!Import, SR!Valid
<1>5. ASSUME NEW t \in Tabs, SaveMerged(t)
      PROVE  SR!Next
  BY <1>5 DEF SaveMerged, SaveRecord, SR!Next, SR!Merge, slots, TypeOK
<1>6. ASSUME NEW t \in Tabs, TabStep(t), main' = main, ~Replace(t), ~SaveMerged(t)
      PROVE  UNCHANGED <<main, epoch, merges>>
  BY <1>6 DEF TabStep, Open, OpenUnread, Close, Save, SaveRecord, Ask, Flush, FlushRefused,
     FlushQuota, FlushCrash, Sync, Throws, ReplaceQuota, ReplaceCrash, bounds
<1>7. ASSUME NEW t \in Tabs, TabStep(t)
      PROVE  [SR!Next]_<<main, epoch, merges > 0>>
  BY <1>2, <1>3, <1>4, <1>5, <1>6, <1>7, WhoWrites
<1>8. CASE UNCHANGED vars
  BY <1>2, <1>8 DEF vars, slots, bounds
<1>9. QED
  BY <1>1, <1>7, <1>8 DEF Next

\* The saved record, seen on its own, only gains lessons under a generation, and
\* practice until a sync merge is saved, whatever the tabs, failures and crashes.
THEOREM StoreImplementsSharedRecord == Spec => ImplementsSharedRecord
<1>1. Init => SR!Init
  BY FreshStateType DEF Init, Saved, Absent, FreshState, Legacy, DefaultGoal, SR!Init,
     SR!Absent, SR!FreshState, SR!Legacy, SR!DefaultGoal, SR!State, State, SR!Text, Text
<1>2. StoreInv /\ SlotsInv /\ [Next]_vars => [SR!Next]_<<main, epoch, merges > 0>>
  BY StepImplements
<1>3. QED
  BY <1>1, <1>2, StoreInvariant, SlotsInvariant, PTL DEF Spec, SR!Spec, ImplementsSharedRecord

-----------------------------------------------------------------------------

\* A write is due in a tab's chain.  A tab that says it is saving has one there:
\* the calls ahead of it either end with a notice of their own or, for a blocked
\* tab's read, leave the notice and the flush behind them.
WriteDue(t) == \E i \in 1 .. Len(chain[t]) : chain[t][i].op = "flush"

StatusInv(t) == /\ HasChanges(t) => problem[t] \in {"saving", "error"}
                /\ problem[t] = "saving" => WriteDue(t)

\* A call that ends leaves the calls behind it, a flush among them if it was not
\* the flush itself (progress-store.js: the promise chain).
LEMMA FinishKeepsDue ==
    ASSUME TypeOK, NEW t \in Tabs, chain[t] # << >>, Finish(t),
           WriteDue(t), Head(chain[t]).op # "flush"
    PROVE  WriteDue(t)'
<1>1. PICK i \in 1 .. Len(chain[t]) : chain[t][i].op = "flush"
  BY DEF WriteDue
<1>2. chain[t] \in Seq(Call) /\ chain'[t] = Tail(chain[t])
  BY DEF TypeOK, Finish
<1>3. i # 1
  BY <1>1, <1>2
<1>4. i - 1 \in 1 .. Len(Tail(chain[t])) /\ Tail(chain[t])[i - 1] = chain[t][i]
  BY <1>1, <1>2, <1>3
<1>5. QED
  BY <1>1, <1>2, <1>4 DEF WriteDue

\* A call that joins the chain leaves the others where they are.
LEMMA JoinKeepsDue ==
    ASSUME TypeOK, NEW t \in Tabs, NEW call \in Call,
           chain' = [chain EXCEPT ![t] = Append(@, call)]
    PROVE  /\ WriteDue(t) => WriteDue(t)'
           /\ call.op = "flush" => WriteDue(t)'
<1>1. chain[t] \in Seq(Call) /\ chain'[t] = Append(chain[t], call)
  BY DEF TypeOK
<1>2. /\ Len(chain'[t]) = Len(chain[t]) + 1
      /\ chain'[t][Len(chain[t]) + 1] = call
      /\ \A i \in 1 .. Len(chain[t]) : chain'[t][i] = chain[t][i]
  BY <1>1
<1>3. Len(chain[t]) \in Nat
  BY <1>1
<1>4. ASSUME WriteDue(t) PROVE WriteDue(t)'
  BY <1>2, <1>3, <1>4 DEF WriteDue
<1>5. ASSUME call.op = "flush" PROVE WriteDue(t)'
  BY <1>2, <1>3, <1>5 DEF WriteDue
<1>6. QED
  BY <1>4, <1>5

\* The status line after an edit: it says that the tab is saving, unless nothing
\* is pending (save()).
LEMMA SaveStatus ==
    ASSUME TypeOK, NEW t \in Tabs, TabInv(t), StatusInv(t), NEW next, SaveRecord(t, next)
    PROVE  StatusInv(t)'
<1>1. PICK all :
        /\ pending' = [pending EXCEPT ![t] = all]
        /\ IF all = NoChanges /\ ~recovered[t] THEN UNCHANGED <<chain, problem>>
           ELSE /\ Reports(t, "saving")
                /\ chain' = [chain EXCEPT ![t] =
                              Append(@, [op |-> "flush", with |-> FreshState])]
  BY DEF SaveRecord
<1>2. pending'[t] = all
  BY <1>1 DEF TypeOK
<1>3. CASE all = NoChanges /\ ~recovered[t]
  BY <1>1, <1>2, <1>3 DEF StatusInv, HasChanges, WriteDue
<1>4. CASE ~(all = NoChanges /\ ~recovered[t])
  <2>1. problem'[t] = "saving"
    BY <1>1, <1>4 DEF Reports, TypeOK
  <2>2. [op |-> "flush", with |-> FreshState] \in Call
    BY DEF Call
  <2>3. WriteDue(t)'
    BY <1>1, <1>4, <2>2, JoinKeepsDue
  <2>4. QED
    BY <2>1, <2>3 DEF StatusInv
<1>5. QED
  BY <1>3, <1>4

\* The status line after any step of the tab.
LEMMA StatusStep ==
    ASSUME TypeOK, NEW t \in Tabs, TabInv(t), StatusInv(t), TabStep(t)
    PROVE  StatusInv(t)'
<1>1. CASE Open(t) \/ OpenUnread(t)
  <2>1. pending'[t] = NoChanges
    BY <1>1 DEF Open, OpenUnread, TabInv
  <2>2. problem'[t] # "saving"
    BY <1>1 DEF Open, OpenUnread, Reports, ReadNotice, TypeOK
  <2>3. QED
    BY <2>1, <2>2 DEF StatusInv, HasChanges
<1>2. CASE ClosedTab(t)
  BY <1>2 DEF ClosedTab, StatusInv, HasChanges, TypeOK
<1>3. CASE Save(t) \/ SaveMerged(t)
  BY <1>3, SaveStatus DEF Save, SaveMerged
<1>4. CASE Ask(t)
  <2>1. PICK call \in Call : chain' = [chain EXCEPT ![t] = Append(@, call)]
    BY <1>4 DEF Ask
  <2>2. WriteDue(t) => WriteDue(t)'
    BY <2>1, JoinKeepsDue
  <2>3. pending' = pending /\ problem' = problem
    BY <1>4 DEF Ask
  <2>4. QED
    BY <2>2, <2>3 DEF StatusInv, HasChanges
<1>5. CASE Flush(t) \/ Replace(t)
  <2>1. pending'[t] = NoChanges
    <3>1. CASE Flush(t)
      BY <3>1 DEF Flush, Dirty, HasChanges, TypeOK
    <3>2. CASE Replace(t)
      BY <3>2 DEF Replace, TypeOK
    <3>3. QED
      BY <1>5, <3>1, <3>2
  <2>2. problem'[t] = "none"
    BY <1>5 DEF Flush, Replace, Reports, TypeOK
  <2>3. QED
    BY <2>1, <2>2 DEF StatusInv, HasChanges
<1>6. CASE FlushRefused(t) \/ FlushQuota(t) \/ Throws(t) \/ ReplaceQuota(t)
  <2>1. problem'[t] = "error"
    BY <1>6 DEF FlushRefused, FlushQuota, Throws, ReplaceQuota, Reports, TypeOK
  <2>2. QED
    BY <2>1 DEF StatusInv
<1>7. CASE Sync(t)
  <2>1. pending'[t] = NoChanges
    BY <1>7 DEF Sync, HasChanges
  <2>2. CASE blocked[t]
    <3>1. problem' = problem /\ Finish(t)
      BY <1>7, <2>2 DEF Sync
    <3>2. chain[t] # << >> /\ Head(chain[t]).op # "flush"
      BY <1>7 DEF Sync, Running
    <3>3. QED
      BY <2>1, <3>1, <3>2, FinishKeepsDue DEF StatusInv, HasChanges
  <2>3. CASE ~blocked[t]
    BY <1>7, <2>1, <2>3 DEF Sync, Reports, ReadNotice, StatusInv, HasChanges, TypeOK
  <2>4. QED
    BY <2>2, <2>3
<1>8. QED
  BY <1>1, <1>2, <1>3, <1>4, <1>5, <1>6, <1>7
  DEF TabStep, Close, FlushCrash, ReplaceCrash

\* What one tab does leaves the status line, changes and chain of the others.
LEMMA OthersStatus ==
    ASSUME TypeOK, NEW t \in Tabs, NEW u \in Tabs \ {t}, TabStep(t), StatusInv(u)
    PROVE  StatusInv(u)'
<1>1. /\ pending'[u] = pending[u] /\ problem'[u] = problem[u] /\ chain'[u] = chain[u]
  BY DEF TabStep, TypeOK, Open, OpenUnread, Close, Save, SaveMerged, SaveRecord, Ask, Flush,
         FlushRefused, FlushQuota, FlushCrash, Sync, Throws, Replace, ReplaceQuota,
         ReplaceCrash, ClosedTab, Reports, Finish
<1>2. QED
  BY <1>1 DEF StatusInv, HasChanges, WriteDue

\* The status line is honest in every reachable state: unsaved changes are being
\* saved or have failed, and "saving" is said only while a write is due.
THEOREM StatusLineNeverLies == Spec => []StatusLineIsHonest
<1>1. Init => \A t \in Tabs : StatusInv(t)
  BY DEF Init, StatusInv, HasChanges
<1>2. StoreInv /\ (\A t \in Tabs : StatusInv(t)) /\ [Next]_vars
        => (\A t \in Tabs : StatusInv(t))'
  <2> SUFFICES ASSUME StoreInv, \A t \in Tabs : StatusInv(t), [Next]_vars,
                      NEW u \in Tabs
               PROVE  StatusInv(u)'
    OBVIOUS
  <2>1. CASE Damage \/ UNCHANGED vars
    BY <2>1 DEF Damage, vars, tabs, StatusInv, HasChanges, WriteDue
  <2>2. ASSUME NEW t \in Tabs, TabStep(t) PROVE StatusInv(u)'
    BY <2>2, StatusStep, OthersStatus DEF StoreInv
  <2>3. QED
    BY <2>1, <2>2 DEF Next
<1>3. (\A t \in Tabs : StatusInv(t)) /\ StoreInv => StatusLineIsHonest
  <2>1. ASSUME NEW t \in Tabs, WriteDue(t), TypeOK PROVE chain[t] # << >>
    BY <2>1 DEF WriteDue, TypeOK
  <2>2. QED
    BY <2>1 DEF StatusInv, StatusLineIsHonest, StoreInv
<1>4. QED
  BY <1>1, <1>2, <1>3, StoreInvariant, PTL DEF Spec

-----------------------------------------------------------------------------

\* Whose call ended: the chain of a tab gets shorter only by its own calls.
LEMMA WhoFinishes ==
    ASSUME TypeOK, NEW t \in Tabs, [Next]_vars, open'[t],
           chain[t] # << >>, chain'[t] = Tail(chain[t])
    PROVE  \/ Flush(t) \/ Replace(t)
           \/ main' = main /\ pending'[t] = pending[t]
<1>1. chain[t] \in Seq(Call) /\ Len(Tail(chain[t])) # Len(chain[t])
  BY DEF TypeOK
<1>2. chain'[t] # chain[t]
  BY <1>1
<1>3. PICK u \in Tabs : TabStep(u)
  BY <1>2 DEF Next, Damage, vars, tabs
<1>4. u = t
  <2>1. SUFFICES ASSUME u # t PROVE chain'[t] = chain[t]
    BY <1>2
  <2>2. QED
    BY <1>3, <2>1 DEF TabStep, TypeOK, Open, OpenUnread, Close, Save, SaveMerged, SaveRecord,
       Ask, Flush, FlushRefused, FlushQuota, FlushCrash, Sync, Throws, Replace, ReplaceQuota,
       ReplaceCrash, ClosedTab, Finish
<1>5. ASSUME NEW call \in Call, chain' = [chain EXCEPT ![t] = Append(@, call)]
      PROVE  FALSE
  <2>1. chain'[t] = Append(chain[t], call)
    BY <1>5 DEF TypeOK
  <2>2. Len(Append(chain[t], call)) = Len(chain[t]) + 1
    BY <1>1
  <2>3. Len(Tail(chain[t])) = Len(chain[t]) - 1
    BY <1>1
  <2>4. Len(chain[t]) \in Nat
    BY <1>1
  <2>5. Len(Append(chain[t], call)) = Len(Tail(chain[t]))
    BY <2>1
  <2>6. QED
    BY <2>2, <2>3, <2>4, <2>5
<1>6. ~Ask(t)
  BY <1>5 DEF Ask
<1>7. ~Save(t) /\ ~SaveMerged(t)
  <2>1. [op |-> "flush", with |-> FreshState] \in Call
    BY DEF Call
  <2>2. QED
    BY <1>2, <1>5, <2>1 DEF Save, SaveMerged, SaveRecord
<1>8. ~ClosedTab(t)
  BY DEF ClosedTab, TypeOK
<1>9. QED
  BY <1>2, <1>3, <1>4, <1>6, <1>7, <1>8
  DEF TabStep, Open, OpenUnread, Close, FlushRefused, FlushQuota, FlushCrash, Sync, Throws,
      ReplaceQuota, ReplaceCrash, slots

\* Practice is neither lost nor repeated by a failed, refused or retried save:
\* what a tab's call moves between storage and its pending changes is what it had,
\* plus what the call itself credits.
THEOREM PracticeIsNeitherLostNorRepeated == Spec => PracticeIsConserved
<1>1. ASSUME StoreInv, [Next]_vars, NEW t \in Tabs,
             open[t], open'[t], chain[t] # << >>, chain'[t] = Tail(chain[t]),
             Valid(main), Valid(main'), epoch' = epoch, main.state.focusSeconds >= 0
      PROVE  main'.state.focusSeconds + pending'[t].focusSeconds
               - main.state.focusSeconds - pending[t].focusSeconds \in Credit(t)
  <2> USE DEF StoreInv
  <2>1. /\ main.state.focusSeconds \in Int /\ pending[t].focusSeconds \in Int
        /\ 0 \in Credit(t)
    BY <1>1 DEF TypeOK, Slot, State, Delta, Credit
  <2>2. ~Replace(t)
    BY <1>1 DEF Replace, TypeOK
  <2>3. CASE main' = main /\ pending'[t] = pending[t]
    BY <2>1, <2>3
  <2>4. CASE Flush(t)
    <3>1. PICK credit \in Credit(t) :
            LET next == FlushedState(t, credit) IN
            \/ /\ main' = Saved(next, FlushGeneration(t))
               /\ pending' = [pending EXCEPT ![t] = NoChanges]
            \/ main' = main /\ pending' = pending
      BY <2>4 DEF Flush
    <3>2. CASE main' = main /\ pending' = pending
      BY <2>3, <3>2
    <3>3. CASE /\ main' = Saved(FlushedState(t, credit), FlushGeneration(t))
               /\ pending' = [pending EXCEPT ![t] = NoChanges]
      <4>1. LatestState.focusSeconds = main.state.focusSeconds
        BY <1>1 DEF LatestState, Source, SanitizeState, TypeOK, Slot, State
      <4>2. main'.state.focusSeconds = main.state.focusSeconds + pending[t].focusSeconds + credit
        BY <3>3, <4>1 DEF Saved, FlushedState, ApplyProgressChanges
      <4>3. pending'[t].focusSeconds = 0
        BY <1>1, <3>3 DEF TypeOK, NoChanges
      <4>4. credit \in {0, 1}
        BY CreditType
      <4>5. QED
        BY <2>1, <4>2, <4>3, <4>4
    <3>4. QED
      BY <3>1, <3>2, <3>3
  <2>5. QED
    BY <1>1, <2>2, <2>3, <2>4, WhoFinishes
<1>2. StoreInv /\ [Next]_vars =>
        [\A t \in Tabs :
          /\ open[t] /\ open'[t] /\ chain[t] # << >> /\ chain'[t] = Tail(chain[t])
          /\ Valid(main) /\ Valid(main') /\ epoch' = epoch
          /\ main.state.focusSeconds >= 0
          => main'.state.focusSeconds + pending'[t].focusSeconds
               - main.state.focusSeconds - pending[t].focusSeconds \in Credit(t)]_vars
  BY <1>1
<1>3. QED
  BY <1>2, StoreInvariant, PTL DEF Spec, PracticeIsConserved

\* Apart from damage from outside and an import that fails half-way, no step
\* destroys the last copy of the learner's progress that can be read.
THEOREM SavingNeverLosesTheLastCopy == Spec => SavingKeepsACopy
<1>1. ASSUME TypeOK, [Next]_vars, ~Damage,
             ~\E t \in Tabs : ReplaceQuota(t) \/ ReplaceCrash(t), HasCopy
      PROVE  HasCopy'
  <2>1. CASE UNCHANGED slots
    BY <1>1, <2>1 DEF slots, HasCopy, Valid
  <2>2. ASSUME NEW t \in Tabs, Flush(t) \/ Replace(t)
        PROVE  HasCopy'
    <3>1. CASE Valid(main')
      BY <3>1 DEF HasCopy
    <3>2. CASE UNCHANGED slots
      BY <2>1, <3>2
    <3>3. QED
      BY <2>2, <3>1, <3>2 DEF Flush, Replace, Saved, Valid, slots
  <2>3. ASSUME NEW t \in Tabs, FlushQuota(t) \/ FlushCrash(t)
        PROVE  HasCopy'
    <3>1. PICK credit \in Credit(t) :
            backup' \in {backup, BackupCopy(t, FlushedState(t, credit))}
      BY <2>3 DEF FlushQuota, FlushCrash
    <3>2. main' = main /\ imported' = imported
      BY <2>3 DEF FlushQuota, FlushCrash
    <3>3. Valid(BackupCopy(t, FlushedState(t, credit)))
      BY DEF BackupCopy, Saved, Valid
    <3>4. QED
      BY <1>1, <3>1, <3>2, <3>3 DEF HasCopy, Valid
  <2>4. QED
    BY <1>1, <2>1, <2>2, <2>3
    DEF Next, vars, TabStep, Open, OpenUnread, Close, Save, SaveMerged, SaveRecord, Ask,
        FlushRefused, Sync, Throws
<1>2. TypeOK /\ [Next]_vars =>
        [\/ Damage
         \/ \E t \in Tabs : ReplaceQuota(t) \/ ReplaceCrash(t)
         \/ HasCopy => HasCopy']_vars
  BY <1>1
<1>3. QED
  BY <1>2, TypeCorrect, PTL DEF Spec, SavingKeepsACopy
=============================================================================
