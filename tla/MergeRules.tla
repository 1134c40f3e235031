----------------------------- MODULE MergeRules -----------------------------
(***************************************************************************)
(* The merge rules of public/core.js, shared by the browser store, the     *)
(* sync client and both sync services.                                     *)
(*                                                                         *)
(* A progress record is abstracted to one field per merge rule: notes is   *)
(* the conflict-checked text maps, completed the append-only sets, checks  *)
(* the fields that are switched on and off one by one (project steps,      *)
(* rubrics, and quizzes, whose only stored value is true), focusSeconds    *)
(* the additive counters and goal the plain scalars.                       *)
(*                                                                         *)
(* progressChanges returns a list of changes with at most one per path, so *)
(* a list is represented by one record holding the change of each path.  A *)
(* tab's list of pending changes is the concatenation of several such      *)
(* lists; Compose keeps, for each path, what replaying that concatenation  *)
(* depends on.                                                             *)
(***************************************************************************)
EXTENDS Integers

CONSTANTS Keys,     \* keys of the text maps
          Texts,    \* texts a learner can write
          NoText,   \* the field is absent
          Lessons, Steps, Goals,
          NoGoal    \* "the goal did not change"

ASSUME MergeAssumption == /\ NoText \notin Texts
                          /\ NoGoal \notin Goals
                          /\ Goals # {}

Text == Texts \cup {NoText}

State == [notes: [Keys -> Text], completed: SUBSET Lessons,
          checks: SUBSET Steps, focusSeconds: Int, goal: Goals]

DefaultGoal == CHOOSE g \in Goals : TRUE

FreshState == [notes |-> [k \in Keys |-> NoText], completed |-> {},
               checks |-> {}, focusSeconds |-> 0, goal |-> DefaultGoal]

\* Reading a record back: the one field whose stored value may be out of range
\* is the counter.
SanitizeState(s) == [s EXCEPT !.focusSeconds = IF @ >= 0 THEN @ ELSE 0]

\* The changes of one text: what it was before the first one, what the first
\* one wrote and what the last one wrote.
TextEdit == [changed: BOOLEAN, before: Text, first: Text, value: Text]

\* A list of changes leaves a step either on or off.
WellFormed(d) == d.checked \cap d.unchecked = {}

NoTextEdit == [changed |-> FALSE, before |-> NoText, first |-> NoText, value |-> NoText]

\* counted: there are changes of the counter, though they may add up to nothing.
Delta == [notes: [Keys -> TextEdit], completed: SUBSET Lessons,
          checked: SUBSET Steps, unchecked: SUBSET Steps,
          counted: BOOLEAN, focusSeconds: Int, goal: Goals \cup {NoGoal}]

NoChanges == [notes |-> [k \in Keys |-> NoTextEdit], completed |-> {},
              checked |-> {}, unchecked |-> {},
              counted |-> FALSE, focusSeconds |-> 0, goal |-> NoGoal]

\* What a learner does to a record in one gesture: write or clear a text,
\* complete a lesson, tick or untick a step, practise, choose a goal.
Edits(s) ==
    {[s EXCEPT !.notes[k] = x] : k \in Keys, x \in Text} \cup
    {[s EXCEPT !.completed = @ \cup {l}] : l \in Lessons} \cup
    {[s EXCEPT !.checks = @ \cup {i}] : i \in Steps} \cup
    {[s EXCEPT !.checks = @ \ {i}] : i \in Steps} \cup
    {[s EXCEPT !.focusSeconds = @ + 1]} \cup
    {[s EXCEPT !.goal = g] : g \in Goals}

-----------------------------------------------------------------------------

\* What changed between two records.  Leaving completed is not a change: the
\* append-only sets only ever grow.
ProgressChanges(before, after) ==
    [notes |-> [k \in Keys |->
        IF before.notes[k] = after.notes[k] THEN NoTextEdit
        ELSE [changed |-> TRUE, before |-> before.notes[k],
              first |-> after.notes[k], value |-> after.notes[k]]],
     completed |-> after.completed \ before.completed,
     checked |-> after.checks \ before.checks,
     unchecked |-> before.checks \ after.checks,
     counted |-> before.focusSeconds # after.focusSeconds,
     focusSeconds |-> after.focusSeconds - before.focusSeconds,
     goal |-> IF before.goal = after.goal THEN NoGoal ELSE after.goal]

\* Mutant: a list takes the incoming value instead of growing.
ApplyReplacingSets(state, d) ==
    [notes |-> [k \in Keys |->
        IF d.notes[k].changed THEN d.notes[k].value ELSE state.notes[k]],
     completed |-> IF d.completed = {} THEN state.completed ELSE d.completed,
     checks |-> (state.checks \cup d.checked) \ d.unchecked,
     focusSeconds |-> state.focusSeconds + d.focusSeconds,
     goal |-> IF d.goal = NoGoal THEN state.goal ELSE d.goal]

\* Replaying changes on a record.  A counter moves by the difference, so two
\* writers add up; every other field takes the new value.
ApplyProgressChanges(state, d) ==
    [notes |-> [k \in Keys |->
        IF d.notes[k].changed THEN d.notes[k].value ELSE state.notes[k]],
     completed |-> state.completed \cup d.completed,
     checks |-> (state.checks \cup d.checked) \ d.unchecked,
     focusSeconds |-> state.focusSeconds + d.focusSeconds,
     goal |-> IF d.goal = NoGoal THEN state.goal ELSE d.goal]

\* Mutant: replaying never checks.
ConflictsNever(state, d) == FALSE

\* The check replaying makes before it overwrites a text: the stored text must
\* be the one the edit started from or the one it writes.  Only the first change
\* of a path can fail it; the later ones start from what the first one wrote.
Conflicts(state, d) ==
    \E k \in Keys : /\ d.notes[k].changed
                    /\ state.notes[k] \notin {d.notes[k].before, d.notes[k].first}

\* Mutant: only the last change of a path is kept, and a step can be in both
\* lists at once.
ComposeLast(p, d) ==
    [notes |-> [k \in Keys |-> IF d.notes[k].changed THEN d.notes[k] ELSE p.notes[k]],
     completed |-> p.completed \cup d.completed,
     checked |-> p.checked \cup d.checked,
     unchecked |-> p.unchecked \cup d.unchecked,
     counted |-> p.counted \/ d.counted,
     focusSeconds |-> p.focusSeconds + d.focusSeconds,
     goal |-> IF d.goal = NoGoal THEN p.goal ELSE d.goal]

\* pending.push(...changes): what replaying first p and then d comes to.
Compose(p, d) ==
    [notes |-> [k \in Keys |->
        IF ~d.notes[k].changed THEN p.notes[k]
        ELSE IF ~p.notes[k].changed THEN d.notes[k]
        ELSE [p.notes[k] EXCEPT !.value = d.notes[k].value]],
     completed |-> p.completed \cup d.completed,
     checked |-> (p.checked \ d.unchecked) \cup d.checked,
     unchecked |-> (p.unchecked \ d.checked) \cup d.unchecked,
     counted |-> p.counted \/ d.counted,
     focusSeconds |-> p.focusSeconds + d.focusSeconds,
     goal |-> IF d.goal = NoGoal THEN p.goal ELSE d.goal]

\* Mutant: signing in adds the two counters.
AdoptAdding(account, local) ==
    [notes |-> [k \in Keys |->
        IF account.notes[k] # NoText THEN account.notes[k] ELSE local.notes[k]],
     completed |-> account.completed \cup local.completed,
     checks |-> account.checks \cup local.checks,
     focusSeconds |-> account.focusSeconds + local.focusSeconds,
     goal |-> account.goal]

\* First contact between a device and an account: the account's text and
\* scalars win, the device fills the texts the account lacks, sets unite and
\* counters take the larger side.
AdoptState(account, local) ==
    SanitizeState(
      [notes |-> [k \in Keys |->
          IF account.notes[k] # NoText THEN account.notes[k] ELSE local.notes[k]],
       completed |-> account.completed \cup local.completed,
       checks |-> account.checks \cup local.checks,
       focusSeconds |-> IF account.focusSeconds >= local.focusSeconds
                        THEN account.focusSeconds ELSE local.focusSeconds,
       goal |-> account.goal])
=============================================================================
