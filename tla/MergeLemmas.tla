----------------------------- MODULE MergeLemmas -----------------------------
(***************************************************************************)
(* What the merge rules return, for every set of keys, texts, lessons,     *)
(* steps and goals; and induction over the natural numbers, for the        *)
(* modules about what runs through a list.                                 *)
(***************************************************************************)
EXTENDS MergeRules, WellFoundedInduction, TLAPS

\* The record a new learner starts from is a record (core.js freshState).
LEMMA FreshStateType == FreshState \in State
<1>1. DefaultGoal \in Goals
  BY MergeAssumption DEF DefaultGoal
<1>2. QED
  BY <1>1 DEF FreshState, State, Text

\* Sanitizing a record gives a record whose counter is not negative.
LEMMA SanitizeType ==
    ASSUME NEW s \in State
    PROVE  SanitizeState(s) \in State /\ SanitizeState(s).focusSeconds >= 0
BY DEF SanitizeState, State

\* The empty list of changes is a list of changes.
LEMMA NoChangesType == NoChanges \in Delta
BY DEF NoChanges, Delta, NoTextEdit, TextEdit, Text

\* What a learner does gives a record, takes no lesson back and no practice.
LEMMA EditsType ==
    ASSUME NEW s \in State, NEW next \in Edits(s)
    PROVE  /\ next \in State
           /\ s.completed \subseteq next.completed
           /\ s.focusSeconds <= next.focusSeconds
<1>1. CASE \E k \in Keys, x \in Text : next = [s EXCEPT !.notes[k] = x]
  BY <1>1 DEF State
<1>2. CASE \E l \in Lessons : next = [s EXCEPT !.completed = @ \cup {l}]
  BY <1>2 DEF State
<1>3. CASE \E i \in Steps : next = [s EXCEPT !.checks = @ \cup {i}]
  BY <1>3 DEF State
<1>4. CASE \E i \in Steps : next = [s EXCEPT !.checks = @ \ {i}]
  BY <1>4 DEF State
<1>5. CASE next = [s EXCEPT !.focusSeconds = @ + 1]
  BY <1>5 DEF State
<1>6. CASE \E g \in Goals : next = [s EXCEPT !.goal = g]
  BY <1>6 DEF State
<1>7. QED
  BY <1>1, <1>2, <1>3, <1>4, <1>5, <1>6 DEF Edits

\* The changes between two records are a list of changes.
LEMMA ChangesType ==
    ASSUME NEW b \in State, NEW a \in State
    PROVE  ProgressChanges(b, a) \in Delta
BY DEF ProgressChanges, State, Delta, NoTextEdit, TextEdit, Text

\* Replaying a list of changes on a record gives a record.
LEMMA ApplyType ==
    ASSUME NEW s \in State, NEW d \in Delta
    PROVE  ApplyProgressChanges(s, d) \in State
BY DEF ApplyProgressChanges, State, Delta, TextEdit

\* Combining an account's record with a device's gives a record.
LEMMA AdoptType ==
    ASSUME NEW a \in State, NEW b \in State
    PROVE  AdoptState(a, b) \in State
<1> DEFINE merged ==
      [notes |-> [k \in Keys |-> IF a.notes[k] # NoText THEN a.notes[k] ELSE b.notes[k]],
       completed |-> a.completed \cup b.completed,
       checks |-> a.checks \cup b.checks,
       focusSeconds |-> IF a.focusSeconds >= b.focusSeconds
                        THEN a.focusSeconds ELSE b.focusSeconds,
       goal |-> a.goal]
<1>1. merged \in State
  BY DEF State
<1>2. AdoptState(a, b) = SanitizeState(merged)
  BY DEF AdoptState
<1>3. QED
  BY <1>1, <1>2, SanitizeType

\* Two lists of changes, one after the other, are a list of changes.
LEMMA ComposeType ==
    ASSUME NEW p \in Delta, NEW d \in Delta
    PROVE  Compose(p, d) \in Delta
BY DEF Compose, Delta, TextEdit

\* Replaying nothing changes nothing.
LEMMA ApplyNothing ==
    ASSUME NEW s \in State
    PROVE  ApplyProgressChanges(s, NoChanges) = s
BY DEF ApplyProgressChanges, NoChanges, State, NoTextEdit

\* Pending changes extended by what turns the shown record into the next one
\* lead from the base record to the next one.
LEMMA ComposeApply ==
    ASSUME NEW b \in State, NEW p \in Delta, NEW next \in State,
           ApplyProgressChanges(b, p).completed \subseteq next.completed
    PROVE  LET s == ApplyProgressChanges(b, p)
               all == Compose(p, ProgressChanges(s, next)) IN
           ApplyProgressChanges(b, all) = next
<1> DEFINE s == ApplyProgressChanges(b, p)
           all == Compose(p, ProgressChanges(s, next))
           r == ApplyProgressChanges(b, all)
<1>1. r.notes = next.notes
  <2>1. r.notes = [k \in Keys |->
                     IF all.notes[k].changed THEN all.notes[k].value ELSE b.notes[k]]
    BY DEF ApplyProgressChanges
  <2>2. s.notes = [k \in Keys |->
                     IF p.notes[k].changed THEN p.notes[k].value ELSE b.notes[k]]
    BY DEF ApplyProgressChanges
  <2>3. ASSUME NEW k \in Keys
        PROVE  r.notes[k] = next.notes[k]
    <3> DEFINE d == ProgressChanges(s, next)
    <3>1. p.notes[k] \in TextEdit
      BY DEF Delta
    <3>2. d.notes[k] = IF s.notes[k] = next.notes[k] THEN NoTextEdit
                       ELSE [changed |-> TRUE, before |-> s.notes[k],
                             first |-> next.notes[k], value |-> next.notes[k]]
      BY DEF ProgressChanges
    <3>3. all.notes[k] = IF ~d.notes[k].changed THEN p.notes[k]
                         ELSE IF ~p.notes[k].changed THEN d.notes[k]
                         ELSE [p.notes[k] EXCEPT !.value = d.notes[k].value]
      BY DEF Compose
    <3> HIDE DEF d, all, r, s
    <3>4. CASE s.notes[k] = next.notes[k]
      BY <2>1, <2>2, <3>2, <3>3, <3>4 DEF NoTextEdit
    <3>5. CASE s.notes[k] # next.notes[k]
      BY <2>1, <2>2, <3>1, <3>2, <3>3, <3>5 DEF TextEdit
    <3>6. QED
      BY <3>4, <3>5
  <2>4. next.notes = [k \in Keys |-> next.notes[k]]
    BY DEF State
  <2>5. QED
    BY <2>1, <2>3, <2>4
<1>2. r.completed = next.completed
  BY DEF ApplyProgressChanges, Compose, ProgressChanges, State, Delta
<1>3. r.checks = next.checks
  BY DEF ApplyProgressChanges, Compose, ProgressChanges, State, Delta
<1>4. r.focusSeconds = next.focusSeconds
  BY DEF ApplyProgressChanges, Compose, ProgressChanges, State, Delta
<1>5. r.goal = next.goal
  BY MergeAssumption DEF ApplyProgressChanges, Compose, ProgressChanges, State, Delta
<1>6. r = [notes |-> r.notes, completed |-> r.completed, checks |-> r.checks,
           focusSeconds |-> r.focusSeconds, goal |-> r.goal]
  BY DEF ApplyProgressChanges
<1>7. next = [notes |-> next.notes, completed |-> next.completed, checks |-> next.checks,
              focusSeconds |-> next.focusSeconds, goal |-> next.goal]
  BY DEF State
<1>8. QED
  BY <1>1, <1>2, <1>3, <1>4, <1>5, <1>6, <1>7

\* Replaying the composed changes of a tab is replaying what was pending and then
\* the newest edit: refused on the same records, with the same result on the others
\* (applyProgressChanges() replays the list; pending.push() extends it).
THEOREM ComposingIsReplayingBoth ==
    ASSUME NEW b \in State, NEW p \in Delta, NEW next \in State, NEW s \in State
    PROVE  LET d == ProgressChanges(ApplyProgressChanges(b, p), next)
               all == Compose(p, d)
               after == ApplyProgressChanges(s, p) IN
           /\ Conflicts(s, all) <=> Conflicts(s, p) \/ Conflicts(after, d)
           /\ ApplyProgressChanges(s, all) = ApplyProgressChanges(after, d)
<1> DEFINE d == ProgressChanges(ApplyProgressChanges(b, p), next)
           all == Compose(p, d)
           after == ApplyProgressChanges(s, p)
<1>1. ASSUME NEW k \in Keys
      PROVE  /\ p.notes[k] \in TextEdit /\ d.notes[k] \in TextEdit
             /\ all.notes[k] = IF ~d.notes[k].changed THEN p.notes[k]
                               ELSE IF ~p.notes[k].changed THEN d.notes[k]
                               ELSE [p.notes[k] EXCEPT !.value = d.notes[k].value]
             /\ after.notes[k] = IF p.notes[k].changed THEN p.notes[k].value ELSE s.notes[k]
             /\ p.notes[k].changed /\ d.notes[k].changed => d.notes[k].before = p.notes[k].value
  <2>1. d \in Delta
    BY ApplyType, ChangesType
  <2>2. d.notes[k] = IF ApplyProgressChanges(b, p).notes[k] = next.notes[k] THEN NoTextEdit
                     ELSE [changed |-> TRUE, before |-> ApplyProgressChanges(b, p).notes[k],
                           first |-> next.notes[k], value |-> next.notes[k]]
    BY DEF ProgressChanges
  <2>3. p.notes[k].changed => ApplyProgressChanges(b, p).notes[k] = p.notes[k].value
    BY DEF ApplyProgressChanges
  <2>4. p.notes[k].changed /\ d.notes[k].changed => d.notes[k].before = p.notes[k].value
    <3> HIDE DEF d
    <3>1. QED
      BY <2>2, <2>3 DEF NoTextEdit
  <2>5. p.notes[k] \in TextEdit /\ d.notes[k] \in TextEdit
    BY <2>1 DEF Delta
  <2>6. after.notes[k] = IF p.notes[k].changed THEN p.notes[k].value ELSE s.notes[k]
    BY DEF ApplyProgressChanges
  <2>7. all.notes[k] = IF ~d.notes[k].changed THEN p.notes[k]
                       ELSE IF ~p.notes[k].changed THEN d.notes[k]
                       ELSE [p.notes[k] EXCEPT !.value = d.notes[k].value]
    <3> HIDE DEF d
    <3>1. QED
      BY DEF Compose
  <2>8. QED
    BY <2>4, <2>5, <2>6, <2>7
<1>2. d.checked \cap d.unchecked = {}
  BY DEF ProgressChanges
<1> HIDE DEF d
<1>3. ASSUME NEW k \in Keys
      PROVE  (all.notes[k].changed /\ s.notes[k] \notin {all.notes[k].before, all.notes[k].first})
               <=> \/ p.notes[k].changed /\ s.notes[k] \notin {p.notes[k].before, p.notes[k].first}
                   \/ /\ d.notes[k].changed
                      /\ after.notes[k] \notin {d.notes[k].before, d.notes[k].first}
  <2> HIDE DEF all, after
  <2>1. QED
    BY <1>1 DEF TextEdit
<1>4. Conflicts(s, all) <=> Conflicts(s, p) \/ Conflicts(after, d)
  <2> HIDE DEF all, after
  <2>1. QED
    BY <1>3 DEF Conflicts
<1> DEFINE once == ApplyProgressChanges(s, all)
           twice == ApplyProgressChanges(after, d)
<1>5. once.notes = twice.notes
  <2>1. /\ once.notes = [k \in Keys |->
                           IF all.notes[k].changed THEN all.notes[k].value ELSE s.notes[k]]
        /\ twice.notes = [k \in Keys |->
                           IF d.notes[k].changed THEN d.notes[k].value ELSE after.notes[k]]
    BY DEF ApplyProgressChanges
  <2> HIDE DEF all, after, once, twice
  <2>2. ASSUME NEW k \in Keys PROVE once.notes[k] = twice.notes[k]
    <3>1. once.notes[k] = IF all.notes[k].changed THEN all.notes[k].value ELSE s.notes[k]
      BY <2>1
    <3>2. twice.notes[k] = IF d.notes[k].changed THEN d.notes[k].value ELSE after.notes[k]
      BY <2>1
    <3>3. CASE ~d.notes[k].changed
      BY <1>1, <3>1, <3>2, <3>3
    <3>4. CASE d.notes[k].changed /\ ~p.notes[k].changed
      BY <1>1, <3>1, <3>2, <3>4
    <3>5. CASE d.notes[k].changed /\ p.notes[k].changed
      <4>1. /\ all.notes[k].changed = p.notes[k].changed
            /\ all.notes[k].value = d.notes[k].value
        BY <1>1, <3>5 DEF TextEdit
      <4>2. QED
        BY <3>1, <3>2, <3>5, <4>1
    <3>6. QED
      BY <3>3, <3>4, <3>5
  <2>3. QED
    BY <2>1, <2>2
<1>6. once.completed = twice.completed
  BY DEF ApplyProgressChanges, Compose
<1>7. once.checks = twice.checks
  BY <1>2 DEF ApplyProgressChanges, Compose
<1>8. once.focusSeconds = twice.focusSeconds
  <2>1. s.focusSeconds \in Int /\ p.focusSeconds \in Int /\ d.focusSeconds \in Int
    BY ApplyType, ChangesType DEF State, Delta, d
  <2>2. QED
    BY <2>1 DEF ApplyProgressChanges, Compose
<1>9. once.goal = twice.goal
  BY DEF ApplyProgressChanges, Compose
<1>10. /\ once = [notes |-> once.notes, completed |-> once.completed, checks |-> once.checks,
                  focusSeconds |-> once.focusSeconds, goal |-> once.goal]
       /\ twice = [notes |-> twice.notes, completed |-> twice.completed, checks |-> twice.checks,
                   focusSeconds |-> twice.focusSeconds, goal |-> twice.goal]
  BY DEF ApplyProgressChanges
<1> HIDE DEF once, twice
<1>11. once = twice
  BY <1>5, <1>6, <1>7, <1>8, <1>9, <1>10
<1>12. QED
  BY <1>4, <1>11 DEF once, twice, d

-----------------------------------------------------------------------------
\* Induction over the naturals, of a set: what the library states of a predicate.

\* A set of naturals that is not empty has a least element.
LEMMA LeastNatural ==
    ASSUME NEW T \in SUBSET Nat, T # {}
    PROVE  \E n \in T : \A m \in T : n <= m
<1> DEFINE R == OpToRel(<, Nat)
<1>1. IsWellFoundedOn(R, Nat)
  BY NatLessThanWellFounded
<1>2. \A m, n \in Nat : m < n => <<m, n>> \in R
  BY DEF OpToRel
<1> HIDE DEF R
<1>3. PICK n \in T : \A y \in T : ~(<<y, n>> \in R)
  BY <1>1, WFMin
<1>4. n \in Nat /\ \A m \in T : m \in Nat
  OBVIOUS
<1>5. ASSUME NEW m \in T PROVE ~(m < n)
  BY <1>2, <1>3, <1>4
<1> QED
  BY <1>4, <1>5

\* A set of naturals that has 0 and, with a number, the next has them all.
LEMMA NatInductionOnASet ==
    ASSUME NEW P \in SUBSET Nat, 0 \in P, \A n \in P : n + 1 \in P
    PROVE  P = Nat
<1> SUFFICES ASSUME Nat \ P # {} PROVE FALSE
  OBVIOUS
<1>1. PICK n \in Nat \ P : \A m \in Nat \ P : n <= m
  BY LeastNatural
<1>2. n # 0 /\ n - 1 \in Nat /\ n - 1 \in P
  BY <1>1
<1> QED
  BY <1>1, <1>2

\* Steps taken one after the other from a start.
StepsOn(S, step, n) == step \in [1 .. n -> [S -> S]]

Follows(f, S, start, step, n) ==
    f \in [0 .. n -> S] /\ f[0] = start /\ \A m \in 1 .. n : f[m] = step[m][f[m - 1]]

\* What is defined step by step exists for any number of steps.
LEMMA StepsAfterSteps ==
    ASSUME NEW n \in Nat, NEW S, NEW start \in S, NEW step, StepsOn(S, step, n)
    PROVE  \E f : Follows(f, S, start, step, n)
<1> USE DEF StepsOn, Follows
<1> DEFINE Walked(f, k) == /\ f \in [0 .. k -> S] /\ f[0] = start
                           /\ \A m \in 1 .. k : f[m] = step[m][f[m - 1]]
           P == {k \in Nat : k <= n => \E f : Walked(f, k)}
<1>1. 0 \in P
  <2> DEFINE f == [m \in 0 .. 0 |-> start]
  <2>1. Walked(f, 0)
    OBVIOUS
  <2> QED
    BY <2>1
<1>2. ASSUME NEW k \in P PROVE k + 1 \in P
  <2>1. SUFFICES ASSUME k + 1 <= n PROVE \E f : Walked(f, k + 1)
    OBVIOUS
  <2>2. k \in Nat /\ k <= n
    BY <2>1
  <2>3. PICK f : Walked(f, k)
    BY <2>2
  <2> DEFINE g == [m \in 0 .. k + 1 |-> IF m <= k THEN f[m] ELSE step[k + 1][f[k]]]
  <2>4. f \in [0 .. k -> S] /\ f[0] = start /\ \A m \in 1 .. k : f[m] = step[m][f[m - 1]]
    BY <2>3
  <2>5. step[k + 1] \in [S -> S] /\ f[k] \in S
    BY <2>1, <2>2, <2>4
  <2>6. step[k + 1][f[k]] \in S
    BY <2>5
  <2>7. g \in [0 .. k + 1 -> S] /\ g[0] = start
    BY <2>2, <2>4, <2>6
  <2>8. ASSUME NEW m \in 1 .. k + 1 PROVE g[m] = step[m][g[m - 1]]
    <3>1. CASE m \in 1 .. k
      <4>1. m \in 0 .. k + 1 /\ m <= k /\ m - 1 \in 0 .. k + 1 /\ m - 1 <= k
        BY <2>2, <3>1
      <4>2. g[m] = f[m] /\ g[m - 1] = f[m - 1]
        BY <4>1
      <4> QED
        BY <2>4, <3>1, <4>2
    <3>2. CASE m = k + 1
      <4>1. m \in 0 .. k + 1 /\ ~(m <= k) /\ m - 1 = k /\ k \in 0 .. k + 1 /\ k <= k
        BY <2>2, <3>2
      <4>2. g[m] = step[k + 1][f[k]] /\ g[k] = f[k]
        BY <4>1
      <4> QED
        BY <3>2, <4>1, <4>2
    <3> QED
      BY <2>2, <3>1, <3>2
  <2> HIDE DEF g
  <2> QED
    BY <2>7, <2>8
<1>3. P = Nat
  <2>1. P \in SUBSET Nat
    OBVIOUS
  <2> HIDE DEF P
  <2> QED
    BY <1>1, <1>2, <2>1, NatInductionOnASet
<1>4. n \in P /\ n <= n
  <2> HIDE DEF P
  <2> QED
    BY <1>3
<1>5. PICK f : Walked(f, n)
  BY <1>4
<1> QED
  BY <1>5
=============================================================================
