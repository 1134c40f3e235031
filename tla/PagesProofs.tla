----------------------------- MODULE PagesProofs -----------------------------
(***************************************************************************)
(* Theorems about the parts that MCPages explores side by side, each for   *)
(* any values of its constants: the account routes of the web edition      *)
(* (WebAccounts), two tabs of one record (TwoWriters), the learning        *)
(* pages of both editions (Studio, WebStudio), the static edition's frame, *)
(* help and workbench (StaticPages), buying Pro and what it opens          *)
(* (Checkout, Access), the focus timer (FocusTimer) and the rules practice *)
(* is rewarded by (Habits); and, at the end, that every part behaves side  *)
(* by side as it does alone.                                               *)
(***************************************************************************)
EXTENDS MCPages, MergeLemmas, FiniteSetTheorems, FunctionTheorems, SequenceTheorems,
        WellFoundedInduction, TLAPS

\* What the rows of an account have to do with it, for as long as it lives and
\* after: the strengthening that makes the routes' properties inductive.  A route
\* under way knows its learner, but not whether the account is still there.
RowsFollowAccount ==
    \A a \in Learners : ~Exists(a) =>
        /\ code[a] = NoCode /\ entry[a] = "no" /\ ~verified[a]
        /\ referrer[a] = Nobody /\ \A b \in Learners : referrer[b] # a

CodesAreUnique ==
    \A a, b \in Learners : a # b /\ code[a] # NoCode => code[a] # code[b]

ToldIsKept ==
    \A a \in Learners :
        /\ account[a] = "none" => told[a] = {}
        /\ Exists(a) => told[a] \subseteq {code[a]} \ {NoCode}

RoutesKnowTheirLearner ==
    \A r \in Routes : /\ ~At(r, "idle") => Who(r) \in Learners
                      /\ At(r, "insert") => route[r].code \in Codes

AccountsInv == /\ AccountsTypeOK
               /\ RowsFollowAccount /\ CodesAreUnique /\ ToldIsKept
               /\ RoutesKnowTheirLearner

\* A route that ends, or tries another code, is a route that knows its learner.
LEMMA RouteMoves ==
    ASSUME AccountsTypeOK, RoutesKnowTheirLearner, NEW r \in Routes,
           Returns(r) \/ Tries(r) \/ route' = route
             \/ \E step \in {"readBack", "publish"} : route' = [route EXCEPT ![r].step = step],
           ~At(r, "idle")
    PROVE  route' \in [Routes -> Route] /\ RoutesKnowTheirLearner'
<1>1. NoRoute \in Route
  BY AccountsAssumption DEF NoRoute, Route
<1>2. CASE Returns(r)
  BY <1>1, <1>2 DEF Returns, AccountsTypeOK, RoutesKnowTheirLearner, At, Who, NoRoute
<1>3. CASE Tries(r) /\ ~Returns(r)
  <2>1. route[r].mints # MaxMints
    BY <1>3 DEF Tries
  <2>2. PICK c \in Codes :
          route' = [route EXCEPT ![r].step = "insert", ![r].code = c, ![r].mints = @ + 1]
    BY <1>3, <2>1 DEF Tries
  <2>3. route[r] \in Route /\ route[r].mints + 1 \in 0 .. MaxMints
    BY <2>1, AccountsAssumption DEF AccountsTypeOK, Route
  <2> DEFINE next == [route[r] EXCEPT !.step = "insert", !.code = c,
                                       !.mints = route[r].mints + 1]
  <2>4. /\ next \in Route /\ next.step = "insert" /\ next.code = c
        /\ next.learner = route[r].learner
    BY <2>3 DEF Route
  <2>5. route' = [route EXCEPT ![r] = next]
    BY <2>2 DEF AccountsTypeOK
  <2> HIDE DEF next
  <2>6. QED
    BY <2>4, <2>5 DEF AccountsTypeOK, RoutesKnowTheirLearner, At, Who
<1>4. CASE \E step \in {"readBack", "publish"} : route' = [route EXCEPT ![r].step = step]
  <2>1. PICK step \in {"readBack", "publish"} : route' = [route EXCEPT ![r].step = step]
    BY <1>4
  <2> DEFINE next == [route[r] EXCEPT !.step = step]
  <2>2. next \in Route /\ next.step = step /\ next.learner = route[r].learner
    BY DEF AccountsTypeOK, Route
  <2>3. route' = [route EXCEPT ![r] = next]
    BY <2>1
  <2> HIDE DEF next
  <2>4. QED
    BY <2>2, <2>3 DEF AccountsTypeOK, RoutesKnowTheirLearner, At, Who
<1>5. CASE route' = route
  BY <1>5 DEF AccountsTypeOK, RoutesKnowTheirLearner, At, Who
<1>6. QED
  BY <1>2, <1>3, <1>4, <1>5

\* Signing up gives a learner rows of their own, and a referrer who has the code.
LEMMA SignUpKeeps ==
    ASSUME AccountsInv, NEW a \in Learners, SignUp(a)
    PROVE  AccountsInv'
<1> USE DEF AccountsInv
<1>1. PICK given \in Codes \cup {NoCode} :
        /\ account[a] = "none"
        /\ account' = [account EXCEPT ![a] = "live"]
        /\ \/ referrer' = referrer
           \/ \E b \in Learners : /\ code[b] = given /\ given # NoCode
                                  /\ referrer' = [referrer EXCEPT ![a] = b]
  BY DEF SignUp
<1>2. UNCHANGED <<code, entry, verified, route, told>>
  BY DEF SignUp
<1>3. AccountsTypeOK'
  BY <1>1, <1>2 DEF AccountsTypeOK
<1>4. \A b \in Learners : code[b] # NoCode => Exists(b) /\ b # a
  BY <1>1 DEF RowsFollowAccount, Exists
<1>5. \A b \in Learners : Exists(b)' <=> Exists(b) \/ b = a
  BY <1>1 DEF AccountsTypeOK, Exists
<1>6. RowsFollowAccount'
  BY <1>1, <1>2, <1>4, <1>5 DEF RowsFollowAccount, AccountsTypeOK
<1>7. ToldIsKept'
  BY <1>1, <1>2, <1>5 DEF ToldIsKept, AccountsTypeOK, Exists
<1>8. QED
  BY <1>2, <1>3, <1>6, <1>7 DEF CodesAreUnique, RoutesKnowTheirLearner, At, Who

\* A code is minted for the learner of the route only where none was, and only if
\* nobody has it (the two unique indexes of referral_codes).
LEMMA InsertKeeps ==
    ASSUME AccountsInv, NEW r \in Routes, Insert(r)
    PROVE  AccountsInv'
<1> USE DEF AccountsInv
<1> DEFINE a == Who(r)
           c == route[r].code
<1>1. a \in Learners /\ c \in Codes /\ c # NoCode
  BY AccountsAssumption DEF Insert, RoutesKnowTheirLearner, At
<1>2. /\ Exists(a) /\ code[a] = NoCode
      /\ \A b \in Learners \ {a} : code[b] # c
      /\ code' = [code EXCEPT ![a] = c]
      /\ told' = [told EXCEPT ![a] = @ \cup {c}]
      /\ Returns(r) /\ ~At(r, "idle")
      /\ UNCHANGED <<account, referrer, entry, verified>>
  BY DEF Insert, Free, Others, At
<1>3. route' \in [Routes -> Route] /\ RoutesKnowTheirLearner'
  BY <1>2, RouteMoves
<1> HIDE DEF a, c
<1>4. AccountsTypeOK'
  BY <1>1, <1>2, <1>3 DEF AccountsTypeOK
<1>5. told[a] = {}
  BY <1>1, <1>2 DEF ToldIsKept
<1>6. /\ code'[a] = c /\ told'[a] = {c}
      /\ \A b \in Learners \ {a} : code'[b] = code[b] /\ told'[b] = told[b]
  BY <1>1, <1>2, <1>5 DEF AccountsTypeOK
<1>7. RowsFollowAccount' /\ CodesAreUnique' /\ ToldIsKept'
  <2>1. RowsFollowAccount'
    BY <1>1, <1>2, <1>6 DEF RowsFollowAccount, Exists
  <2>2. CodesAreUnique'
    BY <1>1, <1>2, <1>6 DEF CodesAreUnique
  <2>3. ToldIsKept'
    BY <1>1, <1>2, <1>6 DEF ToldIsKept, Exists
  <2>4. QED
    BY <2>1, <2>2, <2>3
<1>8. QED
  BY <1>3, <1>4, <1>7

\* A learner is told the code of their own row.
LEMMA LookupKeeps ==
    ASSUME AccountsInv, NEW r \in Routes, Lookup(r)
    PROVE  AccountsInv'
<1> USE DEF AccountsInv
<1> DEFINE a == Who(r)
<1>1. ~At(r, "idle") /\ a \in Learners
  BY DEF Lookup, RoutesKnowTheirLearner, At
<1>2. /\ UNCHANGED <<account, code, referrer, entry, verified>>
      /\ \/ /\ code[a] # NoCode
            /\ told' = [told EXCEPT ![a] = @ \cup {code[a]}]
            /\ Returns(r)
         \/ told' = told /\ Tries(r)
  BY DEF Lookup
<1>3. route' \in [Routes -> Route] /\ RoutesKnowTheirLearner'
  BY <1>1, <1>2, RouteMoves
<1> HIDE DEF a
<1>4. RowsFollowAccount' /\ CodesAreUnique'
  BY <1>2 DEF RowsFollowAccount, CodesAreUnique, Exists
<1>5. code[a] # NoCode => Exists(a) /\ code[a] \in Codes
  BY <1>1 DEF RowsFollowAccount, AccountsTypeOK
<1>6. AccountsTypeOK'
  BY <1>1, <1>2, <1>3, <1>5 DEF AccountsTypeOK
<1>7. ToldIsKept'
  BY <1>1, <1>2, <1>5 DEF ToldIsKept, AccountsTypeOK, Exists
<1>8. QED
  BY <1>3, <1>4, <1>6, <1>7

\* Erasing an account takes every row that refers to it.
LEMMA EraseKeeps ==
    ASSUME AccountsInv, NEW a \in Learners, Erase(a)
    PROVE  AccountsInv'
<1> USE DEF AccountsInv
<1>1. /\ account' = [account EXCEPT ![a] = "erased"]
      /\ code' = [code EXCEPT ![a] = NoCode]
      /\ referrer' = [b \in Learners |->
                        IF b = a \/ referrer[b] = a THEN Nobody ELSE referrer[b]]
      /\ entry' = [entry EXCEPT ![a] = "no"]
      /\ verified' = [verified EXCEPT ![a] = FALSE]
      /\ UNCHANGED <<route, told>>
  BY DEF Erase
<1>2. AccountsTypeOK'
  BY <1>1 DEF AccountsTypeOK
<1>3. \A b \in Learners : Exists(b)' <=> Exists(b) /\ b # a
  BY <1>1 DEF AccountsTypeOK, Exists
<1>4. RowsFollowAccount'
  BY <1>1, <1>3, AccountsAssumption DEF RowsFollowAccount, AccountsTypeOK
<1>5. CodesAreUnique'
  BY <1>1 DEF CodesAreUnique, AccountsTypeOK
<1>6. ToldIsKept'
  BY <1>1, <1>3 DEF ToldIsKept, AccountsTypeOK, Exists
<1>7. QED
  BY <1>1, <1>2, <1>4, <1>5, <1>6 DEF RoutesKnowTheirLearner, At, Who

\* The other routes write at most the listing or the verification of a learner
\* whose account is there.
LEMMA OtherRoutesKeep ==
    ASSUME AccountsInv, NEW r \in Routes,
           \/ \E a \in Learners, step \in {"mint", "rank", "grant"} : Start(r, a, step)
           \/ InsertRefused(r) \/ Rank(r) \/ PublishXp(r) \/ Grant(r)
    PROVE  AccountsInv'
<1> USE DEF AccountsInv
<1>1. /\ UNCHANGED <<account, code, referrer, told>>
      /\ \/ entry' = entry
         \/ Who(r) \in Learners /\ Exists(Who(r)) /\ entry' = [entry EXCEPT ![Who(r)] = "shown"]
      /\ \/ verified' = verified
         \/ Who(r) \in Learners /\ Exists(Who(r)) /\ verified' = [verified EXCEPT ![Who(r)] = TRUE]
  BY DEF Start, InsertRefused, Rank, PublishXp, Grant, RoutesKnowTheirLearner, At
<1>2. route' \in [Routes -> Route] /\ RoutesKnowTheirLearner'
  <2>1. CASE \E a \in Learners, step \in {"mint", "rank", "grant"} : Start(r, a, step)
    <3>1. PICK a \in Learners, step \in {"mint", "rank", "grant"} :
            route' = [route EXCEPT ![r] = [NoRoute EXCEPT !.step = step, !.learner = a]]
      BY <2>1 DEF Start
    <3> DEFINE begun == [NoRoute EXCEPT !.step = step, !.learner = a]
    <3>2. begun \in Route /\ begun.step = step /\ begun.learner = a
      <4>1. NoRoute \in Route
        BY AccountsAssumption DEF NoRoute, Route
      <4>2. step \in {"mint", "rank", "grant"}
        OBVIOUS
      <4>3. QED
        BY <4>1, <4>2 DEF Route
    <3>3. route' = [route EXCEPT ![r] = begun]
      BY <3>1
    <3> HIDE DEF begun
    <3>4. QED
      BY <3>2, <3>3 DEF AccountsTypeOK, RoutesKnowTheirLearner, At, Who
  <2>2. CASE InsertRefused(r) \/ Rank(r) \/ PublishXp(r) \/ Grant(r)
    <3>1. ~At(r, "idle")
      BY <2>2 DEF InsertRefused, Rank, PublishXp, Grant, At
    <3>2. \/ Returns(r)
          \/ route' = [route EXCEPT ![r].step = "readBack"]
          \/ route' = [route EXCEPT ![r].step = "publish"]
      BY <2>2 DEF InsertRefused, Rank, PublishXp, Grant
    <3>3. QED
      BY <3>1, <3>2, RouteMoves
  <2>3. QED
    BY <2>1, <2>2
<1>3. AccountsTypeOK'
  BY <1>1, <1>2 DEF AccountsTypeOK
<1>4. RowsFollowAccount'
  BY <1>1 DEF RowsFollowAccount, Exists, AccountsTypeOK
<1>5. CodesAreUnique' /\ ToldIsKept'
  BY <1>1 DEF CodesAreUnique, ToldIsKept, Exists
<1>6. QED
  BY <1>2, <1>3, <1>4, <1>5

\* A learner leaves the board.
LEMMA OptOutKeeps ==
    ASSUME AccountsInv, NEW a \in Learners, OptOut(a)
    PROVE  AccountsInv'
BY DEF OptOut, AccountsInv, AccountsTypeOK, RowsFollowAccount, CodesAreUnique, ToldIsKept,
       RoutesKnowTheirLearner, Exists, At, Who

\* The strengthened invariant of the account routes holds in every reachable state.
THEOREM AccountsInvariant == AccountsSpec => []AccountsInv
<1>1. AccountsInit => AccountsInv
  BY AccountsAssumption
  DEF AccountsInit, AccountsInv, AccountsTypeOK, RowsFollowAccount, CodesAreUnique, ToldIsKept,
      RoutesKnowTheirLearner, Exists, At, Who, NoRoute, Route
<1>2. AccountsInv /\ [AccountsNext]_accountVars => AccountsInv'
  <2> SUFFICES ASSUME AccountsInv, [AccountsNext]_accountVars PROVE AccountsInv'
    OBVIOUS
  <2>1. CASE UNCHANGED accountVars
    BY <2>1 DEF accountVars, AccountsInv, AccountsTypeOK, RowsFollowAccount, CodesAreUnique,
       ToldIsKept, RoutesKnowTheirLearner, Exists, At, Who
  <2>2. CASE AccountsNext
    BY <2>2, SignUpKeeps, OptOutKeeps, EraseKeeps, LookupKeeps, InsertKeeps, OtherRoutesKeep
    DEF AccountsNext
  <2>3. QED
    BY <2>1, <2>2
<1>3. QED
  BY <1>1, <1>2, PTL DEF AccountsSpec

\* However the requests of learners interleave with one another and with the
\* erasure of their accounts: a code a learner was shown is theirs alone while the
\* account lives, and an erased account leaves no code, listing, verification or
\* referral behind.
THEOREM AccountsStayWhole == AccountsSpec => []AccountsAreWhole
<1>1. AccountsInv => AccountsAreWhole
  <2> SUFFICES ASSUME AccountsInv PROVE AccountsAreWhole
    OBVIOUS
  <2>1. CodeIsForGood
    BY DEF AccountsInv, ToldIsKept, CodesAreUnique, CodeIsForGood, Free
  <2>2. NothingOutlivesTheAccount
    BY DEF AccountsInv, RowsFollowAccount, NothingOutlivesTheAccount, Exists
  <2>3. QED
    BY <2>1, <2>2 DEF AccountsAreWhole
<1>2. QED
  BY <1>1, AccountsInvariant, PTL

-----------------------------------------------------------------------------

\* What this writer's record and pending changes have to do with the record both
\* started from, and what the other writer may have done to it.
WritersInv ==
    /\ TypeOK
    /\ mine = ApplyProgressChanges(base, pending)
    /\ \A k \in Keys : pending.notes[k].changed => pending.notes[k].before = base.notes[k]
    /\ base.completed \subseteq theirs.completed
    /\ base.focusSeconds >= 0 /\ mine.focusSeconds >= 0 /\ theirs.focusSeconds >= 0

\* One more edit of this writer extends its pending changes (store.save()).
LEMMA EditMineKeeps == ASSUME WritersInv, EditMine PROVE WritersInv'
<1> USE DEF WritersInv
<1>1. PICK next \in Edits(mine) :
        LET d == ProgressChanges(mine, next) IN
        /\ mine' = next
        /\ pending' = Compose(pending, d)
        /\ log' = Append(log, d)
        /\ UNCHANGED <<base, theirs, theirEdits>>
  BY DEF EditMine
<1> DEFINE d == ProgressChanges(mine, next)
<1>2. mine \in State /\ base \in State /\ pending \in Delta /\ log \in Seq(Delta)
  BY DEF TypeOK
<1>3. /\ next \in State /\ mine.completed \subseteq next.completed
      /\ mine.focusSeconds <= next.focusSeconds
  BY <1>2, EditsType
<1>4. d \in Delta /\ Compose(pending, d) \in Delta
  BY <1>2, <1>3, ChangesType, ComposeType
<1>5. WellFormed(Compose(pending, d))
  <2>1. WellFormed(pending) /\ WellFormed(d)
    BY DEF TypeOK, WellFormed, ProgressChanges
  <2> HIDE DEF d
  <2>2. QED
    BY <2>1 DEF WellFormed, Compose
<1>6. next = ApplyProgressChanges(base, Compose(pending, d))
  BY <1>2, <1>3, ComposeApply
<1>7. next.focusSeconds >= 0
  <2>1. next.focusSeconds \in Int /\ mine.focusSeconds \in Int
    BY <1>2, <1>3 DEF State
  <2>2. QED
    BY <1>3, <2>1
<1>8. ASSUME NEW k \in Keys, pending'.notes[k].changed
      PROVE  pending'.notes[k].before = base.notes[k]
  <2>1. mine.notes[k] = IF pending.notes[k].changed THEN pending.notes[k].value
                        ELSE base.notes[k]
    BY DEF ApplyProgressChanges
  <2>2. d.notes[k] = IF mine.notes[k] = next.notes[k] THEN NoTextEdit
                     ELSE [changed |-> TRUE, before |-> mine.notes[k],
                           first |-> next.notes[k], value |-> next.notes[k]]
    BY DEF ProgressChanges
  <2>3. pending'.notes[k] = IF ~d.notes[k].changed THEN pending.notes[k]
                            ELSE IF ~pending.notes[k].changed THEN d.notes[k]
                            ELSE [pending.notes[k] EXCEPT !.value = d.notes[k].value]
    BY <1>1 DEF Compose
  <2>4. pending.notes[k] \in TextEdit
    BY <1>2 DEF Delta
  <2> HIDE DEF d
  <2>5. CASE pending.notes[k].changed
    BY <2>3, <2>4, <2>5 DEF TextEdit
  <2>6. CASE ~pending.notes[k].changed
    BY <1>8, <2>1, <2>2, <2>3, <2>6 DEF NoTextEdit
  <2>7. QED
    BY <2>5, <2>6
<1>9. TypeOK'
  <2> HIDE DEF d
  <2>1. Append(log, d) \in Seq(Delta)
    BY <1>2, <1>4
  <2>2. QED
    BY <1>1, <1>3, <1>4, <1>5, <2>1 DEF TypeOK, d
<1>10. QED
  BY <1>1, <1>6, <1>7, <1>8, <1>9

\* One more edit of the other writer reaches storage.
LEMMA EditTheirsKeeps == ASSUME WritersInv, EditTheirs PROVE WritersInv'
<1> USE DEF WritersInv
<1>1. /\ theirs' \in Edits(theirs) /\ theirEdits' = theirEdits + 1
      /\ UNCHANGED <<base, mine, pending, log>>
  BY DEF EditTheirs
<1>2. /\ theirs \in State /\ theirs' \in State
      /\ theirs.completed \subseteq theirs'.completed
      /\ theirs.focusSeconds <= theirs'.focusSeconds
  BY <1>1, EditsType DEF TypeOK
<1>3. theirs'.focusSeconds >= 0
  BY <1>2 DEF State
<1>4. TypeOK'
  BY <1>1, <1>2 DEF TypeOK
<1>5. QED
  BY <1>1, <1>2, <1>3, <1>4

\* The writers' strengthened invariant holds in every reachable state.
THEOREM WritersInvariant == Spec => []WritersInv
<1>1. Init => WritersInv
  <2> SUFFICES ASSUME Init PROVE WritersInv
    OBVIOUS
  <2>1. base \in State /\ FreshState.focusSeconds <= base.focusSeconds
    BY FreshStateType, EditsType DEF Init
  <2>2. base.focusSeconds >= 0
    BY <2>1 DEF FreshState, State
  <2>3. base = ApplyProgressChanges(base, NoChanges)
    BY <2>1, ApplyNothing
  <2>4. WellFormed(NoChanges) /\ \A k \in Keys : ~NoChanges.notes[k].changed
    BY DEF WellFormed, NoChanges, NoTextEdit
  <2>5. QED
    BY <2>1, <2>2, <2>3, <2>4, NoChangesType DEF Init, WritersInv, TypeOK
<1>2. WritersInv /\ [Next]_vars => WritersInv'
  <2>1. WritersInv /\ UNCHANGED vars => WritersInv'
    BY DEF WritersInv, TypeOK, vars
  <2>2. QED
    BY <2>1, EditMineKeeps, EditTheirsKeeps DEF Next
<1>3. QED
  BY <1>1, <1>2, PTL DEF Spec

\* Saving field by field never replaces the other writer's work: for any two
\* sequences of edits from one record, the merged record has the lessons of both,
\* adds up the practice of both, and a text only one of them touched reads as that
\* writer left it.
THEOREM MergingKeepsBothWritersWork == Spec => []BothWritersKeepTheirWork
<1>1. WritersInv => BothWritersKeepTheirWork
  <2> SUFFICES ASSUME WritersInv PROVE BothWritersKeepTheirWork
    OBVIOUS
  <2> USE DEF WritersInv
  <2> DEFINE other == ApplyProgressChanges(mine, ProgressChanges(base, theirs))
  <2>1. /\ Merged.completed = theirs.completed \cup pending.completed
        /\ Merged.focusSeconds = theirs.focusSeconds + pending.focusSeconds
    BY DEF Merged, ApplyProgressChanges
  <2>2. /\ mine.completed = base.completed \cup pending.completed
        /\ mine.focusSeconds = base.focusSeconds + pending.focusSeconds
    BY DEF ApplyProgressChanges
  <2>3. /\ other.completed = mine.completed \cup (theirs.completed \ base.completed)
        /\ other.focusSeconds = mine.focusSeconds + (theirs.focusSeconds - base.focusSeconds)
    BY DEF ApplyProgressChanges, ProgressChanges
  <2>4. /\ base.focusSeconds \in Int /\ theirs.focusSeconds \in Int
        /\ pending.focusSeconds \in Int
    BY DEF TypeOK, State, Delta
  <2>5. ASSUME NEW k \in Keys
        PROVE  /\ theirs.notes[k] = base.notes[k] => Merged.notes[k] = mine.notes[k]
               /\ ~pending.notes[k].changed => Merged.notes[k] = theirs.notes[k]
    BY DEF Merged, ApplyProgressChanges
  <2> HIDE DEF other
  <2>6. Merged.completed = other.completed /\ mine.completed \cup theirs.completed \subseteq Merged.completed
    BY <2>1, <2>2, <2>3
  <2>7. /\ Merged.focusSeconds = other.focusSeconds
        /\ Merged.focusSeconds - base.focusSeconds =
             (mine.focusSeconds - base.focusSeconds) + (theirs.focusSeconds - base.focusSeconds)
    BY <2>1, <2>2, <2>3, <2>4
  <2>8. QED
    BY <2>5, <2>6, <2>7 DEF BothWritersKeepTheirWork, other
<1>2. QED
  BY <1>1, WritersInvariant, PTL

\* Two tabs' different texts for one key are never resolved in silence, whatever
\* either did before.
THEOREM DisagreementStopsTheMerge == Spec => []DisagreementIsReported
<1>1. WritersInv => DisagreementIsReported
  BY DEF WritersInv, DisagreementIsReported, Conflicts
<1>2. QED
  BY <1>1, WritersInvariant, PTL

\* Combining two records takes nothing from either and nothing twice, and doing it
\* again changes nothing (core.js adoptState()).
LEMMA AdoptSettles ==
    ASSUME NEW a \in State, NEW b \in State, a.focusSeconds >= 0, b.focusSeconds >= 0
    PROVE  LET adopted == AdoptState(a, b) IN
           /\ adopted.completed = a.completed \cup b.completed
           /\ adopted.checks = a.checks \cup b.checks
           /\ adopted.focusSeconds \in {a.focusSeconds, b.focusSeconds}
           /\ adopted.focusSeconds >= a.focusSeconds
           /\ adopted.focusSeconds >= b.focusSeconds
           /\ \A k \in Keys : adopted.notes[k] =
                IF a.notes[k] # NoText THEN a.notes[k] ELSE b.notes[k]
           /\ AdoptState(adopted, b) = adopted
           /\ AdoptState(a, adopted) = adopted
<1> DEFINE larger(m, n) == IF m >= n THEN m ELSE n
           combined(u, v) ==
             [notes |-> [k \in Keys |-> IF u.notes[k] # NoText THEN u.notes[k] ELSE v.notes[k]],
              completed |-> u.completed \cup v.completed,
              checks |-> u.checks \cup v.checks,
              focusSeconds |-> larger(u.focusSeconds, v.focusSeconds),
              goal |-> u.goal]
<1>1. ASSUME NEW u \in State, NEW v \in State, u.focusSeconds >= 0, v.focusSeconds >= 0
      PROVE  AdoptState(u, v) = combined(u, v)
  <2>1. larger(u.focusSeconds, v.focusSeconds) >= 0
    BY <1>1
  <2>2. AdoptState(u, v) = SanitizeState(combined(u, v))
    BY DEF AdoptState
  <2>3. combined(u, v).focusSeconds = larger(u.focusSeconds, v.focusSeconds)
    OBVIOUS
  <2>4. combined(u, v) \in State
    BY DEF State
  <2> HIDE DEF combined
  <2>5. SanitizeState(combined(u, v)) = combined(u, v)
    BY <2>1, <2>3, <2>4 DEF SanitizeState, State
  <2>6. QED
    BY <2>2, <2>5
<1> DEFINE adopted == AdoptState(a, b)
<1>2. adopted = combined(a, b) /\ adopted \in State
  BY <1>1, AdoptType
<1>3. a.focusSeconds \in Int /\ b.focusSeconds \in Int
  BY DEF State
<1>4. adopted.focusSeconds = larger(a.focusSeconds, b.focusSeconds)
  BY <1>2
<1>5. /\ adopted.focusSeconds \in {a.focusSeconds, b.focusSeconds}
      /\ adopted.focusSeconds >= a.focusSeconds
      /\ adopted.focusSeconds >= b.focusSeconds
      /\ adopted.focusSeconds >= 0
      /\ larger(adopted.focusSeconds, b.focusSeconds) = adopted.focusSeconds
      /\ larger(a.focusSeconds, adopted.focusSeconds) = adopted.focusSeconds
  <2> HIDE DEF adopted
  <2>1. QED
    BY <1>3, <1>4
<1>6. /\ adopted.completed = a.completed \cup b.completed
      /\ adopted.checks = a.checks \cup b.checks /\ adopted.goal = a.goal
      /\ adopted.notes = [k \in Keys |-> IF a.notes[k] # NoText THEN a.notes[k] ELSE b.notes[k]]
  BY <1>2
<1>7. adopted = [notes |-> adopted.notes, completed |-> adopted.completed,
                 checks |-> adopted.checks, focusSeconds |-> adopted.focusSeconds,
                 goal |-> adopted.goal]
  BY <1>2 DEF State
<1> HIDE DEF adopted, larger
<1>8. combined(adopted, b) = adopted
  <2>1. [k \in Keys |-> IF adopted.notes[k] # NoText THEN adopted.notes[k] ELSE b.notes[k]]
          = adopted.notes
    BY <1>6
  <2>2. adopted.completed \cup b.completed = adopted.completed
        /\ adopted.checks \cup b.checks = adopted.checks
    BY <1>6
  <2>3. QED
    BY <1>5, <1>7, <2>1, <2>2
<1>9. combined(a, adopted) = adopted
  <2>1. [k \in Keys |-> IF a.notes[k] # NoText THEN a.notes[k] ELSE adopted.notes[k]]
          = adopted.notes
    BY <1>6
  <2>2. a.completed \cup adopted.completed = adopted.completed
        /\ a.checks \cup adopted.checks = adopted.checks
    BY <1>6
  <2>3. QED
    BY <1>5, <1>6, <1>7, <2>1, <2>2
<1> HIDE DEF combined
<1>10. AdoptState(adopted, b) = adopted /\ AdoptState(a, adopted) = adopted
  BY <1>1, <1>2, <1>5, <1>8, <1>9
<1>11. QED
  BY <1>5, <1>6, <1>10 DEF adopted

\* Signing in combines an account's record and a device's once: no lesson, step or
\* practice of either is lost or counted twice, and signing in again changes nothing.
THEOREM AdoptionLosesNothing == Spec => []AdoptionKeepsBothAndSettles
<1>1. WritersInv => AdoptionKeepsBothAndSettles
  BY AdoptSettles DEF WritersInv, TypeOK, AdoptionKeepsBothAndSettles
<1>2. QED
  BY <1>1, WritersInvariant, PTL

\* What the merge rules owe two tabs of one record, and an account and a device that
\* meet for the first time, holds whatever they do.
THEOREM MergingStaysSafe == Spec => []MergingIsSafe
BY MergingKeepsBothWritersWork, DisagreementStopsTheMerge, AdoptionLosesNothing, PTL
   DEF MergingIsSafe

-----------------------------------------------------------------------------
\* The pages of the static edition.

\* What a record that was earned says, with n ratings of its cards.
EarnedBy(s, n) ==
    /\ s \in Study
    /\ s.completed \subseteq s.quizzes \cap s.solved
    /\ \A l \in s.completed : s.cards[l] # "none"
    /\ s.certified => s.completed = Track
    /\ s.practice = Cardinality(s.quizzes) + Cardinality(s.solved)
                      + Cardinality(s.completed) + n

\* The card in the review deck is the one that was asked, and is due still.
RecallInv ==
    view = "review" /\ ~redrawn =>
        card = question /\ card \in DueCards(study, explore) \cup {NoLesson}

StudioInv ==
    StudioTypeOK /\ EarnedBy(study, ratings) /\ EditorShowsItsOwnRun /\ RecallInv

\* One more lesson in a set of lessons makes it larger by one.
LEMMA OneLessonMore ==
    ASSUME NEW S \in SUBSET Track, NEW l \in Track
    PROVE  /\ S \cup {l} \in SUBSET Track /\ Cardinality(S) \in Nat
           /\ l \notin S => Cardinality(S \cup {l}) = Cardinality(S) + 1
<1>1. IsFiniteSet(S)
  BY FS_Subset, StudioAssumption
<1>2. QED
  BY <1>1, FS_AddElement, FS_CardinalityType

\* recordActivity() adds one to the practice and changes nothing else.
LEMMA PractisedOnce ==
    ASSUME NEW s \in Study
    PROVE  /\ Practised(s) \in Study
           /\ Practised(s).quizzes = s.quizzes /\ Practised(s).solved = s.solved
           /\ Practised(s).completed = s.completed /\ Practised(s).cards = s.cards
           /\ Practised(s).certified = s.certified
           /\ Practised(s).practice = s.practice + 1
BY DEF Practised, Study

\* freshState(): nothing is earned yet.
LEMMA FreshIsEarned == EarnedBy(Fresh, 0)
<1>1. Cardinality({}) = 0
  BY FS_EmptySet
<1>2. Fresh \in Study
  BY DEF Fresh, Study, Lesson
<1>3. QED
  BY <1>1, <1>2 DEF Fresh, EarnedBy

\* A record that is opened or imported counts what it says was done.
LEMMA SavedIsEarned == ASSUME NEW s \in Saved PROVE EarnedBy(s, 0)
<1>1. PICK ready \in SUBSET Track, done \in SUBSET Track :
        done \subseteq ready /\ s = SavedWith(ready, done)
  BY DEF Saved
<1>2. Cardinality(ready) \in Nat /\ Cardinality(done) \in Nat
  BY FS_Subset, FS_CardinalityType, StudioAssumption
<1> DEFINE n == 2 * Cardinality(ready) + Cardinality(done)
           c == [l \in Track |-> IF l \in done THEN "due" ELSE "none"]
<1>3. /\ n \in Nat /\ n = Cardinality(ready) + Cardinality(ready) + Cardinality(done) + 0
      /\ c \in [Track -> {"none", "due", "later"}] /\ \A l \in done : c[l] # "none"
  BY <1>2
<1> HIDE DEF n, c
<1>4. s = [Fresh EXCEPT !.quizzes = ready, !.solved = ready, !.completed = done,
             !.cards = c, !.certified = (done = Track), !.practice = n]
  BY <1>1 DEF n, c, SavedWith
<1>5. /\ s.quizzes = ready /\ s.solved = ready /\ s.completed = done /\ s.cards = c
      /\ s.practice = n /\ s.lastLesson = NoLesson
  BY <1>4 DEF Fresh
<1>6. s.certified = (done = Track)
  BY <1>4 DEF Fresh
<1>7. s \in Study
  <2>1. s = [quizzes |-> ready, solved |-> ready, completed |-> done, cards |-> c,
             certified |-> (done = Track), practice |-> n, lastLesson |-> NoLesson]
    BY <1>4 DEF Fresh
  <2>2. QED
    BY <1>3, <2>1 DEF Study, Lesson
<1>8. s.certified => s.completed = Track
  BY <1>5, <1>6
<1>9. QED
  BY <1>1, <1>3, <1>5, <1>7, <1>8 DEF EarnedBy

\* Each of these counts once: a question answered (recordActivity() in the quiz),
LEMMA QuizIsEarned ==
    ASSUME NEW s, NEW n \in Nat, EarnedBy(s, n), NEW l \in Track, l \notin s.quizzes
    PROVE  EarnedBy(Practised([s EXCEPT !.quizzes = @ \cup {l}]), n)
<1> DEFINE t == [s EXCEPT !.quizzes = @ \cup {l}]
<1>1. s \in Study /\ s.quizzes \in SUBSET Track /\ s.practice \in Nat
  BY DEF EarnedBy, Study
<1>2. s.quizzes \cup {l} \in SUBSET Track
      /\ Cardinality(s.quizzes \cup {l}) = Cardinality(s.quizzes) + 1
      /\ Cardinality(s.quizzes) \in Nat
  BY <1>1, OneLessonMore
<1>3. Cardinality(s.solved) \in Nat /\ Cardinality(s.completed) \in Nat
  BY <1>1, OneLessonMore DEF Study
<1>4. /\ t \in Study /\ t.quizzes = s.quizzes \cup {l} /\ t.solved = s.solved
      /\ t.completed = s.completed /\ t.cards = s.cards /\ t.practice = s.practice
  BY <1>1, <1>2 DEF Study
<1>5. t.certified = s.certified
  BY <1>1 DEF Study
<1> HIDE DEF t
<1>6. Practised(t).practice = Cardinality(Practised(t).quizzes) + Cardinality(Practised(t).solved)
                                + Cardinality(Practised(t).completed) + n
  <2>1. s.practice = Cardinality(s.quizzes) + Cardinality(s.solved) + Cardinality(s.completed) + n
    BY DEF EarnedBy
  <2>2. /\ Practised(t).practice = s.practice + 1
        /\ Cardinality(Practised(t).quizzes) = Cardinality(s.quizzes) + 1
        /\ Practised(t).solved = s.solved /\ Practised(t).completed = s.completed
    BY <1>2, <1>4, PractisedOnce
  <2>3. QED
    BY <1>1, <1>2, <1>3, <2>1, <2>2
<1>7. EarnedBy(Practised(t), n)
  BY <1>4, <1>5, <1>6, PractisedOnce DEF EarnedBy
<1>8. QED
  BY <1>7 DEF t

\* a challenge solved (runCode()),
LEMMA SolvedIsEarned ==
    ASSUME NEW s, NEW n \in Nat, EarnedBy(s, n), NEW l \in Track, l \notin s.solved
    PROVE  EarnedBy(Practised([s EXCEPT !.solved = @ \cup {l}]), n)
<1> DEFINE t == [s EXCEPT !.solved = @ \cup {l}]
<1>1. s \in Study /\ s.solved \in SUBSET Track /\ s.practice \in Nat
  BY DEF EarnedBy, Study
<1>2. s.solved \cup {l} \in SUBSET Track
      /\ Cardinality(s.solved \cup {l}) = Cardinality(s.solved) + 1
      /\ Cardinality(s.solved) \in Nat
  BY <1>1, OneLessonMore
<1>3. Cardinality(s.quizzes) \in Nat /\ Cardinality(s.completed) \in Nat
  BY <1>1, OneLessonMore DEF Study
<1>4. /\ t \in Study /\ t.solved = s.solved \cup {l} /\ t.quizzes = s.quizzes
      /\ t.completed = s.completed /\ t.cards = s.cards /\ t.practice = s.practice
  BY <1>1, <1>2 DEF Study
<1>5. t.certified = s.certified
  BY <1>1 DEF Study
<1> HIDE DEF t
<1>6. Practised(t).practice = Cardinality(Practised(t).quizzes) + Cardinality(Practised(t).solved)
                                + Cardinality(Practised(t).completed) + n
  <2>1. s.practice = Cardinality(s.quizzes) + Cardinality(s.solved) + Cardinality(s.completed) + n
    BY DEF EarnedBy
  <2>2. /\ Practised(t).practice = s.practice + 1
        /\ Cardinality(Practised(t).solved) = Cardinality(s.solved) + 1
        /\ Practised(t).quizzes = s.quizzes /\ Practised(t).completed = s.completed
    BY <1>2, <1>4, PractisedOnce
  <2>3. QED
    BY <1>1, <1>2, <1>3, <2>1, <2>2
<1>7. EarnedBy(Practised(t), n)
  BY <1>4, <1>5, <1>6, PractisedOnce DEF EarnedBy
<1>8. QED
  BY <1>7 DEF t

\* and a lesson completed, with its card and, when it is the last one, the
\* certificate (the handler of the "complete" button).
LEMMA CompletedIsEarned ==
    ASSUME NEW s, NEW n \in Nat, EarnedBy(s, n), NEW l \in Track, l \notin s.completed,
           l \in s.quizzes, l \in s.solved
    PROVE  EarnedBy(Practised([s EXCEPT !.completed = s.completed \cup {l}, !.cards[l] = "due",
                                        !.certified = @ \/ s.completed \cup {l} = Track]), n)
<1> DEFINE done == s.completed \cup {l}
           c == [s.cards EXCEPT ![l] = "due"]
           t == [s EXCEPT !.completed = done, !.cards[l] = "due", !.certified = @ \/ done = Track]
<1>1. s \in Study /\ s.completed \in SUBSET Track /\ s.practice \in Nat
      /\ s.cards \in [Track -> {"none", "due", "later"}]
  BY DEF EarnedBy, Study
<1>2. done \in SUBSET Track /\ Cardinality(done) = Cardinality(s.completed) + 1
      /\ Cardinality(s.completed) \in Nat
  BY <1>1, OneLessonMore
<1>3. Cardinality(s.quizzes) \in Nat /\ Cardinality(s.solved) \in Nat
  BY <1>1, OneLessonMore DEF Study
<1>4. c \in [Track -> {"none", "due", "later"}] /\ \A k \in done : c[k] # "none"
  <2>1. \A k \in s.completed : s.cards[k] # "none"
    BY DEF EarnedBy
  <2>2. QED
    BY <1>1, <2>1
<1>5. s.certified => done = Track
  BY <1>1 DEF EarnedBy
<1>6. /\ t.completed = done /\ t.cards = c /\ t.quizzes = s.quizzes /\ t.solved = s.solved
      /\ t.practice = s.practice /\ t.lastLesson = s.lastLesson
  BY <1>1 DEF Study
<1>7. t.certified = (s.certified \/ done = Track)
  BY <1>1 DEF Study
<1>8. t \in Study
  <2> DEFINE b == s.certified \/ done = Track
             u == [s EXCEPT !.completed = done]
             v == [u EXCEPT !.cards = c]
             w == [v EXCEPT !.certified = b]
  <2>1. t = w
    BY <1>1 DEF Study
  <2>2. b \in BOOLEAN
    OBVIOUS
  <2> HIDE DEF c, done, b, t
  <2>3. u \in Study
    BY <1>1, <1>2 DEF Study
  <2> HIDE DEF u
  <2>4. v \in Study
    BY <1>4, <2>3 DEF Study
  <2> HIDE DEF v
  <2>5. w \in Study
    BY <2>2, <2>4 DEF Study
  <2>6. QED
    BY <2>1, <2>5
<1> HIDE DEF t
<1>9. Practised(t).practice = Cardinality(Practised(t).quizzes) + Cardinality(Practised(t).solved)
                                + Cardinality(Practised(t).completed) + n
  <2>1. s.practice = Cardinality(s.quizzes) + Cardinality(s.solved) + Cardinality(s.completed) + n
    BY DEF EarnedBy
  <2>2. /\ Practised(t).practice = s.practice + 1
        /\ Cardinality(Practised(t).completed) = Cardinality(s.completed) + 1
        /\ Practised(t).quizzes = s.quizzes /\ Practised(t).solved = s.solved
    BY <1>2, <1>6, <1>8, PractisedOnce
  <2>3. QED
    BY <1>1, <1>2, <1>3, <2>1, <2>2
<1>10. t.certified => t.completed = Track
  BY <1>5, <1>6, <1>7
<1>11. t.completed \subseteq t.quizzes \cap t.solved /\ \A k \in t.completed : t.cards[k] # "none"
  BY <1>4, <1>6 DEF EarnedBy
<1>12. EarnedBy(Practised(t), n)
  BY <1>8, <1>9, <1>10, <1>11, PractisedOnce DEF EarnedBy
<1>13. QED
  BY <1>12 DEF t, done

\* A rating counts and sends its card to a later day,
LEMMA RatedIsEarned ==
    ASSUME NEW s, NEW n \in Nat, EarnedBy(s, n), NEW l \in Track
    PROVE  EarnedBy(Practised([s EXCEPT !.cards[l] = "later"]), n + 1)
<1> DEFINE c == [s.cards EXCEPT ![l] = "later"]
           t == [s EXCEPT !.cards[l] = "later"]
<1>1. s \in Study /\ s.practice \in Nat /\ s.cards \in [Track -> {"none", "due", "later"}]
  BY DEF EarnedBy, Study
<1>2. c \in [Track -> {"none", "due", "later"}] /\ \A k \in s.completed : c[k] # "none"
  <2>1. \A k \in s.completed : s.cards[k] # "none"
    BY DEF EarnedBy
  <2>2. s.completed \subseteq Track
    BY <1>1 DEF Study
  <2>3. QED
    BY <1>1, <2>1, <2>2
<1>3. t = [s EXCEPT !.cards = c]
  BY <1>1 DEF Study
<1>4. /\ t \in Study /\ t.cards = c /\ t.quizzes = s.quizzes /\ t.solved = s.solved
      /\ t.completed = s.completed /\ t.practice = s.practice
  <2> HIDE DEF t, c
  <2>1. QED
    BY <1>1, <1>2, <1>3 DEF Study
<1>5. t.certified = s.certified
  BY <1>1 DEF Study
<1>6. Cardinality(s.quizzes) \in Nat /\ Cardinality(s.solved) \in Nat
      /\ Cardinality(s.completed) \in Nat
  BY <1>1, OneLessonMore DEF Study
<1> HIDE DEF t, c
<1>7. Practised(t).practice = Cardinality(Practised(t).quizzes) + Cardinality(Practised(t).solved)
                                + Cardinality(Practised(t).completed) + (n + 1)
  <2>1. s.practice = Cardinality(s.quizzes) + Cardinality(s.solved) + Cardinality(s.completed) + n
    BY DEF EarnedBy
  <2>2. /\ Practised(t).practice = s.practice + 1 /\ Practised(t).completed = s.completed
        /\ Practised(t).quizzes = s.quizzes /\ Practised(t).solved = s.solved
    BY <1>4, PractisedOnce
  <2>3. QED
    BY <1>1, <1>6, <2>1, <2>2
<1>8. EarnedBy(Practised(t), n + 1)
  BY <1>2, <1>4, <1>5, <1>7, PractisedOnce DEF EarnedBy
<1>9. QED
  BY <1>8 DEF t

\* a card that comes due changes nothing that was earned, nor does opening a lesson.
LEMMA DueIsEarned ==
    ASSUME NEW s, NEW n \in Nat, EarnedBy(s, n), NEW l \in Track
    PROVE  EarnedBy([s EXCEPT !.cards[l] = "due"], n)
<1> DEFINE c == [s.cards EXCEPT ![l] = "due"]
           t == [s EXCEPT !.cards[l] = "due"]
<1>1. s \in Study /\ s.cards \in [Track -> {"none", "due", "later"}]
  BY DEF EarnedBy, Study
<1>2. c \in [Track -> {"none", "due", "later"}] /\ \A k \in s.completed : c[k] # "none"
  <2>1. \A k \in s.completed : s.cards[k] # "none"
    BY DEF EarnedBy
  <2>2. s.completed \subseteq Track
    BY <1>1 DEF Study
  <2>3. QED
    BY <1>1, <2>1, <2>2
<1>3. t = [s EXCEPT !.cards = c]
  BY <1>1 DEF Study
<1>4. /\ t \in Study /\ t.cards = c /\ t.quizzes = s.quizzes /\ t.solved = s.solved
      /\ t.completed = s.completed /\ t.practice = s.practice
  <2> HIDE DEF t, c
  <2>1. QED
    BY <1>1, <1>2, <1>3 DEF Study
<1>5. t.certified = s.certified
  BY <1>1 DEF Study
<1> HIDE DEF t, c
<1>6. EarnedBy(t, n)
  BY <1>2, <1>4, <1>5 DEF EarnedBy
<1>7. QED
  BY <1>6 DEF t

\* Opening another lesson earns nothing.
LEMMA OpenedIsEarned ==
    ASSUME NEW s, NEW n \in Nat, EarnedBy(s, n), NEW l \in Track
    PROVE  EarnedBy([s EXCEPT !.lastLesson = l], n)
<1> DEFINE t == [s EXCEPT !.lastLesson = l]
<1>1. s \in Study
  BY DEF EarnedBy
<1>2. /\ t \in Study /\ t.cards = s.cards /\ t.quizzes = s.quizzes /\ t.solved = s.solved
      /\ t.completed = s.completed /\ t.practice = s.practice
  BY <1>1 DEF Study, Lesson
<1>3. t.certified = s.certified
  BY <1>1 DEF Study
<1> HIDE DEF t
<1>4. EarnedBy(t, n)
  BY <1>2, <1>3 DEF EarnedBy
<1>5. QED
  BY <1>4 DEF t

\* renderReview(): the card is due, or there is none; the question is put anew
\* unless the answer is shown, and a card that is due still stays.
LEMMA DeckIsDrawn ==
    ASSUME NEW s, NEW chosen, NEW open, NEW all, question \in Lesson,
           RenderReview(s, chosen, open, all)
    PROVE  /\ card' \in DueCards(s, all) \cup {NoLesson} /\ card' \in Lesson
           /\ question' \in Lesson /\ revealed' = open /\ explore' = all
           /\ ~open => question' = card'
           /\ open => question' = question
           /\ chosen \in DueCards(s, all) => card' = chosen
BY DEF RenderReview, DueCards, Lesson

\* What the page shows where the result of an exercise arrives: its own editor's.
LEMMA DrawnInItsEditor ==
    ASSUME StudioInv, NEW k \in Track, shown' = Draws(k), view' = view,
           shown = "running" /\ view # k => view = run'.on \/ view \in advices'
    PROVE  shown' \in Track \cup {"empty", "running"} /\ EditorShowsItsOwnRun'
BY StudioAssumption DEF StudioInv, StudioTypeOK, Draws, EditorShowsItsOwnRun

\* shell(): drawing a page anew from an earned record keeps everything, if the
\* answer in the deck is hidden or the record was changed by others.
LEMMA PageIsDrawn ==
    ASSUME StudioInv, NEW s, EarnedBy(s, ratings'), ratings' \in Nat,
           NEW to \in View, NEW open \in BOOLEAN,
           Shell(s, to, open), to = "review" /\ open => redrawn',
           UNCHANGED <<output, run, advices>>, redrawn' \in BOOLEAN,
           replacing' \in {"no", "reset", "import"}, gestures' \in Nat, elsewhere' \in Nat
    PROVE  StudioInv'
<1> USE DEF StudioInv, StudioTypeOK
<1>1. view' = to /\ shown' = IF to \in Track THEN EditorShows(to) ELSE "empty"
  BY DEF Shell
<1>2. EarnedBy(study', ratings') /\ study' \in Study
  <2>1. CASE to \in Track
    BY <2>1, OpenedIsEarned DEF Shell, EarnedBy
  <2>2. CASE to \notin Track
    BY <2>2 DEF Shell, EarnedBy
  <2>3. QED
    BY <2>1, <2>2
<1>3. shown' \in Track \cup {"empty", "running"} /\ EditorShowsItsOwnRun'
  BY <1>1, StudioAssumption DEF EditorShows, EditorShowsItsOwnRun
<1>4. CASE to = "review"
  <2>1. "review" \notin Track
    BY StudioAssumption
  <2>2. study' = s /\ RenderReview(s, card, open, explore)
    BY <1>4, <2>1 DEF Shell
  <2>3. /\ card' \in DueCards(s, explore) \cup {NoLesson} /\ card' \in Lesson
        /\ question' \in Lesson /\ revealed' = open /\ explore' = explore
        /\ ~open => question' = card'
    BY <2>2, DeckIsDrawn
  <2>4. RecallInv'
    BY <1>4, <2>2, <2>3 DEF RecallInv, DueCards
  <2>5. QED
    BY <1>1, <1>2, <1>3, <2>3, <2>4
<1>5. CASE to # "review"
  <2>1. revealed' = open /\ UNCHANGED <<card, explore, question>>
    BY <1>5 DEF Shell
  <2>2. RecallInv'
    BY <1>1, <1>5 DEF RecallInv
  <2>3. QED
    BY <1>1, <1>2, <1>3, <2>1, <2>2
<1>6. QED
  BY <1>4, <1>5

\* A gesture in a lesson, or a late result, that leaves the deck and the cards as
\* they are.
LEMMA DeckStays ==
    ASSUME StudioInv, NEW n \in Nat, EarnedBy(study', n), ratings' = n,
           \/ study'.completed = study.completed /\ study'.cards = study.cards
           \/ view \in Track,
           UNCHANGED <<view, reviewVars, redrawn, replacing>>,
           output' \in Lesson, run' \in [on: Lesson, check: BOOLEAN], advices' \subseteq Track,
           shown' \in Track \cup {"empty", "running"}, EditorShowsItsOwnRun',
           gestures' \in Nat, elsewhere' \in Nat
    PROVE  StudioInv'
<1> USE DEF StudioInv, StudioTypeOK, reviewVars
<1>1. RecallInv'
  <2>1. CASE view \in Track
    BY <2>1, StudioAssumption DEF RecallInv
  <2>2. CASE study'.completed = study.completed /\ study'.cards = study.cards
    BY <2>2 DEF RecallInv, DueCards
  <2>3. QED
    BY <2>1, <2>2
<1>2. study' \in Study
  BY DEF EarnedBy
<1>3. QED
  BY <1>1, <1>2

\* A new learner has earned nothing and shows nothing.
LEMMA StudioStartsTrue == ASSUME StudioInit PROVE StudioInv
<1> USE DEF StudioInit
<1>1. EarnedBy(study, ratings)
  BY SavedIsEarned
<1>2. StudioTypeOK
  BY <1>1 DEF StudioTypeOK, EarnedBy, View, Lesson
<1>3. EditorShowsItsOwnRun /\ RecallInv
  BY StudioAssumption DEF EditorShowsItsOwnRun, RecallInv
<1>4. QED
  BY <1>1, <1>2, <1>3 DEF StudioInv

\* Gestures and results in a lesson keep the invariant.
LEMMA LessonKeeps ==
    ASSUME StudioInv,
           \/ AnswerQuiz \/ Complete \/ ClearOutput \/ RunPasses \/ CheckFails
           \/ \E check \in BOOLEAN : RunExercise(check)
           \/ \E l \in Track : AdviceComes(l)
    PROVE  StudioInv'
<1> USE DEF StudioInv
<1>1. /\ ratings \in Nat /\ gestures \in Nat /\ elsewhere \in Nat
      /\ EarnedBy(study, ratings) /\ EditorShowsItsOwnRun /\ output \in Lesson
      /\ run \in [on: Lesson, check: BOOLEAN] /\ advices \subseteq Track
      /\ shown \in Track \cup {"empty", "running"} /\ revealed \in BOOLEAN /\ redrawn \in BOOLEAN
      /\ replacing \in {"no", "reset", "import"} /\ view \in View
  BY DEF StudioTypeOK
<1>2. CASE AnswerQuiz
  <2> USE <1>2 DEF AnswerQuiz
  <2>1. EarnedBy(study', ratings)
    <3>1. CASE view \in study.quizzes
      BY <1>1, <3>1
    <3>2. CASE view \notin study.quizzes
      BY <1>1, <3>2, QuizIsEarned
    <3>3. QED
      BY <3>1, <3>2
  <2>2. EditorShowsItsOwnRun' /\ gestures' \in Nat /\ elsewhere' \in Nat
    BY <1>1 DEF EditorShowsItsOwnRun, codeVars, Gesture
  <2>3. QED
    BY <1>1, <2>1, <2>2, DeckStays DEF codeVars
<1>3. CASE Complete
  <2> USE <1>3 DEF Complete
  <2>1. PICK s : s = Practised([study EXCEPT !.completed = study.completed \cup {view},
                                  !.cards[view] = "due",
                                  !.certified = @ \/ study.completed \cup {view} = Track])
    OBVIOUS
  <2>2. EarnedBy(s, ratings)
    BY <1>1, <2>1, CompletedIsEarned DEF CanComplete
  <2>3. Shell(s, view, revealed)
    BY <2>1
  <2>4. view # "review"
    BY StudioAssumption
  <2>5. gestures' \in Nat /\ elsewhere' \in Nat
    BY <1>1 DEF Gesture
  <2>6. QED
    BY <1>1, <2>2, <2>3, <2>4, <2>5, PageIsDrawn
<1>4. CASE ClearOutput
  <2> USE <1>4 DEF ClearOutput
  <2>1. EditorShowsItsOwnRun' /\ gestures' \in Nat /\ elsewhere' \in Nat
    BY <1>1, StudioAssumption DEF EditorShowsItsOwnRun, Gesture
  <2>2. QED
    BY <1>1, <2>1, DeckStays DEF Lesson
<1>5. CASE RunPasses
  <2> USE <1>5 DEF RunPasses, NoGesture
  <2>1. run.on \in Track
    BY <1>1 DEF RunBusy, Lesson
  <2>2. EarnedBy(study', ratings)
    <3>1. CASE run.check /\ run.on \notin study.solved
      BY <1>1, <2>1, <3>1, SolvedIsEarned
    <3>2. CASE ~(run.check /\ run.on \notin study.solved)
      BY <1>1, <3>2
    <3>3. QED
      BY <3>1, <3>2
  <2>3. study'.completed = study.completed /\ study'.cards = study.cards
    <3>1. study \in Study
      BY DEF StudioTypeOK
    <3>2. QED
      BY <3>1 DEF Practised, Study
  <2>4. shown = "running" /\ view # run.on => view \in advices'
    BY <1>1 DEF EditorShowsItsOwnRun
  <2>5. shown' \in Track \cup {"empty", "running"} /\ EditorShowsItsOwnRun'
    BY <2>1, <2>4, DrawnInItsEditor
  <2>6. run' \in [on: Lesson, check: BOOLEAN] /\ output' \in Lesson
    BY <1>1 DEF Lesson
  <2>7. QED
    BY <1>1, <2>2, <2>3, <2>5, <2>6, DeckStays
<1>6. CASE CheckFails
  <2> USE <1>6 DEF CheckFails, NoGesture
  <2>1. run.on \in Track
    BY <1>1 DEF RunBusy, Lesson
  <2>2. EditorShowsItsOwnRun'
    BY <1>1 DEF EditorShowsItsOwnRun
  <2>3. run' \in [on: Lesson, check: BOOLEAN] /\ output' \in Lesson /\ advices' \subseteq Track
    BY <1>1, <2>1 DEF Lesson
  <2>4. QED
    BY <1>1, <2>2, <2>3, DeckStays
<1>7. ASSUME NEW check \in BOOLEAN, RunExercise(check)
      PROVE  StudioInv'
  <2> USE <1>7 DEF RunExercise
  <2>1. EditorShowsItsOwnRun' /\ gestures' \in Nat /\ elsewhere' \in Nat
    BY <1>1, StudioAssumption DEF EditorShowsItsOwnRun, Gesture
  <2>2. run' \in [on: Lesson, check: BOOLEAN] /\ shown' = "running"
    BY DEF Lesson
  <2>3. QED
    BY <1>1, <2>1, <2>2, DeckStays
<1>8. ASSUME NEW l \in Track, AdviceComes(l)
      PROVE  StudioInv'
  <2> USE <1>8 DEF AdviceComes, NoGesture
  <2>1. advices' \subseteq Track /\ (view # l /\ view \in advices => view \in advices')
    BY <1>1
  <2>2. shown = "running" /\ view # l => view = run'.on \/ view \in advices'
    BY <1>1, <2>1 DEF EditorShowsItsOwnRun
  <2>3. shown' \in Track \cup {"empty", "running"} /\ EditorShowsItsOwnRun'
    BY <2>2, DrawnInItsEditor
  <2>4. QED
    BY <1>1, <2>1, <2>3, DeckStays
<1>9. QED
  BY <1>2, <1>3, <1>4, <1>5, <1>6, <1>7, <1>8

\* Gestures in the review deck keep it.
LEMMA DeckKeeps ==
    ASSUME StudioInv,
           \/ Reveal \/ Rate \/ \E all \in BOOLEAN : ReviewMode(all)
           \/ \E l \in Track : CardComesDue(l)
    PROVE  StudioInv'
<1> USE DEF StudioInv, StudioTypeOK
<1>1. ASSUME NEW all \in BOOLEAN, ReviewMode(all)
      PROVE  StudioInv'
  <2> USE <1>1 DEF ReviewMode, codeVars
  <2>1. /\ card' \in DueCards(study, all) \cup {NoLesson} /\ card' \in Lesson
        /\ question' \in Lesson /\ revealed' = FALSE /\ explore' = all
        /\ question' = card'
    BY DeckIsDrawn
  <2>2. RecallInv'
    BY <2>1 DEF RecallInv, DueCards
  <2>3. EditorShowsItsOwnRun' /\ gestures' \in Nat /\ elsewhere' \in Nat
    BY DEF EditorShowsItsOwnRun, Gesture
  <2>4. QED
    BY <2>1, <2>2, <2>3
<1>2. CASE Reveal
  <2> USE <1>2 DEF Reveal, codeVars
  <2>1. /\ card' \in DueCards(study, explore) \cup {NoLesson} /\ card' \in Lesson
        /\ question' = question /\ revealed' = TRUE /\ explore' = explore
        /\ card \in DueCards(study, explore) => card' = card
    BY DeckIsDrawn
  <2>2. RecallInv'
    BY <2>1 DEF RecallInv, DueCards
  <2>3. EditorShowsItsOwnRun' /\ gestures' \in Nat /\ elsewhere' \in Nat
    BY DEF EditorShowsItsOwnRun, Gesture
  <2>4. QED
    BY <2>1, <2>2, <2>3
<1>3. CASE Rate
  <2> USE <1>3 DEF Rate, codeVars
  <2>1. card \in Track
    BY DEF Lesson
  <2>2. EarnedBy(study', ratings') /\ ratings' \in Nat
    BY <2>1, RatedIsEarned DEF Rated
  <2>3. /\ card' \in DueCards(study', explore) \cup {NoLesson} /\ card' \in Lesson
        /\ question' \in Lesson /\ revealed' = FALSE /\ explore' = explore
        /\ question' = card'
    <3>1. PICK s : s = study'
      OBVIOUS
    <3>2. RenderReview(s, NoLesson, FALSE, explore)
      BY <3>1
    <3>3. QED
      BY <3>1, <3>2, DeckIsDrawn
  <2>4. RecallInv'
    BY <2>3 DEF RecallInv, DueCards
  <2>5. EditorShowsItsOwnRun' /\ gestures' \in Nat /\ elsewhere' \in Nat
    BY DEF EditorShowsItsOwnRun, Gesture
  <2>6. study' \in Study
    BY <2>2 DEF EarnedBy
  <2>7. QED
    BY <2>2, <2>3, <2>4, <2>5, <2>6
<1>4. ASSUME NEW l \in Track, CardComesDue(l)
      PROVE  StudioInv'
  <2> USE <1>4 DEF CardComesDue, codeVars, reviewVars
  <2>1. EarnedBy(study', ratings)
    BY DueIsEarned
  <2>2. study'.completed = study.completed /\ \A k \in Track : study'.cards[k] # "later"
                                              \/ study'.cards[k] = study.cards[k]
    BY DEF Study
  <2>3. RecallInv'
    BY <2>2 DEF RecallInv, DueCards
  <2>4. EditorShowsItsOwnRun' /\ gestures' \in Nat /\ elsewhere' \in Nat
    BY DEF EditorShowsItsOwnRun, Gesture
  <2>5. study' \in Study
    BY <2>1 DEF EarnedBy
  <2>6. QED
    BY <2>1, <2>3, <2>4, <2>5
<1>5. QED
  BY <1>1, <1>2, <1>3, <1>4

\* Pages that open, records that are replaced and other tabs keep it.
LEMMA PagesKeep ==
    ASSUME StudioInv,
           \/ \E to \in View : Open(to)
           \/ AskToReplace \/ GiveUpReplacing \/ Replaced \/ ChangeElsewhere
    PROVE  StudioInv'
<1> USE DEF StudioInv
<1>1. /\ ratings \in Nat /\ gestures \in Nat /\ elsewhere \in Nat
      /\ EarnedBy(study, ratings) /\ revealed \in BOOLEAN /\ redrawn \in BOOLEAN
      /\ replacing \in {"no", "reset", "import"} /\ view \in View
  BY DEF StudioTypeOK
<1>2. ASSUME NEW to \in View, Open(to)
      PROVE  StudioInv'
  <2> USE <1>2 DEF Open
  <2>1. gestures' \in Nat /\ elsewhere' \in Nat
    BY <1>1 DEF Gesture
  <2>2. PICK s : s = study
    OBVIOUS
  <2>3. Shell(s, to, FALSE) /\ EarnedBy(s, ratings')
    BY <1>1, <2>2
  <2>4. QED
    BY <1>1, <2>1, <2>3, PageIsDrawn
<1>3. CASE AskToReplace \/ GiveUpReplacing
  <2> USE DEF StudioTypeOK, AskToReplace, GiveUpReplacing, codeVars, reviewVars
  <2>1. gestures' \in Nat /\ elsewhere' \in Nat /\ replacing' \in {"no", "reset", "import"}
    BY <1>1, <1>3 DEF Gesture, NoGesture
  <2>2. RecallInv' /\ EditorShowsItsOwnRun'
    BY <1>3 DEF RecallInv, EditorShowsItsOwnRun, DueCards
  <2>3. QED
    BY <1>3, <2>1, <2>2
<1>4. CASE Replaced
  <2> USE <1>4 DEF Replaced, NoGesture
  <2>1. PICK s \in IF replacing = "reset" THEN {Fresh} ELSE Saved : Shell(s, view, revealed)
    OBVIOUS
  <2>2. EarnedBy(s, 0)
    BY <2>1, FreshIsEarned, SavedIsEarned
  <2>3. QED
    BY <1>1, <2>1, <2>2, PageIsDrawn
<1>5. CASE ChangeElsewhere
  <2> USE <1>5 DEF ChangeElsewhere
  <2>1. PICK s \in {Fresh} \cup {Practised([study EXCEPT !.cards[l] = "later"]) : l \in study.completed} :
          /\ ratings' = IF s = Fresh THEN 0 ELSE ratings + 1
          /\ \/ study' = s /\ UNCHANGED <<view, shown, reviewVars>>
             \/ ~RunBusy /\ Shell(s, view, revealed)
    OBVIOUS
  <2>2. EarnedBy(s, ratings') /\ ratings' \in Nat
    <3>1. CASE s = Fresh
      BY <2>1, <3>1, FreshIsEarned
    <3>2. CASE s # Fresh
      <4>1. PICK l \in study.completed : s = Practised([study EXCEPT !.cards[l] = "later"])
        BY <2>1, <3>2
      <4>2. l \in Track
        BY <1>1 DEF EarnedBy, Study
      <4>3. EarnedBy(s, ratings + 1)
        BY <1>1, <4>1, <4>2, RatedIsEarned
      <4>4. QED
        BY <1>1, <2>1, <3>2, <4>3
    <3>3. QED
      BY <3>1, <3>2
  <2>3. gestures' \in Nat /\ elsewhere' \in Nat /\ redrawn' = TRUE
    BY <1>1
  <2>4. CASE study' = s /\ UNCHANGED <<view, shown, reviewVars>>
    <3> USE DEF StudioTypeOK, reviewVars
    <3>1. RecallInv' /\ EditorShowsItsOwnRun' /\ study' \in Study
      BY <2>2, <2>3, <2>4 DEF RecallInv, EditorShowsItsOwnRun, EarnedBy
    <3>2. QED
      BY <2>2, <2>3, <2>4, <3>1
  <2>5. CASE Shell(s, view, revealed)
    BY <1>1, <2>2, <2>3, <2>5, PageIsDrawn
  <2>6. QED
    BY <2>1, <2>4, <2>5
<1>6. QED
  BY <1>2, <1>3, <1>4, <1>5

\* The page's strengthened invariant holds in every reachable state.
THEOREM StudioInvariant == StudioSpec => []StudioInv
<1>1. StudioInit => StudioInv
  BY StudioStartsTrue
<1>2. StudioInv /\ [StudioNext]_studioVars => StudioInv'
  <2> SUFFICES ASSUME StudioInv, [StudioNext]_studioVars PROVE StudioInv'
    OBVIOUS
  <2>1. CASE UNCHANGED studioVars
    BY <2>1 DEF StudioInv, StudioTypeOK, EditorShowsItsOwnRun, RecallInv, DueCards,
                studioVars, codeVars, reviewVars
  <2>2. CASE StudioNext
    BY <2>2, LessonKeeps, DeckKeeps, PagesKeep DEF StudioNext
  <2>3. QED
    BY <2>1, <2>2
<1>3. QED
  BY <1>1, <1>2, PTL DEF StudioSpec

\* A page of the static edition keeps its word: practice, completions and the
\* certificate are earned once, an editor shows its own run, and an answer is
\* shown only for the card that was asked (public/app.js), for any track of
\* lessons, with results, advice and other tabs that come late.
THEOREM StudioStaysTrue == StudioSpec => []StudioIsTrue
<1>1. StudioInv => StudioIsTrue
  BY DEF StudioInv, StudioIsTrue, EarnedBy, RecordIsEarned, RecallInv, RecallComesFirst
<1>2. QED
  BY <1>1, StudioInvariant, PTL

-----------------------------------------------------------------------------
\* The learning pages of the web edition.

\* What a record of the web edition that was earned says, with n ratings.
WebEarnedBy(p, n) ==
    /\ p \in Progress
    /\ p.completed \subseteq p.quizzes \cap p.solved
    /\ p.certified => p.completed = Exercises
    /\ p.practice = Cardinality(p.quizzes) + Cardinality(p.solved)
                      + Cardinality(p.completed) + n

\* The note typed last is saved or about to be, for each lesson,
NotesAreKept ==
    \A l \in Exercises :
       LET waiting == {i \in DOMAIN noteTimers : noteTimers[i].lesson = l} IN
       /\ waiting = {} => typed[l] \in {Nothing, progress.notes[l]}
       /\ \A i \in waiting : (\A j \in waiting : j <= i) => noteTimers[i].text = typed[l]

\* and the editor's text; a timer holds what is in its editor.
EditorIsSaved ==
    /\ Here # Nowhere /\ page.timer = Nothing /\ ~overtaken => page.text = progress.drafts[Here]
    /\ page.timer # Nothing => Here # Nowhere /\ page.touched /\ page.text = page.timer

LessonsInv ==
    WebStudioTypeOK /\ WebEarnedBy(progress, rated) /\ NotesAreKept /\ EditorIsSaved

\* Doing an exercise counts one, once.
LEMMA OneExerciseMore ==
    ASSUME NEW S \in SUBSET Exercises, NEW l \in Exercises
    PROVE  /\ S \cup {l} \in SUBSET Exercises /\ Cardinality(S) \in Nat
           /\ l \notin S => Cardinality(S \cup {l}) = Cardinality(S) + 1
<1>1. IsFiniteSet(S)
  BY FS_Subset, WebStudioAssumption
<1>2. QED
  BY <1>1, FS_AddElement, FS_CardinalityType

\* One more day's practice changes nothing else of the record.
LEMMA BumpedOnce ==
    ASSUME NEW p \in Progress
    PROVE  /\ Bump(p) \in Progress
           /\ Bump(p).quizzes = p.quizzes /\ Bump(p).solved = p.solved
           /\ Bump(p).completed = p.completed /\ Bump(p).certified = p.certified
           /\ Bump(p).drafts = p.drafts /\ Bump(p).notes = p.notes
           /\ Bump(p).practice = p.practice + 1
BY DEF Bump, Progress

\* What is not earned may change.
LEMMA SameEarned ==
    ASSUME NEW p, NEW n, WebEarnedBy(p, n), NEW q \in Progress,
           q.quizzes = p.quizzes, q.solved = p.solved, q.completed = p.completed,
           q.certified = p.certified, q.practice = p.practice
    PROVE  WebEarnedBy(q, n)
BY DEF WebEarnedBy

\* A record started over has earned nothing.
LEMMA FreshProgressIsEarned == WebEarnedBy(FreshProgress, 0)
<1>1. Cardinality({}) = 0
  BY FS_EmptySet
<1>2. FreshProgress \in Progress
  BY WebStudioAssumption DEF FreshProgress, Progress, DraftText, Note
<1>3. QED
  BY <1>1, <1>2 DEF FreshProgress, WebEarnedBy

\* Each of these counts once: an answer (Quiz.submit()),
LEMMA AnswerCountsOnce ==
    ASSUME NEW p, NEW n \in Nat, WebEarnedBy(p, n), NEW l \in Exercises, l \notin p.quizzes
    PROVE  /\ WebEarnedBy(Bump([p EXCEPT !.quizzes = @ \cup {l}]), n)
           /\ Bump([p EXCEPT !.quizzes = @ \cup {l}]).notes = p.notes
           /\ Bump([p EXCEPT !.quizzes = @ \cup {l}]).drafts = p.drafts
<1> DEFINE t == [p EXCEPT !.quizzes = @ \cup {l}]
<1>1. p \in Progress /\ p.quizzes \in SUBSET Exercises /\ p.practice \in Nat
  BY DEF WebEarnedBy, Progress
<1>2. p.quizzes \cup {l} \in SUBSET Exercises
      /\ Cardinality(p.quizzes \cup {l}) = Cardinality(p.quizzes) + 1
      /\ Cardinality(p.quizzes) \in Nat
  BY <1>1, OneExerciseMore
<1>3. Cardinality(p.solved) \in Nat /\ Cardinality(p.completed) \in Nat
  BY <1>1, OneExerciseMore DEF Progress
<1>4. /\ t \in Progress /\ t.quizzes = p.quizzes \cup {l} /\ t.solved = p.solved
      /\ t.completed = p.completed /\ t.practice = p.practice
      /\ t.notes = p.notes /\ t.drafts = p.drafts
  BY <1>1, <1>2 DEF Progress
<1>5. t.certified = p.certified
  BY <1>1 DEF Progress
<1> HIDE DEF t
<1>6. Bump(t).practice = Cardinality(Bump(t).quizzes) + Cardinality(Bump(t).solved)
                           + Cardinality(Bump(t).completed) + n
  <2>1. p.practice = Cardinality(p.quizzes) + Cardinality(p.solved) + Cardinality(p.completed) + n
    BY DEF WebEarnedBy
  <2>2. /\ Bump(t).practice = p.practice + 1
        /\ Cardinality(Bump(t).quizzes) = Cardinality(p.quizzes) + 1
        /\ Bump(t).solved = p.solved /\ Bump(t).completed = p.completed
    BY <1>2, <1>4, BumpedOnce
  <2>3. QED
    BY <1>1, <1>2, <1>3, <2>1, <2>2
<1>7. WebEarnedBy(Bump(t), n)
  BY <1>4, <1>5, <1>6, BumpedOnce DEF WebEarnedBy
<1>8. Bump(t).notes = p.notes /\ Bump(t).drafts = p.drafts
  BY <1>4, BumpedOnce
<1>9. QED
  BY <1>7, <1>8 DEF t

\* a solution (check() in Challenge.tsx),
LEMMA SolutionCountsOnce ==
    ASSUME NEW p, NEW n \in Nat, WebEarnedBy(p, n), NEW l \in Exercises, l \notin p.solved
    PROVE  /\ WebEarnedBy(Bump([p EXCEPT !.solved = @ \cup {l}]), n)
           /\ Bump([p EXCEPT !.solved = @ \cup {l}]).notes = p.notes
           /\ Bump([p EXCEPT !.solved = @ \cup {l}]).drafts = p.drafts
<1> DEFINE t == [p EXCEPT !.solved = @ \cup {l}]
<1>1. p \in Progress /\ p.solved \in SUBSET Exercises /\ p.practice \in Nat
  BY DEF WebEarnedBy, Progress
<1>2. p.solved \cup {l} \in SUBSET Exercises
      /\ Cardinality(p.solved \cup {l}) = Cardinality(p.solved) + 1
      /\ Cardinality(p.solved) \in Nat
  BY <1>1, OneExerciseMore
<1>3. Cardinality(p.quizzes) \in Nat /\ Cardinality(p.completed) \in Nat
  BY <1>1, OneExerciseMore DEF Progress
<1>4. /\ t \in Progress /\ t.solved = p.solved \cup {l} /\ t.quizzes = p.quizzes
      /\ t.completed = p.completed /\ t.practice = p.practice
      /\ t.notes = p.notes /\ t.drafts = p.drafts
  BY <1>1, <1>2 DEF Progress
<1>5. t.certified = p.certified
  BY <1>1 DEF Progress
<1> HIDE DEF t
<1>6. Bump(t).practice = Cardinality(Bump(t).quizzes) + Cardinality(Bump(t).solved)
                           + Cardinality(Bump(t).completed) + n
  <2>1. p.practice = Cardinality(p.quizzes) + Cardinality(p.solved) + Cardinality(p.completed) + n
    BY DEF WebEarnedBy
  <2>2. /\ Bump(t).practice = p.practice + 1
        /\ Cardinality(Bump(t).solved) = Cardinality(p.solved) + 1
        /\ Bump(t).quizzes = p.quizzes /\ Bump(t).completed = p.completed
    BY <1>2, <1>4, BumpedOnce
  <2>3. QED
    BY <1>1, <1>2, <1>3, <2>1, <2>2
<1>7. WebEarnedBy(Bump(t), n)
  BY <1>4, <1>5, <1>6, BumpedOnce DEF WebEarnedBy
<1>8. Bump(t).notes = p.notes /\ Bump(t).drafts = p.drafts
  BY <1>4, BumpedOnce
<1>9. QED
  BY <1>7, <1>8 DEF t

WithLesson(p, l) ==
    Bump([p EXCEPT !.completed = p.completed \cup {l}, !.due = @ \cup {l},
                   !.certified = @ \/ CertificateEarned(p.completed \cup {l}, Exercises)])
WithoutCard(p, l) == Bump([p EXCEPT !.due = @ \ {l}])

\* and a lesson completed, with its card and the certificate (complete()).
LEMMA LessonCountsOnce ==
    ASSUME NEW p, NEW n \in Nat, WebEarnedBy(p, n), NEW l \in Exercises, l \notin p.completed,
           l \in p.quizzes \cap p.solved
    PROVE  /\ WebEarnedBy(WithLesson(p, l), n)
           /\ WithLesson(p, l).notes = p.notes /\ WithLesson(p, l).drafts = p.drafts
<1> DEFINE done == p.completed \cup {l}
           cards == p.due \cup {l}
           cert == p.certified \/ CertificateEarned(done, Exercises)
           u == [p EXCEPT !.completed = done]
           v == [u EXCEPT !.due = cards]
           t == [v EXCEPT !.certified = cert]
           q == WithLesson(p, l)
<1>1. p \in Progress /\ p.completed \in SUBSET Exercises /\ p.practice \in Nat
  BY DEF WebEarnedBy, Progress
<1>2. done \in SUBSET Exercises /\ Cardinality(done) = Cardinality(p.completed) + 1
      /\ Cardinality(p.completed) \in Nat
  BY <1>1, OneExerciseMore
<1>3. Cardinality(p.quizzes) \in Nat /\ Cardinality(p.solved) \in Nat
  BY <1>1, OneExerciseMore DEF Progress
<1>4. cards \in SUBSET Exercises /\ cert \in BOOLEAN
  BY <1>1 DEF Progress
<1>5. q = Bump(t)
  BY <1>1 DEF Progress, WithLesson
<1>6. p.certified => done = Exercises
  BY <1>1 DEF WebEarnedBy
<1>7. cert => done = Exercises
  BY <1>2, <1>6 DEF CertificateEarned
<1>8. done \subseteq p.quizzes \cap p.solved
  BY DEF WebEarnedBy
<1> HIDE DEF done, cards, cert
<1>9. /\ u \in Progress /\ u.completed = done /\ u.quizzes = p.quizzes /\ u.solved = p.solved
      /\ u.practice = p.practice /\ u.notes = p.notes /\ u.drafts = p.drafts
  BY <1>1, <1>2 DEF Progress
<1> HIDE DEF u
<1>10. /\ v \in Progress /\ v.completed = done /\ v.quizzes = p.quizzes /\ v.solved = p.solved
       /\ v.practice = p.practice /\ v.notes = p.notes /\ v.drafts = p.drafts
  BY <1>4, <1>9 DEF Progress
<1> HIDE DEF v
<1>11. /\ t \in Progress /\ t.completed = done /\ t.quizzes = p.quizzes /\ t.solved = p.solved
       /\ t.practice = p.practice /\ t.notes = p.notes /\ t.drafts = p.drafts
  BY <1>4, <1>10 DEF Progress
<1>12. t.certified = cert
  BY <1>10 DEF Progress
<1> HIDE DEF t
<1> HIDE DEF q
<1>13. /\ q \in Progress /\ q.completed = done /\ q.quizzes = p.quizzes /\ q.solved = p.solved
       /\ q.notes = p.notes /\ q.drafts = p.drafts /\ q.certified = t.certified
       /\ q.practice = p.practice + 1
  BY <1>5, <1>11, BumpedOnce
<1>14. q.certified => q.completed = Exercises
  BY <1>7, <1>12, <1>13
<1>15. p.practice = Cardinality(p.quizzes) + Cardinality(p.solved) + Cardinality(p.completed) + n
  BY DEF WebEarnedBy
<1>16. q.practice = Cardinality(q.quizzes) + Cardinality(q.solved) + Cardinality(q.completed) + n
  BY <1>1, <1>2, <1>3, <1>13, <1>15
<1>17. QED
  BY <1>8, <1>13, <1>14, <1>16 DEF WebEarnedBy, q

\* A rating counts, too, and takes its card from the deck (Review.rate()).
LEMMA RatingCounts ==
    ASSUME NEW p, NEW n \in Nat, WebEarnedBy(p, n), NEW l
    PROVE  /\ WebEarnedBy(WithoutCard(p, l), n + 1)
           /\ WithoutCard(p, l).notes = p.notes /\ WithoutCard(p, l).drafts = p.drafts
<1> DEFINE t == [p EXCEPT !.due = @ \ {l}]
           q == WithoutCard(p, l)
<1>1. p \in Progress /\ p.practice \in Nat
  BY DEF WebEarnedBy, Progress
<1>2. /\ t \in Progress /\ t.completed = p.completed /\ t.quizzes = p.quizzes
      /\ t.solved = p.solved /\ t.practice = p.practice
      /\ t.notes = p.notes /\ t.drafts = p.drafts
  BY <1>1 DEF Progress
<1>3. t.certified = p.certified
  BY <1>1 DEF Progress
<1>4. Cardinality(p.quizzes) \in Nat /\ Cardinality(p.solved) \in Nat
      /\ Cardinality(p.completed) \in Nat
  <2>1. p.quizzes \in SUBSET Exercises /\ p.solved \in SUBSET Exercises
        /\ p.completed \in SUBSET Exercises
    BY <1>1 DEF Progress
  <2>2. \A S \in SUBSET Exercises : Cardinality(S) \in Nat
    BY FS_Subset, FS_CardinalityType, WebStudioAssumption
  <2>3. QED
    BY <2>1, <2>2
<1>5. q = Bump(t)
  BY DEF WithoutCard
<1> HIDE DEF t, q
<1>6. /\ q \in Progress /\ q.completed = p.completed /\ q.quizzes = p.quizzes
      /\ q.solved = p.solved /\ q.notes = p.notes /\ q.drafts = p.drafts
      /\ q.practice = p.practice + 1
  BY <1>2, <1>5, BumpedOnce
<1>7. q.certified = p.certified
  BY <1>2, <1>3, <1>5, BumpedOnce
<1>8. p.practice = Cardinality(p.quizzes) + Cardinality(p.solved) + Cardinality(p.completed) + n
  BY DEF WebEarnedBy
<1>9. q.practice = Cardinality(q.quizzes) + Cardinality(q.solved) + Cardinality(q.completed) + (n + 1)
  BY <1>1, <1>4, <1>6, <1>8
<1>10. QED
  BY <1>6, <1>7, <1>9 DEF WebEarnedBy, q

\* A draft,
LEMMA DraftEarnsNothing ==
    ASSUME NEW p, NEW n, WebEarnedBy(p, n), NEW l \in Exercises, NEW t \in DraftText
    PROVE  /\ WebEarnedBy([p EXCEPT !.drafts[l] = t], n)
           /\ [p EXCEPT !.drafts[l] = t].notes = p.notes
           /\ \A k \in Exercises : [p EXCEPT !.drafts[l] = t].drafts[k] = IF k = l THEN t ELSE p.drafts[k]
<1> DEFINE f == [p.drafts EXCEPT ![l] = t]
           q == [p EXCEPT !.drafts = f]
<1>1. p \in Progress /\ p.drafts \in [Exercises -> DraftText]
  BY DEF WebEarnedBy, Progress
<1>2. [p EXCEPT !.drafts[l] = t] = q
  BY <1>1 DEF Progress
<1>3. f \in [Exercises -> DraftText] /\ \A k \in Exercises : f[k] = IF k = l THEN t ELSE p.drafts[k]
  BY <1>1
<1> HIDE DEF f
<1>4. /\ q \in Progress /\ q.drafts = f /\ q.quizzes = p.quizzes /\ q.solved = p.solved
      /\ q.completed = p.completed /\ q.practice = p.practice /\ q.notes = p.notes
  BY <1>1, <1>3 DEF Progress
<1>5. q.certified = p.certified
  BY <1>1 DEF Progress
<1> HIDE DEF q
<1>6. QED
  BY <1>2, <1>3, <1>4, <1>5, SameEarned

\* a note
LEMMA NoteEarnsNothing ==
    ASSUME NEW p, NEW n, WebEarnedBy(p, n), NEW l \in Exercises, NEW t \in Note
    PROVE  /\ WebEarnedBy([p EXCEPT !.notes[l] = t], n)
           /\ [p EXCEPT !.notes[l] = t].drafts = p.drafts
           /\ \A k \in Exercises : [p EXCEPT !.notes[l] = t].notes[k] = IF k = l THEN t ELSE p.notes[k]
<1> DEFINE f == [p.notes EXCEPT ![l] = t]
           q == [p EXCEPT !.notes = f]
<1>1. p \in Progress /\ p.notes \in [Exercises -> Note]
  BY DEF WebEarnedBy, Progress
<1>2. [p EXCEPT !.notes[l] = t] = q
  BY <1>1 DEF Progress
<1>3. f \in [Exercises -> Note] /\ \A k \in Exercises : f[k] = IF k = l THEN t ELSE p.notes[k]
  BY <1>1
<1> HIDE DEF f
<1>4. /\ q \in Progress /\ q.notes = f /\ q.quizzes = p.quizzes /\ q.solved = p.solved
      /\ q.completed = p.completed /\ q.practice = p.practice /\ q.drafts = p.drafts
  BY <1>1, <1>3 DEF Progress
<1>5. q.certified = p.certified
  BY <1>1 DEF Progress
<1> HIDE DEF q
<1>6. QED
  BY <1>2, <1>3, <1>4, <1>5, SameEarned

\* or a hint that is saved earns nothing.
LEMMA HintEarnsNothing ==
    ASSUME NEW p, NEW n, WebEarnedBy(p, n), NEW l \in Exercises, NEW t \in 0 .. Tiers
    PROVE  /\ WebEarnedBy([p EXCEPT !.hints[l] = t], n)
           /\ [p EXCEPT !.hints[l] = t].notes = p.notes /\ [p EXCEPT !.hints[l] = t].drafts = p.drafts
<1> DEFINE f == [p.hints EXCEPT ![l] = t]
           q == [p EXCEPT !.hints = f]
<1>1. p \in Progress /\ p.hints \in [Exercises -> 0 .. Tiers]
  BY DEF WebEarnedBy, Progress
<1>2. [p EXCEPT !.hints[l] = t] = q
  BY <1>1 DEF Progress
<1>3. f \in [Exercises -> 0 .. Tiers] /\ \A k \in Exercises : f[k] = IF k = l THEN t ELSE p.hints[k]
  BY <1>1
<1> HIDE DEF f
<1>4. /\ q \in Progress /\ q.hints = f /\ q.quizzes = p.quizzes /\ q.solved = p.solved
      /\ q.completed = p.completed /\ q.practice = p.practice /\ q.notes = p.notes /\ q.drafts = p.drafts
  BY <1>1, <1>3 DEF Progress
<1>5. q.certified = p.certified
  BY <1>1 DEF Progress
<1> HIDE DEF q
<1>6. QED
  BY <1>2, <1>3, <1>4, <1>5, SameEarned

\* A gesture or a result that leaves the timers of notes, what was typed and what
\* is saved of both as they are.
LEMMA TextsStay ==
    ASSUME LessonsInv, NEW n \in Nat, WebEarnedBy(progress', n), rated' = n,
           progress'.notes = progress.notes, progress'.drafts = progress.drafts,
           UNCHANGED <<page, noteTimers, typed, overtaken>>, checks' \in Seq(Check), acts' \in Nat
    PROVE  LessonsInv'
<1> USE DEF LessonsInv, WebStudioTypeOK
<1>1. NotesAreKept'
  BY DEF NotesAreKept
<1>2. EditorIsSaved'
  BY DEF EditorIsSaved, Here
<1>3. progress' \in Progress
  BY DEF WebEarnedBy
<1>4. QED
  BY <1>1, <1>2, <1>3

\* RemoveAt of the library: one is gone, and the others keep their order.
LEMMA OneIsRemoved ==
    ASSUME NEW S, NEW s \in Seq(S), NEW i \in 1 .. Len(s)
    PROVE  /\ RemoveAt(s, i) \in Seq(S) /\ Len(RemoveAt(s, i)) = Len(s) - 1
           /\ \A j \in 1 .. Len(s) - 1 : RemoveAt(s, i)[j] = s[IF j < i THEN j ELSE j + 1]
<1> DEFINE front == SubSeq(s, 1, i - 1)
           rest == SubSeq(s, i + 1, Len(s))
<1>1. Len(s) \in Nat /\ i \in Nat /\ 1 <= i /\ i <= Len(s)
  OBVIOUS
<1>2. /\ front \in Seq(S) /\ Len(front) = i - 1
      /\ \A j \in 1 .. i - 1 : front[j] = s[j]
  <2>1. \A j \in 1 .. i - 1 : s[j] \in S
    OBVIOUS
  <2>2. /\ front \in Seq(S) /\ Len(front) = IF 1 <= i - 1 THEN i - 1 - 1 + 1 ELSE 0
        /\ \A j \in 1 .. i - 1 - 1 + 1 : front[j] = s[1 + j - 1]
    BY <1>1, <2>1, SubSeqProperties
  <2> QED
    BY <1>1, <2>2
<1>3. /\ rest \in Seq(S) /\ Len(rest) = Len(s) - i
      /\ \A j \in 1 .. Len(s) - i : rest[j] = s[i + j]
  <2>1. \A j \in i + 1 .. Len(s) : s[j] \in S
    OBVIOUS
  <2>2. /\ rest \in Seq(S) /\ Len(rest) = IF i + 1 <= Len(s) THEN Len(s) - (i + 1) + 1 ELSE 0
        /\ \A j \in 1 .. Len(s) - (i + 1) + 1 : rest[j] = s[i + 1 + j - 1]
    BY <1>1, <2>1, SubSeqProperties
  <2> QED
    BY <1>1, <2>2
<1>4. RemoveAt(s, i) = front \o rest
  BY DEF RemoveAt
<1> HIDE DEF front, rest
<1>5. /\ front \o rest \in Seq(S) /\ Len(front \o rest) = Len(front) + Len(rest)
      /\ \A j \in 1 .. Len(front) + Len(rest) :
            (front \o rest)[j] = IF j <= Len(front) THEN front[j] ELSE rest[j - Len(front)]
  BY <1>2, <1>3, ConcatProperties
<1>6. ASSUME NEW j \in 1 .. Len(s) - 1 PROVE (front \o rest)[j] = s[IF j < i THEN j ELSE j + 1]
  <2>1. CASE j < i
    BY <1>1, <1>2, <1>3, <1>5, <2>1
  <2>2. CASE ~(j < i)
    <3>1. j - (i - 1) \in 1 .. Len(s) - i /\ i + (j - (i - 1)) = j + 1
      BY <1>1, <2>2
    <3>2. j \in 1 .. Len(front) + Len(rest) /\ ~(j <= Len(front)) /\ Len(front) = i - 1
      BY <1>1, <1>2, <1>3, <2>2
    <3>3. (front \o rest)[j] = rest[j - (i - 1)]
      BY <1>5, <3>2
    <3>4. rest[j - (i - 1)] = s[i + (j - (i - 1))]
      BY <1>3, <3>1
    <3> QED
      BY <2>2, <3>1, <3>3, <3>4
  <2> QED
    BY <2>1, <2>2
<1> QED
  BY <1>1, <1>2, <1>3, <1>4, <1>5, <1>6

\* A check that answered is gone.
LEMMA CheckIsGone ==
    ASSUME NEW cs \in Seq(Check), NEW i \in 1 .. Len(cs)
    PROVE  RemoveAt(cs, i) \in Seq(Check)
BY OneIsRemoved

\* The learning pages start with nothing typed, earned or under way.
LEMMA PagesStartTrue == ASSUME PagesInit PROVE LessonsInv
<1> USE DEF PagesInit
<1>1. WebEarnedBy(progress, rated) /\ progress \in Progress
  BY FreshProgressIsEarned DEF WebEarnedBy
<1>2. WebStudioTypeOK
  <2>1. page \in Page
    BY DEF Elsewhere, Page, DraftText
  <2>2. checks \in Seq(Check) /\ noteTimers \in Seq([lesson: Exercises, text: Drafts])
    BY EmptySeq
  <2>3. typed \in [Exercises -> Note]
    BY DEF Note
  <2>4. QED
    BY <1>1, <2>1, <2>2, <2>3 DEF WebStudioTypeOK
<1>3. NotesAreKept /\ EditorIsSaved
  BY DEF NotesAreKept, EditorIsSaved, Here, Elsewhere
<1>4. QED
  BY <1>1, <1>2, <1>3 DEF LessonsInv

\* Answers, checks, hints, completions and ratings.
LEMMA RecordKeeps ==
    ASSUME LessonsInv,
           \/ SubmitQuiz \/ RevealHint \/ CompleteLesson \/ RateCard
           \/ \E i \in 1 .. Len(checks) : Passes(i) \/ Fails(i)
    PROVE  LessonsInv'
<1> USE DEF LessonsInv
<1>1. /\ rated \in Nat /\ acts \in Nat /\ checks \in Seq(Check) /\ progress \in Progress
      /\ WebEarnedBy(progress, rated) /\ page.lesson \in Exercises \cup {Nowhere}
  BY DEF WebStudioTypeOK, Page
<1>2. progress.hints \in [Exercises -> 0 .. Tiers] /\ Tiers \in Nat
  BY <1>1, WebStudioAssumption DEF Progress
<1>3. CASE SubmitQuiz
  <2> USE <1>3 DEF SubmitQuiz
  <2>1. Here \in Exercises /\ acts' \in Nat
    BY <1>1 DEF Here, Act
  <2>2. PICK l : l = Here
    OBVIOUS
  <2>3. progress' = Bump([progress EXCEPT !.quizzes = @ \cup {l}])
    BY <2>2
  <2>4. WebEarnedBy(progress', rated) /\ progress'.notes = progress.notes
        /\ progress'.drafts = progress.drafts
    BY <1>1, <2>1, <2>2, <2>3, AnswerCountsOnce
  <2>5. QED
    BY <1>1, <2>1, <2>4, TextsStay
<1>4. CASE RevealHint
  <2> USE <1>4 DEF RevealHint
  <2>1. Here \in Exercises /\ acts' \in Nat
    BY <1>1 DEF Here, Act
  <2>2. PICK h \in 0 .. Tiers : h = progress.hints[Here] + 1
    BY <1>2, <2>1
  <2>3. progress' = [progress EXCEPT !.hints[Here] = h]
    BY <2>2
  <2>4. WebEarnedBy(progress', rated) /\ progress'.notes = progress.notes
        /\ progress'.drafts = progress.drafts
    BY <1>1, <2>1, <2>3, HintEarnsNothing
  <2>5. QED
    BY <1>1, <2>1, <2>4, TextsStay
<1>5. CASE CompleteLesson
  <2> USE <1>5 DEF CompleteLesson
  <2>1. Here \in Exercises /\ acts' \in Nat
    BY <1>1 DEF Here, Act, Progress
  <2>2. progress' = WithLesson(progress, Here)
    BY DEF WithLesson
  <2>3. WebEarnedBy(progress', rated) /\ progress'.notes = progress.notes
        /\ progress'.drafts = progress.drafts
    BY <1>1, <2>1, <2>2, LessonCountsOnce
  <2>4. QED
    BY <1>1, <2>1, <2>3, TextsStay
<1>6. CASE RateCard
  <2> USE <1>6 DEF RateCard
  <2>1. acts' \in Nat /\ rated' \in Nat
    BY <1>1 DEF Act
  <2>2. PICK l \in progress.due : progress' = WithoutCard(progress, l)
    BY DEF WithoutCard
  <2>3. WebEarnedBy(progress', rated') /\ progress'.notes = progress.notes
        /\ progress'.drafts = progress.drafts
    BY <1>1, <2>2, RatingCounts
  <2>4. QED
    BY <1>1, <2>1, <2>3, TextsStay
<1>7. ASSUME NEW i \in 1 .. Len(checks), Passes(i)
      PROVE  LessonsInv'
  <2> USE <1>7 DEF Passes
  <2> HIDE DEF Passes
  <2>0. checks[i] \in Check
    BY <1>1, ElementOfSeq
  <2>1. PICK l \in Exercises : l = checks[i].lesson
    BY <2>0 DEF Check
  <2> USE DEF Passes
  <2>2. WebEarnedBy(progress', rated) /\ progress'.notes = progress.notes
        /\ progress'.drafts = progress.drafts
    <3>1. CASE l \in progress.solved
      BY <1>1, <2>1, <3>1
    <3>2. CASE l \notin progress.solved
      <4>1. progress' = Bump([progress EXCEPT !.solved = @ \cup {l}])
        BY <2>1, <3>2
      <4>2. QED
        BY <1>1, <3>2, <4>1, SolutionCountsOnce
    <3>3. QED
      BY <3>1, <3>2
  <2>3. checks' \in Seq(Check)
    BY <1>1, CheckIsGone
  <2>4. QED
    BY <1>1, <2>2, <2>3, TextsStay
<1>8. ASSUME NEW i \in 1 .. Len(checks), Fails(i)
      PROVE  LessonsInv'
  <2> USE <1>8 DEF Fails
  <2> HIDE DEF Fails
  <2>0. checks[i] \in Check
    BY <1>1, ElementOfSeq
  <2>1. PICK l \in Exercises : l = checks[i].lesson
    BY <2>0 DEF Check
  <2> USE DEF Fails
  <2>2. PICK h \in 0 .. Tiers : h = IF progress.hints[l] < Tiers THEN progress.hints[l] + 1 ELSE Tiers
    BY <1>2
  <2>3. progress' = progress \/ progress' = [progress EXCEPT !.hints[l] = h]
    BY <2>1, <2>2
  <2>4. WebEarnedBy(progress', rated) /\ progress'.notes = progress.notes
        /\ progress'.drafts = progress.drafts
    <3>1. CASE progress' = progress
      BY <1>1, <3>1
    <3>2. CASE progress' = [progress EXCEPT !.hints[l] = h]
      BY <1>1, <3>2, HintEarnsNothing
    <3>3. QED
      BY <2>3, <3>1, <3>2
  <2>5. checks' \in Seq(Check)
    BY <1>1, CheckIsGone
  <2>6. QED
    BY <1>1, <2>4, <2>5, TextsStay
<1>9. QED
  BY <1>3, <1>4, <1>5, <1>6, <1>7, <1>8

\* A page that opens has the draft that is saved, and what was typed of notes stays.
LEMMA VisitKeeps == ASSUME LessonsInv, NEW l \in Exercises \cup {Nowhere}, Visit(l) PROVE LessonsInv'
<1> USE DEF LessonsInv, Visit
<1>1. progress \in Progress /\ progress.drafts \in [Exercises -> DraftText] /\ acts' \in Nat
  BY DEF WebStudioTypeOK, Progress, Act
<1>2. page' \in Page /\ page'.timer = Nothing
      /\ (page'.lesson # Nowhere => page'.lesson = l /\ page'.text = progress.drafts[l])
  <2>1. CASE l = Nowhere
    BY <2>1 DEF Elsewhere, Page, DraftText
  <2>2. CASE l # Nowhere
    <3>1. page' = [Elsewhere EXCEPT !.lesson = l, !.text = progress.drafts[l]]
      BY <2>2
    <3>2. progress.drafts[l] \in DraftText
      BY <1>1, <2>2
    <3>3. QED
      BY <2>2, <3>1, <3>2 DEF Elsewhere, Page
  <2>3. QED
    BY <2>1, <2>2
<1>3. checks' \in Seq(Check)
  <2>1. checks \in Seq(Check)
    BY DEF WebStudioTypeOK
  <2>2. DOMAIN checks = 1 .. Len(checks) /\ Len(checks) \in Nat
    BY <2>1, LenProperties
  <2>3. \A i \in DOMAIN checks : [checks[i] EXCEPT !.open = FALSE] \in Check
    <3>1. \A i \in DOMAIN checks : checks[i] \in Check
      BY <2>1, <2>2, ElementOfSeq
    <3>2. QED
      BY <3>1 DEF Check
  <2>4. checks' \in [1 .. Len(checks) -> Check]
    BY <2>2, <2>3
  <2>5. QED
    BY <2>2, <2>4, SeqDef
<1>4. NotesAreKept'
  BY DEF NotesAreKept
<1>5. EditorIsSaved'
  BY <1>2 DEF EditorIsSaved, Here
<1>6. QED
  BY <1>1, <1>2, <1>3, <1>4, <1>5 DEF WebStudioTypeOK

\* What the editor saves, and when: typing, resetting, its timer, a check, and a
\* draft that arrives.
LEMMA EditorKeeps ==
    ASSUME LessonsInv,
           \/ SaveDraft \/ Begin
           \/ \E text \in DraftText : Type(text)
           \/ \E l \in Exercises, text \in Drafts : DraftArrives(l, text)
    PROVE  LessonsInv'
<1> USE DEF LessonsInv
<1>1. /\ rated \in Nat /\ acts \in Nat /\ checks \in Seq(Check) /\ progress \in Progress
      /\ WebEarnedBy(progress, rated) /\ page \in Page
      /\ page.lesson \in Exercises \cup {Nowhere} /\ page.text \in DraftText
      /\ page.timer \in Drafts \cup {Nothing} /\ overtaken \in BOOLEAN
  BY DEF WebStudioTypeOK, Page
<1>2. progress.drafts \in [Exercises -> DraftText]
  BY <1>1 DEF Progress
<1>3. ASSUME NEW l \in Exercises, NEW t \in DraftText, progress' = [progress EXCEPT !.drafts[l] = t]
      PROVE  /\ WebEarnedBy(progress', rated) /\ progress'.notes = progress.notes
             /\ progress'.drafts[l] = t
             /\ \A k \in Exercises : progress'.drafts[k] = IF k = l THEN t ELSE progress.drafts[k]
  <2> HIDE DEF LessonsInv
  <2>1. WebEarnedBy(progress, rated)
    BY <1>1
  <2>2. QED
    BY <1>3, <2>1, DraftEarnsNothing
<1>4. ASSUME WebEarnedBy(progress', rated), progress'.notes = progress.notes,
             UNCHANGED <<noteTimers, typed, rated>>, checks' \in Seq(Check), acts' \in Nat,
             page' \in Page, overtaken' \in BOOLEAN, EditorIsSaved'
      PROVE  LessonsInv'
  <2>1. NotesAreKept'
    BY <1>4 DEF NotesAreKept
  <2>2. progress' \in Progress
    BY <1>4 DEF WebEarnedBy
  <2>3. QED
    BY <1>4, <2>1, <2>2 DEF WebStudioTypeOK
<1>5. CASE SaveDraft
  <2> USE <1>5 DEF SaveDraft
  <2>1. /\ Here \in Exercises /\ page.text = page.timer /\ page.timer \in Drafts
    BY <1>1 DEF EditorIsSaved, Here
  <2>2. PICK l \in Exercises, t \in DraftText : l = Here /\ t = page.timer
    BY <2>1 DEF DraftText
  <2>3. progress' = [progress EXCEPT !.drafts[l] = t]
    BY <2>2
  <2>4. /\ WebEarnedBy(progress', rated) /\ progress'.notes = progress.notes
        /\ progress'.drafts[l] = t
    BY <1>3, <2>3
  <2>5. /\ page' \in Page /\ page'.lesson = l /\ page'.text = t /\ page'.timer = Nothing
    BY <1>1, <2>1, <2>2 DEF Page, Here
  <2>6. EditorIsSaved'
    BY <2>4, <2>5 DEF EditorIsSaved, Here
  <2>7. QED
    BY <1>1, <1>4, <2>4, <2>5, <2>6
<1>6. CASE Begin
  <2> USE <1>6 DEF Begin
  <2>1. PICK l \in Exercises, t \in DraftText : l = Here /\ t = page.text
    BY <1>1 DEF Here
  <2>2. progress' = [progress EXCEPT !.drafts[l] = t]
    BY <2>1
  <2>3. /\ WebEarnedBy(progress', rated) /\ progress'.notes = progress.notes
        /\ progress'.drafts[l] = t
    BY <1>3, <2>2
  <2>4. /\ page' \in Page /\ page'.lesson = l /\ page'.text = t /\ page'.timer = Nothing
    BY <1>1, <2>1 DEF Page, Here
  <2>5. EditorIsSaved'
    BY <2>3, <2>4 DEF EditorIsSaved, Here
  <2>6. NewCheck \in Check
    BY <2>1 DEF NewCheck, Check
  <2>7. checks' \in Seq(Check) /\ acts' \in Nat
    BY <1>1, <2>6 DEF Act
  <2>8. QED
    BY <1>1, <1>4, <2>3, <2>4, <2>5, <2>7
<1>7. ASSUME NEW text \in DraftText, Type(text)
      PROVE  LessonsInv'
  <2>1. Here \in Exercises /\ acts' \in Nat
    <3>1. Here # Nowhere /\ Act
      BY <1>7 DEF Type
    <3>2. QED
      BY <1>1, <3>1 DEF Here, Act
  <2> USE <1>7 DEF Type
  <2>2. CASE text # Starter
    <3>1. text \in Drafts /\ text # Nothing
      BY <2>2, WebStudioAssumption DEF DraftText
    <3>2. /\ page' \in Page /\ page'.lesson = Here /\ page'.text = text /\ page'.timer = text
          /\ page'.touched
      BY <1>1, <2>2, <3>1 DEF Page, Here
    <3>3. EditorIsSaved'
      BY <2>1, <3>1, <3>2 DEF EditorIsSaved, Here
    <3>4. QED
      BY <1>1, <1>4, <2>1, <2>2, <3>2, <3>3
  <2>3. CASE text = Starter
    <3>1. PICK l \in Exercises : l = Here
      BY <2>1
    <3>2. progress' = [progress EXCEPT !.drafts[l] = text]
      BY <2>3, <3>1
    <3>3. /\ WebEarnedBy(progress', rated) /\ progress'.notes = progress.notes
          /\ progress'.drafts[l] = text
      BY <1>3, <3>2
    <3>4. /\ page' \in Page /\ page'.lesson = l /\ page'.text = text /\ page'.timer = Nothing
      BY <1>1, <2>3, <3>1 DEF Page, Here
    <3>5. EditorIsSaved'
      BY <3>3, <3>4 DEF EditorIsSaved, Here
    <3>6. QED
      BY <1>1, <1>4, <2>1, <2>3, <3>3, <3>4, <3>5
  <2>4. QED
    BY <2>2, <2>3
<1>8. ASSUME NEW l \in Exercises, NEW text \in Drafts, DraftArrives(l, text)
      PROVE  LessonsInv'
  <2> USE <1>8 DEF DraftArrives
  <2>1. text \in DraftText /\ acts' \in Nat
    BY <1>1 DEF DraftText, Act
  <2>2. /\ WebEarnedBy(progress', rated) /\ progress'.notes = progress.notes
        /\ \A k \in Exercises : progress'.drafts[k] = IF k = l THEN text ELSE progress.drafts[k]
    BY <1>3, <2>1
  <2>3. /\ page' \in Page /\ page'.lesson = page.lesson /\ page'.timer = page.timer
        /\ page'.touched = page.touched
    BY <1>1, <2>1 DEF Page
  <2>4. page.touched \/ Here # l => page'.text = page.text
    OBVIOUS
  <2>5. overtaken' \in BOOLEAN /\ (~overtaken' => ~overtaken /\ Here # l)
    BY <1>1
  <2>6. EditorIsSaved'
    <3>1. ASSUME page'.lesson # Nowhere, page'.timer = Nothing, ~overtaken'
          PROVE  page'.text = progress'.drafts[page'.lesson]
      BY <1>1, <2>2, <2>3, <2>4, <2>5, <3>1 DEF EditorIsSaved, Here
    <3>2. ASSUME page'.timer # Nothing
          PROVE  page'.lesson # Nowhere /\ page'.touched /\ page'.text = page'.timer
      BY <2>3, <2>4, <3>2 DEF EditorIsSaved, Here
    <3>3. QED
      BY <3>1, <3>2 DEF EditorIsSaved, Here
  <2>7. QED
    BY <1>1, <1>4, <2>1, <2>2, <2>3, <2>5, <2>6
<1>9. QED
  BY <1>5, <1>6, <1>7, <1>8

\* Front of the library: all but the last.
LEMMA FrontOfSequence ==
    ASSUME NEW S, NEW q \in Seq(S), q # << >>
    PROVE  /\ Front(q) \in Seq(S) /\ Len(q) \in Nat
           /\ Len(Front(q)) = Len(q) - 1 /\ Len(q) > 0
           /\ \A i \in 1 .. Len(Front(q)) : Front(q)[i] = q[i]
<1>1. Len(q) \in Nat /\ Len(q) > 0
  BY EmptySeq
<1>2. PICK n \in Nat : n = Len(q) - 1
  BY <1>1
<1>3. \A i \in 1 .. n : q[i] \in S
  BY <1>2
<1>4. Front(q) = SubSeq(q, 1, n)
  BY <1>2 DEF Front
<1>5. /\ SubSeq(q, 1, n) \in Seq(S)
      /\ Len(SubSeq(q, 1, n)) = IF 1 <= n THEN n - 1 + 1 ELSE 0
      /\ \A i \in 1 .. n - 1 + 1 : SubSeq(q, 1, n)[i] = q[1 + i - 1]
  BY <1>3, SubSeqProperties
<1>6. QED
  BY <1>1, <1>2, <1>4, <1>5

\* A note that is typed waits last for its lesson, in place of one of this page.
LEMMA TypeNoteKeeps == ASSUME LessonsInv, NEW text \in Drafts, TypeNote(text) PROVE LessonsInv'
<1> USE DEF LessonsInv
<1> DEFINE Waiting == [lesson: Exercises, text: Drafts]
           replaces == page.noted /\ noteTimers # << >> /\ Last(noteTimers).lesson = Here
           others == IF replaces THEN Front(noteTimers) ELSE noteTimers
           note == [lesson |-> Here, text |-> text]
<1>1. /\ page \in Page /\ Here \in Exercises /\ acts' \in Nat
      /\ noteTimers \in Seq(Waiting) /\ typed \in [Exercises -> Note]
  BY DEF TypeNote, WebStudioTypeOK, Page, Here, Act
<1>2. /\ noteTimers' = Append(others, note) /\ typed' = [typed EXCEPT ![Here] = text]
      /\ page' = [page EXCEPT !.noted = TRUE]
      /\ UNCHANGED <<progress, checks, rated, overtaken>>
  BY DEF TypeNote
<1>3. /\ others \in Seq(Waiting) /\ Len(others) <= Len(noteTimers)
      /\ \A i \in 1 .. Len(others) : others[i] = noteTimers[i]
      /\ \A i \in 1 .. Len(noteTimers) : i > Len(others) => noteTimers[i].lesson = Here
  <2>1. CASE replaces
    <3>1. others = Front(noteTimers) /\ noteTimers # << >>
      BY <2>1
    <3> HIDE DEF Waiting, others, replaces
    <3>2. noteTimers \in Seq(Waiting)
      BY <1>1
    <3>3. /\ others \in Seq(Waiting) /\ Len(noteTimers) \in Nat
          /\ Len(others) = Len(noteTimers) - 1 /\ Len(noteTimers) > 0
          /\ \A i \in 1 .. Len(others) : others[i] = noteTimers[i]
      BY <3>1, <3>2, FrontOfSequence
    <3> USE DEF replaces
    <3>4. noteTimers[Len(noteTimers)].lesson = Here
      BY <2>1 DEF Last
    <3>5. QED
      BY <3>3, <3>4
  <2>2. CASE ~replaces
    BY <1>1, <2>2
  <2>3. QED
    BY <2>1, <2>2
<1> HIDE DEF others
<1>4. note \in Waiting
  BY <1>1
<1>5. /\ noteTimers' \in Seq(Waiting) /\ Len(noteTimers') = Len(others) + 1
      /\ DOMAIN noteTimers' = 1 .. Len(others) + 1
      /\ \A i \in 1 .. Len(others) : noteTimers'[i] = others[i]
      /\ noteTimers'[Len(others) + 1] = note
  BY <1>2, <1>3, <1>4
<1>6. Len(others) \in Nat /\ Len(noteTimers) \in Nat /\ DOMAIN noteTimers = 1 .. Len(noteTimers)
  BY <1>1, <1>3, LenProperties
<1>7. ASSUME NEW l \in Exercises, ~ \E i \in DOMAIN noteTimers' : noteTimers'[i].lesson = l
      PROVE  typed'[l] \in {Nothing, progress'.notes[l]}
  <2>1. l # Here
    BY <1>5, <1>6, <1>7
  <2>2. \A i \in DOMAIN noteTimers : noteTimers[i].lesson # l
    BY <1>3, <1>5, <1>6, <1>7, <2>1
  <2>3. typed'[l] = typed[l] /\ progress' = progress
    BY <1>1, <1>2, <2>1
  <2>4. QED
    BY <2>2, <2>3 DEF NotesAreKept
<1>8. ASSUME NEW l \in Exercises, NEW i \in DOMAIN noteTimers', noteTimers'[i].lesson = l,
             \A j \in DOMAIN noteTimers' : noteTimers'[j].lesson = l => j <= i
      PROVE  noteTimers'[i].text = typed'[l]
  <2>1. CASE l = Here
    <3>1. i = Len(others) + 1
      BY <1>5, <1>6, <1>8, <2>1
    <3>2. QED
      BY <1>1, <1>2, <1>5, <2>1, <3>1
  <2>2. CASE l # Here
    <3>1. i \in 1 .. Len(others)
      BY <1>5, <1>6, <1>8, <2>2
    <3>2. i \in DOMAIN noteTimers /\ noteTimers'[i] = noteTimers[i] /\ noteTimers[i].lesson = l
      BY <1>3, <1>5, <1>6, <1>8, <3>1
    <3>3. \A j \in DOMAIN noteTimers : noteTimers[j].lesson = l => j <= i
      BY <1>3, <1>5, <1>6, <1>8, <2>2
    <3>4. noteTimers[i].text = typed[l]
      BY <3>2, <3>3 DEF NotesAreKept
    <3>5. QED
      BY <1>1, <1>2, <2>2, <3>2, <3>4
  <2>3. QED
    BY <2>1, <2>2
<1>9. NotesAreKept'
  BY <1>7, <1>8 DEF NotesAreKept
<1>10. page' \in Page /\ EditorIsSaved'
  BY <1>1, <1>2 DEF EditorIsSaved, Here, Page
<1>11. typed' \in [Exercises -> Note]
  BY <1>1, <1>2 DEF Note
<1>12. WebEarnedBy(progress', rated')
  BY <1>2
<1> HIDE DEF note
<1>13. QED
  BY <1>1, <1>2, <1>5, <1>9, <1>10, <1>11, <1>12 DEF WebStudioTypeOK

\* The note that waited longest is saved, whatever page is open.
LEMMA SaveNoteKeeps == ASSUME LessonsInv, SaveNote PROVE LessonsInv'
<1> USE DEF LessonsInv
<1> DEFINE Waiting == [lesson: Exercises, text: Drafts]
<1>1. /\ noteTimers \in Seq(Waiting) /\ noteTimers # << >> /\ progress \in Progress
      /\ noteTimers' = Tail(noteTimers)
      /\ UNCHANGED <<page, checks, typed, rated, overtaken, acts>>
  BY DEF SaveNote, WebStudioTypeOK
<1>2. /\ Len(noteTimers) \in Nat /\ Len(noteTimers) > 0 /\ DOMAIN noteTimers = 1 .. Len(noteTimers)
      /\ noteTimers' \in Seq(Waiting) /\ DOMAIN noteTimers' = 1 .. Len(noteTimers) - 1
      /\ \A i \in 1 .. Len(noteTimers) - 1 : noteTimers'[i] = noteTimers[i + 1]
      /\ Head(noteTimers) = noteTimers[1] /\ noteTimers[1] \in Waiting
  <2> HIDE DEF Waiting
  <2>1. Len(noteTimers) \in Nat /\ Len(noteTimers) > 0 /\ DOMAIN noteTimers = 1 .. Len(noteTimers)
    BY <1>1, EmptySeq, LenProperties
  <2>2. noteTimers' \in Seq(Waiting) /\ Len(noteTimers') = Len(noteTimers) - 1
        /\ \A i \in 1 .. Len(noteTimers) - 1 : noteTimers'[i] = noteTimers[i + 1]
    BY <1>1, <2>1, HeadTailProperties
  <2>3. DOMAIN noteTimers' = 1 .. Len(noteTimers) - 1
    BY <2>2, LenProperties
  <2>4. Head(noteTimers) = noteTimers[1] /\ noteTimers[1] \in Waiting
    BY <1>1, <2>1, ElementOfSeq
  <2>5. QED
    BY <2>1, <2>2, <2>3, <2>4
<1>3. PICK l \in Exercises, t \in Note : l = noteTimers[1].lesson /\ t = noteTimers[1].text
  BY <1>2 DEF Note
<1>4. progress' = [progress EXCEPT !.notes[l] = t]
  BY <1>2, <1>3 DEF SaveNote
<1>5. /\ WebEarnedBy(progress', rated) /\ progress'.drafts = progress.drafts
      /\ \A k \in Exercises : progress'.notes[k] = IF k = l THEN t ELSE progress.notes[k]
  BY <1>4, NoteEarnsNothing
<1>6. ASSUME NEW k \in Exercises, ~ \E i \in DOMAIN noteTimers' : noteTimers'[i].lesson = k
      PROVE  typed'[k] \in {Nothing, progress'.notes[k]}
  <2>1. \A i \in DOMAIN noteTimers : i > 1 => noteTimers[i].lesson # k
    <3>1. SUFFICES ASSUME NEW i \in DOMAIN noteTimers, i > 1, noteTimers[i].lesson = k PROVE FALSE
      OBVIOUS
    <3>2. i - 1 \in DOMAIN noteTimers' /\ noteTimers'[i - 1] = noteTimers[i]
      BY <1>2, <3>1
    <3>3. QED
      BY <1>6, <3>1, <3>2
  <2>2. CASE k = l
    <3>1. noteTimers[1].lesson = k /\ \A j \in DOMAIN noteTimers : noteTimers[j].lesson = k => j <= 1
      BY <1>2, <1>3, <2>1, <2>2
    <3>2. noteTimers[1].text = typed[k]
      BY <1>2, <3>1 DEF NotesAreKept
    <3>3. QED
      BY <1>1, <1>3, <1>5, <2>2, <3>2
  <2>3. CASE k # l
    <3>1. \A i \in DOMAIN noteTimers : noteTimers[i].lesson # k
      BY <1>2, <1>3, <2>1, <2>3
    <3>2. QED
      BY <1>1, <1>5, <2>3, <3>1 DEF NotesAreKept
  <2>4. QED
    BY <2>2, <2>3
<1>7. ASSUME NEW k \in Exercises, NEW i \in DOMAIN noteTimers', noteTimers'[i].lesson = k,
             \A j \in DOMAIN noteTimers' : noteTimers'[j].lesson = k => j <= i
      PROVE  noteTimers'[i].text = typed'[k]
  <2>1. i + 1 \in DOMAIN noteTimers /\ noteTimers'[i] = noteTimers[i + 1]
    BY <1>2
  <2>2. \A j \in DOMAIN noteTimers : noteTimers[j].lesson = k => j <= i + 1
    <3>1. SUFFICES ASSUME NEW j \in DOMAIN noteTimers, noteTimers[j].lesson = k, j > 1
                   PROVE  j <= i + 1
      BY <1>2
    <3>2. j - 1 \in DOMAIN noteTimers' /\ noteTimers'[j - 1] = noteTimers[j]
      BY <1>2, <3>1
    <3>3. j - 1 <= i
      BY <1>7, <3>1, <3>2
    <3>4. QED
      BY <1>2, <3>3
  <2>3. QED
    BY <1>1, <1>7, <2>1, <2>2 DEF NotesAreKept
<1>8. NotesAreKept'
  BY <1>6, <1>7 DEF NotesAreKept
<1>9. EditorIsSaved' /\ progress' \in Progress
  BY <1>1, <1>5 DEF EditorIsSaved, Here, WebEarnedBy
<1>10. QED
  BY <1>1, <1>2, <1>5, <1>8, <1>9 DEF WebStudioTypeOK

\* After starting over only what still waits is remembered.
LEMMA StartOverKeeps == ASSUME LessonsInv, StartOver PROVE LessonsInv'
<1> USE DEF LessonsInv
<1>1. /\ progress' = FreshProgress /\ rated' = 0 /\ acts' \in Nat /\ Here = Nowhere
      /\ UNCHANGED <<page, checks, noteTimers, overtaken>>
      /\ noteTimers \in Seq([lesson: Exercises, text: Drafts]) /\ typed \in [Exercises -> Note]
  BY DEF StartOver, Act, WebStudioTypeOK
<1>2. DOMAIN noteTimers = 1 .. Len(noteTimers)
  BY <1>1, LenProperties
<1>3. \A l \in Exercises :
         typed'[l] = IF \E i \in DOMAIN noteTimers : noteTimers[i].lesson = l
                     THEN typed[l] ELSE Nothing
  BY <1>2 DEF StartOver
<1>4. typed' \in [Exercises -> Note]
  BY <1>1 DEF StartOver, Note
<1>5. NotesAreKept'
  <2>1. ASSUME NEW l \in Exercises, ~ \E i \in DOMAIN noteTimers : noteTimers[i].lesson = l
        PROVE  typed'[l] = Nothing
    BY <1>3, <2>1
  <2>2. ASSUME NEW l \in Exercises, NEW i \in DOMAIN noteTimers, noteTimers[i].lesson = l,
               \A j \in DOMAIN noteTimers : noteTimers[j].lesson = l => j <= i
        PROVE  noteTimers[i].text = typed'[l]
    <3>1. typed'[l] = typed[l]
      BY <1>3, <2>2
    <3>2. QED
      BY <2>2, <3>1 DEF NotesAreKept
  <2>3. QED
    BY <1>1, <2>1, <2>2 DEF NotesAreKept
<1>6. EditorIsSaved'
  BY <1>1 DEF EditorIsSaved, Here
<1>7. WebEarnedBy(progress', rated') /\ progress' \in Progress
  BY <1>1, FreshProgressIsEarned DEF WebEarnedBy
<1>8. QED
  BY <1>1, <1>4, <1>5, <1>6, <1>7 DEF WebStudioTypeOK

\* The strengthened invariant of the learning pages holds in every reachable state.
THEOREM LessonsInvariant == PagesSpec => []LessonsInv
<1>1. PagesInit => LessonsInv
  BY PagesStartTrue
<1>2. LessonsInv /\ [PagesNext]_pageVars => LessonsInv'
  <2> SUFFICES ASSUME LessonsInv, [PagesNext]_pageVars PROVE LessonsInv'
    OBVIOUS
  <2>1. CASE UNCHANGED pageVars
    BY <2>1 DEF LessonsInv, WebStudioTypeOK, NotesAreKept, EditorIsSaved, Here, pageVars
  <2>2. CASE PagesNext
    BY <2>2, VisitKeeps, EditorKeeps, RecordKeeps, TypeNoteKeeps, SaveNoteKeeps, StartOverKeeps
       DEF PagesNext
  <2>3. QED
    BY <2>1, <2>2
<1>3. QED
  BY <1>1, <1>2, PTL DEF PagesSpec

\* The learning pages of the web edition keep their word (Challenge.tsx,
\* LessonView.tsx, Review.tsx): work counts once, and a note or a draft that was
\* typed is saved or about to be, for any lessons and texts, with checks, timers
\* and other devices that come late and whatever is started over meanwhile.
THEOREM LessonsStayTrue == PagesSpec => []LessonsAreTrue
<1>1. LessonsInv => LessonsAreTrue
  BY DEF LessonsInv, LessonsAreTrue, WebEarnedBy, WebRecordIsEarned, NotesAreKept,
         EditorIsSaved, TypedWorkIsKept
<1>2. QED
  BY <1>1, LessonsInvariant, PTL

-----------------------------------------------------------------------------
\* Of the open dialogs the first was opened from the page and the other from the
\* first; a control outside the page is never drawn again.
Stacked(ds) ==
    /\ ds \in Seq(Dialog) /\ Len(ds) <= 2
    /\ Len(ds) >= 1 => /\ ds[1].back \in OnPage \cup {"nowhere"}
                       /\ ds[1].back = "nowhere" => ~ds[1].there
    /\ Len(ds) = 2 => /\ ds[2].back \in {ds[1].is, "nowhere"}
                      /\ ds[2].is # ds[1].is
                      /\ ds[2].there <=> ds[2].back # "nowhere"

\* The control the first dialog came from can have the focus again, or its loss
\* is excused; the search looks after the menu itself.
WayBackIsOpen(ds, isWide, loss) ==
    Len(ds) >= 1 /\ ds[1].there /\ ~loss =>
        /\ ds[1].back = "toggle" => ~isWide
        /\ ds[1].back = "nav" => isWide \/ ds[1].is = "search"

\* Where the focus is nowhere, why that is so; under a dialog only the learner
\* puts it there.
LossIsAccountedFor ==
    /\ focus = "nowhere" =>
         \/ beside
         \/ dialogs = << >> /\ (moved \/ excused \/ (celebrating # {} /\ drawn \in Course))
    /\ hash # drawn => moved

\* The bar was drawn for the page of the address, with some last lesson.
BarIsDrawn ==
    foreign \/
        /\ topbar.xp = Xp(completed, solved)
        /\ \E last, at \in Addresses : /\ topbar.resume = ResumeControl(completed, last, at)
                                       /\ moved \/ at = drawn

ShellTypes ==
    /\ completed \subseteq Course /\ lastLesson \in Addresses /\ hash \in Addresses /\ drawn \in Addresses
    /\ focus \in Focus /\ menu \in BOOLEAN /\ wide \in BOOLEAN /\ moved \in BOOLEAN
    /\ beside \in BOOLEAN /\ excused \in BOOLEAN /\ foreign \in BOOLEAN
    /\ topbar = [xp |-> topbar.xp, resume |-> topbar.resume]

ShellInv ==
    /\ ShellTypes /\ Stacked(dialogs) /\ WayBackIsOpen(dialogs, wide, excused)
    /\ LossIsAccountedFor /\ FocusIsReachable /\ BarIsDrawn

-----------------------------------------------------------------------------
\* A stack of dialogs has at most two, each of them a search or a certificate.
LEMMA StackFacts ==
    ASSUME NEW ds, Stacked(ds)
    PROVE  /\ Len(ds) \in {0, 1, 2} /\ DOMAIN ds = 1..Len(ds)
           /\ ds = << >> <=> Len(ds) = 0
           /\ \A i \in 1..Len(ds) : ds[i] \in Dialog
           /\ ds # << >> => ds[Len(ds)].is \in {"search", "certificate"}
<1>1. ds \in Seq(Dialog) /\ Len(ds) <= 2
  BY DEF Stacked
<1>2. Len(ds) \in Nat /\ DOMAIN ds = 1..Len(ds)
  BY <1>1, LenProperties
<1>3. Len(ds) \in {0, 1, 2}
  BY <1>1, <1>2
<1>4. ds = << >> <=> Len(ds) = 0
  BY <1>1, EmptySeq
<1>5. \A i \in 1..Len(ds) : ds[i] \in Dialog
  BY <1>1, ElementOfSeq
<1>6. ds # << >> => ds[Len(ds)] \in Dialog
  BY <1>2, <1>3, <1>4, <1>5
<1> QED
  BY <1>2, <1>3, <1>4, <1>5, <1>6 DEF Dialog

\* What a page that is drawn leaves of the dialogs: none came from a control of it.
StackAfterDraw(ds) ==
    [i \in DOMAIN ds |-> [ds[i] EXCEPT !.there = @ /\ ds[i].back \notin OnPage]]

\* Drawing changes of a dialog only whether its control is there.
LEMMA RedrawnDialog ==
    ASSUME NEW d \in Dialog
    PROVE  LET e == [d EXCEPT !.there = @ /\ d.back \notin OnPage]
           IN  /\ e \in Dialog /\ e.is = d.is /\ e.back = d.back
               /\ e.there <=> d.there /\ d.back \notin OnPage
BY DEF Dialog

\* Drawing the page keeps the stack and what is on top; the control the first
\* dialog came from is gone.
LEMMA StackRedrawn ==
    ASSUME NEW ds, Stacked(ds), NEW isWide, NEW loss
    PROVE  /\ Stacked(StackAfterDraw(ds)) /\ WayBackIsOpen(StackAfterDraw(ds), isWide, loss)
           /\ StackAfterDraw(ds) = << >> <=> ds = << >>
           /\ ds # << >> => StackAfterDraw(ds)[Len(StackAfterDraw(ds))].is = ds[Len(ds)].is
<1> DEFINE es == StackAfterDraw(ds)
<1>1. Len(ds) \in {0, 1, 2} /\ DOMAIN ds = 1..Len(ds) /\ (ds = << >> <=> Len(ds) = 0)
      /\ \A i \in 1..Len(ds) : ds[i] \in Dialog
  BY StackFacts
<1>2. \A i \in 1..Len(ds) : /\ es[i] \in Dialog /\ es[i].is = ds[i].is /\ es[i].back = ds[i].back
                            /\ es[i].there <=> ds[i].there /\ ds[i].back \notin OnPage
  <2> TAKE i \in 1..Len(ds)
  <2>1. es[i] = [ds[i] EXCEPT !.there = @ /\ ds[i].back \notin OnPage]
    BY <1>1 DEF StackAfterDraw
  <2>2. ds[i] \in Dialog
    BY <1>1
  <2> HIDE DEF es
  <2> QED
    BY <2>1, <2>2, RedrawnDialog
<1>3. es = [i \in 1..Len(ds) |-> es[i]]
  BY <1>1 DEF StackAfterDraw
<1>4. Len(ds) \in Nat
  BY <1>1
<1>5. es \in Seq(Dialog) /\ Len(es) = Len(ds)
  <2> HIDE DEF es
  <2>1. es \in [1..Len(ds) -> Dialog]
    BY <1>2, <1>3
  <2>2. es \in Seq(Dialog)
    BY <2>1, <1>4, SeqDef
  <2> QED
    BY <2>1, <2>2, <1>4, LenProperties
<1>6. es = << >> <=> ds = << >>
  BY <1>1, <1>5, EmptySeq
<1> HIDE DEF es
<1>7. Len(ds) >= 1 => ~es[1].there
  BY <1>1, <1>2 DEF Stacked
<1>8. Stacked(es)
  <2>1. CASE Len(ds) = 0
    BY <2>1, <1>5 DEF Stacked
  <2>2. CASE Len(ds) = 1
    BY <2>2, <1>2, <1>5, <1>7 DEF Stacked
  <2>3. CASE Len(ds) = 2
    <3>1. 1 \in 1..Len(ds) /\ 2 \in 1..Len(ds)
      BY <2>3
    <3>2. ds[1].is \notin OnPage
      BY <3>1, <1>1 DEF Dialog, OnPage
    <3> QED
      BY <2>3, <3>1, <3>2, <1>2, <1>5, <1>7 DEF Stacked, OnPage
  <2> QED
    BY <1>1, <2>1, <2>2, <2>3
<1>9. WayBackIsOpen(es, isWide, loss)
  BY <1>5, <1>7 DEF WayBackIsOpen
<1>10. ds # << >> => es[Len(es)].is = ds[Len(ds)].is
  BY <1>1, <1>2, <1>5
<1> QED
  BY <1>6, <1>8, <1>9, <1>10 DEF es

\* A dialog that opens goes on top of at most one other.
LEMMA StackPushed ==
    ASSUME NEW ds, Stacked(ds), NEW e \in Dialog,
           \A i \in DOMAIN ds : ds[i].is # e.is,
           ds = << >> => e.back \in OnPage \cup {"nowhere"},
           ds # << >> => e.back \in {ds[Len(ds)].is, "nowhere"},
           e.there <=> e.back # "nowhere"
    PROVE  /\ Stacked(Append(ds, e)) /\ Append(ds, e) # << >>
           /\ Append(ds, e)[Len(Append(ds, e))] = e
           /\ ds = << >> => Append(ds, e)[1] = e
           /\ ds # << >> => Append(ds, e)[1] = ds[1] /\ Len(ds) = 1
<1> DEFINE es == Append(ds, e)
<1>1. Len(ds) \in {0, 1, 2} /\ DOMAIN ds = 1..Len(ds) /\ (ds = << >> <=> Len(ds) = 0)
      /\ \A i \in 1..Len(ds) : ds[i] \in Dialog
  BY StackFacts
<1>2. Len(ds) # 2
  <2> SUFFICES ASSUME Len(ds) = 2 PROVE FALSE
    OBVIOUS
  <2>1. 1 \in 1..Len(ds) /\ 2 \in 1..Len(ds)
    OBVIOUS
  <2>2. ds[2].is # ds[1].is
    BY DEF Stacked
  <2>3. ds[1].is \in {"search", "certificate"} /\ ds[2].is \in {"search", "certificate"} /\ e.is \in {"search", "certificate"}
    BY <2>1, <1>1 DEF Dialog
  <2>4. ds[1].is # e.is /\ ds[2].is # e.is
    BY <2>1, <1>1
  <2> QED
    BY <2>2, <2>3, <2>4
<1>3. ds \in Seq(Dialog)
  BY DEF Stacked
<1>4. es \in Seq(Dialog) /\ Len(es) = Len(ds) + 1 /\ es[Len(ds) + 1] = e
      /\ \A i \in 1..Len(ds) : es[i] = ds[i]
  BY <1>3, AppendProperties
<1> HIDE DEF es
<1>5. CASE ds = << >>
  <2>1. Len(ds) = 0 /\ Len(es) = 1 /\ es[1] = e /\ es # << >>
    BY <1>5, <1>1, <1>4, EmptySeq
  <2> QED
    BY <2>1, <1>4, <1>5 DEF Stacked, es
<1>6. CASE ds # << >>
  <2>1. Len(ds) = 1 /\ Len(es) = 2 /\ es[2] = e /\ es[1] = ds[1] /\ es # << >>
    BY <1>6, <1>1, <1>2, <1>4, EmptySeq
  <2>2. ds[1].is # e.is /\ e.back \in {ds[1].is, "nowhere"}
    BY <1>6, <2>1, <1>1
  <2>3. ds[1].back \in OnPage \cup {"nowhere"} /\ (ds[1].back = "nowhere" => ~ds[1].there)
    BY <2>1 DEF Stacked
  <2> QED
    BY <2>1, <2>2, <2>3, <1>4, <1>6 DEF Stacked, es
<1> QED
  BY <1>5, <1>6

\* Where the top dialog closes the other is left as it was.
LEMMA StackPopped ==
    ASSUME NEW ds, Stacked(ds), ds # << >>
    PROVE  LET below == SubSeq(ds, 1, Len(ds) - 1)
           IN  /\ Stacked(below)
               /\ below # << >> => /\ Len(ds) = 2 /\ Len(below) = 1 /\ below[1] = ds[1]
               /\ below = << >> => Len(ds) = 1
<1> DEFINE below == SubSeq(ds, 1, Len(ds) - 1)
<1>1. Len(ds) \in {1, 2} /\ ds \in Seq(Dialog)
  BY StackFacts DEF Stacked
<1>2. below \in Seq(Dialog) /\ Len(below) = Len(ds) - 1 /\ \A i \in 1..Len(below) : below[i] = ds[i]
  <2> DEFINE n == Len(ds) - 1
  <2>1. n \in {0, 1} /\ Len(ds) = n + 1
    BY <1>1
  <2>2. \A i \in 1 .. n : ds[i] \in Dialog
    BY <1>1, ElementOfSeq
  <2>3. below = SubSeq(ds, 1, n)
    OBVIOUS
  <2> HIDE DEF n, below
  <2>4. /\ SubSeq(ds, 1, n) \in Seq(Dialog)
        /\ Len(SubSeq(ds, 1, n)) = IF 1 <= n THEN n - 1 + 1 ELSE 0
        /\ \A i \in 1 .. n - 1 + 1 : SubSeq(ds, 1, n)[i] = ds[1 + i - 1]
    BY <2>1, <2>2, SubSeqProperties
  <2> QED
    BY <2>1, <2>3, <2>4
<1>3. below = << >> <=> Len(below) = 0
  BY <1>2, EmptySeq
<1> HIDE DEF below
<1>4. CASE Len(ds) = 1
  BY <1>2, <1>3, <1>4 DEF Stacked, below
<1>5. CASE Len(ds) = 2
  <2>1. Len(below) = 1 /\ below[1] = ds[1] /\ below # << >>
    BY <1>2, <1>3, <1>5
  <2> QED
    BY <2>1, <1>2, <1>5 DEF Stacked, below
<1> QED
  BY <1>1, <1>4, <1>5

\* A control of the page can have the focus under no dialog, one of a dialog only
\* on top; what has the focus is known by that.
LEMMA FocusFacts ==
    ASSUME ShellInv
    PROVE  /\ dialogs # << >> => Top \in {"search", "certificate"}
           /\ \A p \in OnPage : Reachable(p) =>
                 dialogs = << >> /\ (p = "nav" => wide \/ menu) /\ (p = "toggle" => ~wide)
           /\ dialogs = << >> => /\ focus \in OnPage \cup {"nowhere"}
                                 /\ focus = "nav" => wide \/ menu
                                 /\ focus = "toggle" => ~wide
           /\ dialogs # << >> => focus \in {Top, "nowhere"} /\ ~menu
<1>1. dialogs # << >> => Top \in {"search", "certificate"}
  BY StackFacts DEF ShellInv, Top
<1>2. \A p \in OnPage : Reachable(p) =>
         dialogs = << >> /\ (p = "nav" => wide \/ menu) /\ (p = "toggle" => ~wide)
  BY <1>1 DEF Reachable, Fits, Top, OnPage
<1> QED
  BY <1>1, <1>2 DEF ShellInv, ShellTypes, FocusIsReachable, Reachable, Fits, Top

\* While no dialog opens, closes or is drawn again, and the bar stays what it is,
\* only the focus, the menu and the excuses for its loss are to be looked at.
LEMMA OnThePage ==
    ASSUME ShellInv, ShellTypes', dialogs' = dialogs, wide' = wide,
           dialogs # << >> /\ excused => excused',
           UNCHANGED <<completed, solved, topbar, foreign, drawn>>, moved => moved',
           LossIsAccountedFor', FocusIsReachable'
    PROVE  ShellInv'
<1>1. Stacked(dialogs)'
  BY DEF ShellInv
<1>2. Len(dialogs) >= 1 => dialogs # << >>
  BY StackFacts DEF ShellInv
<1>3. WayBackIsOpen(dialogs, wide, excused)'
  BY <1>2 DEF ShellInv, ShellTypes, WayBackIsOpen
<1>4. BarIsDrawn'
  BY DEF ShellInv, ShellTypes, BarIsDrawn
<1> QED
  BY <1>1, <1>3, <1>4 DEF ShellInv

\* Following links, moving the focus and the menu: MoveFocus, ClickBeside,
\* TakeLink, Travel, OpenMenu, CloseMenu.
LEMMA MoveFocusKeeps == ASSUME ShellInv, NEW p \in Focus, MoveFocus(p) PROVE ShellInv'
<1> USE DEF MoveFocus, Settled, learner, address
<1>1. /\ p # "nowhere" /\ (dialogs # << >> => p = Top)
      /\ p = "nav" => wide \/ menu
      /\ p = "toggle" => ~wide
  BY FocusFacts DEF Reachable, Fits, Top, OnPage
<1>2. ShellTypes'
  BY DEF ShellInv, ShellTypes
<1>3. LossIsAccountedFor'
  BY <1>1 DEF ShellInv, LossIsAccountedFor
<1>4. menu => ~wide /\ dialogs = << >>
  BY DEF ShellInv, FocusIsReachable
<1>5. menu' => p \in {"nav", "toggle"}
  BY DEF ShellInv, ShellTypes
<1>6. Reachable(focus)'
  BY <1>1, FocusFacts DEF Reachable, Fits, ShellInv, ShellTypes
<1>7. FocusIsReachable'
  BY <1>1, <1>4, <1>5, <1>6 DEF FocusIsReachable, ShellInv, ShellTypes
<1> QED
  BY <1>2, <1>3, <1>7, OnThePage DEF ShellInv, ShellTypes

\* A click beside everything gives up the focus for a reason.
LEMMA ClickBesideKeeps == ASSUME ShellInv, ClickBeside PROVE ShellInv'
<1> USE DEF ClickBeside, learner, address
<1>1. ShellTypes'
  BY DEF ShellInv, ShellTypes, Focus
<1>2. LossIsAccountedFor'
  BY DEF ShellInv, LossIsAccountedFor
<1>3. menu' = FALSE \/ menu' = menu
  BY DEF ShellInv, ShellTypes
<1>4. FocusIsReachable'
  BY <1>3 DEF FocusIsReachable, ShellInv
<1> QED
  BY <1>1, <1>2, <1>4, OnThePage DEF ShellInv, ShellTypes

\* A link leads to a page that is drawn for its address.
LEMMA TakeLinkKeeps ==
    ASSUME ShellInv, NEW p \in Focus, NEW r \in Addresses, TakeLink(p, r) PROVE ShellInv'
<1> USE DEF TakeLink, Settled, GoTo, learner
<1>1. dialogs = << >> /\ p \in {"nav", "main", "bar"}
  BY FocusFacts DEF OnPage
<1>2. menu => ~wide
  BY DEF ShellInv, FocusIsReachable
<1>3. CASE p = "nav" /\ ~wide
  <2>1. menu' = FALSE /\ focus' \in {"heading", "toggle"}
    BY <1>3
  <2>2. ShellTypes'
    BY <2>1 DEF ShellInv, ShellTypes, Focus, OnPage
  <2>3. LossIsAccountedFor'
    BY <2>1 DEF ShellInv, LossIsAccountedFor, ShellTypes
  <2>4. FocusIsReachable'
    BY <2>1, <1>1, <1>3 DEF FocusIsReachable, Reachable, Fits, OnPage, ShellInv, ShellTypes
  <2> QED
    BY <1>1, <2>2, <2>3, <2>4, OnThePage DEF ShellInv, ShellTypes
<1>4. CASE ~(p = "nav" /\ ~wide)
  <2>1. focus' = p /\ menu' = (menu /\ p \in {"nav", "toggle"})
    BY <1>1, <1>4 DEF FocusOn
  <2>2. ShellTypes'
    BY <2>1 DEF ShellInv, ShellTypes
  <2>3. LossIsAccountedFor'
    BY <1>1, <2>1 DEF ShellInv, LossIsAccountedFor, ShellTypes
  <2>4. ~menu'
    BY <1>1, <1>2, <1>4, <2>1 DEF ShellInv, ShellTypes
  <2>5. FocusIsReachable'
    BY <2>1, <2>4, <1>1, <1>4 DEF FocusIsReachable, Reachable, Fits, OnPage, ShellInv, ShellTypes
  <2> QED
    BY <1>1, <2>2, <2>3, <2>5, OnThePage DEF ShellInv, ShellTypes
<1> QED
  BY <1>3, <1>4

\* So do the browser's back and forward.
LEMMA TravelKeeps == ASSUME ShellInv, NEW r \in Addresses, Travel(r) PROVE ShellInv'
<1> USE DEF Travel, GoTo, learner, shellPast
<1>1. ShellTypes'
  BY DEF ShellInv, ShellTypes
<1>2. LossIsAccountedFor'
  BY DEF ShellInv, LossIsAccountedFor, ShellTypes
<1>3. FocusIsReachable'
  BY DEF FocusIsReachable, Reachable, ShellInv
<1> QED
  BY <1>1, <1>2, <1>3, OnThePage DEF ShellInv, ShellTypes

\* The menu gives the focus back when it closes.
LEMMA MenuKeeps == ASSUME ShellInv, OpenMenu \/ CloseMenu PROVE ShellInv'
<1>1. dialogs = << >> /\ ~wide /\ focus' \in {"nav", "toggle"} /\ menu' \in BOOLEAN /\ (focus' = "nav" => menu')
  <2>1. CASE OpenMenu
    BY <2>1, FocusFacts DEF OpenMenu, OnPage
  <2>2. CASE CloseMenu
    BY <2>2 DEF CloseMenu, ShellInv, FocusIsReachable
  <2> QED
    BY <2>1, <2>2
<1>2. /\ UNCHANGED <<completed, lastLesson, solved, hash, drawn, moved, wide, dialogs, celebrating, topbar, foreign>>
      /\ Settled
  BY DEF OpenMenu, CloseMenu, learner, address
<1>3. ShellTypes'
  BY <1>1, <1>2 DEF ShellInv, ShellTypes, Focus, OnPage, Settled
<1>4. LossIsAccountedFor'
  BY <1>1, <1>2 DEF ShellInv, LossIsAccountedFor
<1>5. FocusIsReachable'
  BY <1>1, <1>2 DEF FocusIsReachable, Reachable, Fits, OnPage
<1> QED
  BY <1>1, <1>2, <1>3, <1>4, <1>5, OnThePage DEF ShellInv, ShellTypes

\* The layout changes: a control that goes away hands the focus on.
LEMMA ResizeKeeps == ASSUME ShellInv, Resize PROVE ShellInv'
<1> USE DEF Resize, learner, address
<1>1. wide' = ~wide /\ menu' = FALSE /\ wide \in BOOLEAN /\ menu \in BOOLEAN
  BY DEF ShellInv, ShellTypes
<1>2. /\ focus = "nav" /\ wide => focus' = "toggle"
      /\ focus = "toggle" /\ ~wide => focus' = "heading"
      /\ ~(focus = "nav" /\ wide) /\ ~(focus = "toggle" /\ ~wide) => focus' = focus
  OBVIOUS
<1>3. ShellTypes'
  BY <1>1, <1>2 DEF ShellInv, ShellTypes, Focus, OnPage
<1>4. focus' = "nowhere" => focus = "nowhere"
  BY <1>2
<1>5. LossIsAccountedFor'
  BY <1>4 DEF ShellInv, LossIsAccountedFor, ShellTypes
<1>6. ASSUME dialogs = << >> PROVE FocusIsReachable'
  <2>1. focus' \in OnPage \cup {"nowhere"} /\ (focus' = "nav" => wide') /\ (focus' = "toggle" => ~wide')
    BY <1>1, <1>2, <1>6, FocusFacts DEF OnPage
  <2> QED
    BY <2>1, <1>1, <1>6 DEF FocusIsReachable, Reachable, Fits
<1>7. ASSUME dialogs # << >> PROVE FocusIsReachable'
  <2>1. focus \in {Top, "nowhere"} /\ focus' = focus
    BY <1>2, <1>7, FocusFacts
  <2> QED
    BY <2>1, <1>1, <1>7 DEF FocusIsReachable, Reachable, Fits, Top
<1>8. Stacked(dialogs)'
  BY DEF ShellInv
<1>9. Len(dialogs) >= 1 => dialogs # << >>
  BY StackFacts DEF ShellInv
<1>10. WayBackIsOpen(dialogs, wide, excused)'
  BY <1>9 DEF WayBackIsOpen
<1>11. BarIsDrawn'
  BY DEF ShellInv, BarIsDrawn
<1> QED
  BY <1>3, <1>5, <1>6, <1>7, <1>8, <1>10, <1>11 DEF ShellInv

\* A dialog that opens has the focus, and remembers where that was.
LEMMA OpensKeeps ==
    ASSUME ShellInv, NEW d \in {"search", "certificate"}, NEW from \in Focus,
           from = focus \/ (from = "main" /\ dialogs = << >>), ~IsOpen(d), Opens(d, from),
           UNCHANGED <<learner, address, wide, topbar, foreign>>
    PROVE  ShellInv'
<1> USE DEF learner, address
<1> DEFINE e == [is |-> d, back |-> from, there |-> from # "nowhere"]
<1>1. e \in Dialog /\ e.is = d /\ e.back = from /\ (e.there <=> from # "nowhere")
  BY DEF Dialog
<1>2. /\ dialogs' = Append(dialogs, e) /\ focus' = d /\ menu' = FALSE /\ beside' = FALSE
      /\ excused' = (excused \/ (d = "certificate" /\ from = "nav" /\ ~wide))
  BY DEF Opens
<1> HIDE DEF e
<1>3. Stacked(dialogs) /\ \A i \in DOMAIN dialogs : dialogs[i].is # e.is
  BY <1>1 DEF ShellInv, IsOpen
<1>4. dialogs = << >> => e.back \in OnPage \cup {"nowhere"}
  BY <1>1, FocusFacts DEF OnPage
<1>5. dialogs # << >> => e.back \in {dialogs[Len(dialogs)].is, "nowhere"}
  BY <1>1, FocusFacts DEF Top
<1>6. /\ Stacked(Append(dialogs, e)) /\ Append(dialogs, e) # << >>
      /\ Append(dialogs, e)[Len(Append(dialogs, e))] = e
      /\ dialogs = << >> => Append(dialogs, e)[1] = e
      /\ dialogs # << >> => Append(dialogs, e)[1] = dialogs[1] /\ Len(dialogs) = 1
  BY <1>1, <1>3, <1>4, <1>5, StackPushed
<1>7. ShellTypes'
  BY <1>2 DEF ShellInv, ShellTypes, Focus
<1>8. WayBackIsOpen(dialogs, wide, excused)'
  <2>1. CASE dialogs = << >>
    <3>1. from = "toggle" => ~wide
      BY <2>1, FocusFacts
    <3>2. dialogs'[1].is = d /\ dialogs'[1].back = from
      BY <1>1, <1>2, <1>6, <2>1
    <3> QED
      BY <1>2, <3>1, <3>2 DEF WayBackIsOpen
  <2>2. CASE dialogs # << >>
    <3>1. dialogs'[1] = dialogs[1] /\ Len(dialogs) >= 1 /\ wide' = wide
      BY <1>2, <1>6, <2>2
    <3>2. excused => excused'
      BY <1>2 DEF ShellInv, ShellTypes
    <3>3. WayBackIsOpen(dialogs, wide, excused)
      BY DEF ShellInv
    <3> QED
      BY <3>1, <3>2, <3>3 DEF WayBackIsOpen
  <2> QED
    BY <2>1, <2>2
<1>9. LossIsAccountedFor'
  BY <1>2 DEF ShellInv, LossIsAccountedFor
<1>10. FocusIsReachable'
  <2>1. dialogs' # << >> /\ dialogs'[Len(dialogs')].is = focus'
    BY <1>1, <1>2, <1>6
  <2> QED
    BY <1>2, <2>1 DEF FocusIsReachable, Reachable, Fits
<1>11. BarIsDrawn'
  BY DEF ShellInv, BarIsDrawn
<1> QED
  BY <1>2, <1>6, <1>7, <1>8, <1>9, <1>10, <1>11 DEF ShellInv

\* A dialog that opens remembers the control it was opened from.
LEMMA OpenSearchKeeps == ASSUME ShellInv, OpenSearch PROVE ShellInv'
BY OpensKeeps DEF OpenSearch, ShellInv, ShellTypes

\* The certificate is a dialog like the others.
LEMMA ViewCertificateKeeps == ASSUME ShellInv, ViewCertificate PROVE ShellInv'
<1>1. dialogs = << >>
  BY FocusFacts DEF ViewCertificate, OnPage
<1>2. ~IsOpen("certificate")
  BY <1>1 DEF IsOpen
<1>3. "main" \in Focus
  BY DEF Focus, OnPage
<1> QED
  BY <1>1, <1>2, <1>3, OpensKeeps DEF ViewCertificate

\* A dialog that closes gives the focus to a control that can have it: under
\* another dialog always, on the page unless the learner is on their way to
\* another one or the loss is excused.
LEMMA ClosesKeeps ==
    ASSUME ShellInv, NEW back \in BOOLEAN, NEW other \in {"bar", "heading"},
           dialogs # << >>, Closes(back, other),
           UNCHANGED <<completed, lastLesson, solved, drawn, wide, celebrating, topbar, foreign>>,
           hash' \in Addresses, moved' \in BOOLEAN, moved => moved', hash' # drawn' => moved',
           back /\ Len(dialogs) = 1 /\ dialogs[1].back # "nowhere" /\ ~moved' /\ ~excused =>
              dialogs[1].there /\ Fits(dialogs[1].back, << >>, wide, menu)
    PROVE  ShellInv'
<1> DEFINE d == dialogs[Len(dialogs)]
           below == SubSeq(dialogs, 1, Len(dialogs) - 1)
           toOther == ~back /\ Fits(other, below, wide, menu)
<1>1. /\ dialogs' = below
      /\ focus' = CASE toOther -> other
                    [] ~toOther /\ d.there /\ Fits(d.back, below, wide, menu) -> d.back
                    [] OTHER -> "nowhere"
      /\ beside' = (focus' = "nowhere" /\ d.back = "nowhere")
      /\ excused' = (excused /\ (below # << >> \/ focus' = "nowhere"))
      /\ menu' = menu
  BY DEF Closes
<1>2. /\ Stacked(below)
      /\ below # << >> => Len(dialogs) = 2 /\ Len(below) = 1 /\ below[1] = dialogs[1]
      /\ below = << >> => Len(dialogs) = 1
  BY StackPopped DEF ShellInv
<1>3. d \in Dialog
  BY StackFacts DEF ShellInv
<1>4. d.back \in Focus /\ d.there \in BOOLEAN
  BY <1>3 DEF Dialog
<1>5. below # << >> => d.back \in {below[1].is, "nowhere"} /\ (d.there <=> d.back # "nowhere")
  BY <1>2 DEF ShellInv, Stacked
<1>6. below = << >> => d = dialogs[1]
  BY <1>2
<1>7. below # << >> => below[Len(below)].is = below[1].is /\ below[1].is \in {"search", "certificate"}
  BY <1>2, StackFacts
<1> HIDE DEF d, below
<1>8. /\ toOther => focus' = other
      /\ ~toOther /\ d.there /\ Fits(d.back, below, wide, menu) => focus' = d.back
      /\ ~toOther /\ ~(d.there /\ Fits(d.back, below, wide, menu)) => focus' = "nowhere"
  BY <1>1
<1>9. focus' = "nowhere" \/ Fits(focus', below, wide, menu)
  BY <1>8
<1>10. Fits(other, << >>, wide, menu) /\ (below # << >> => ~Fits(other, below, wide, menu))
  BY <1>7 DEF Fits, OnPage
<1>11. ~menu
  BY DEF ShellInv, FocusIsReachable
<1>12. ShellTypes'
  <2>1. focus' \in Focus
    BY <1>4, <1>8 DEF Focus, OnPage
  <2>2. beside' \in BOOLEAN /\ excused' \in BOOLEAN /\ menu' \in BOOLEAN
    BY <1>1 DEF ShellInv, ShellTypes
  <2> QED
    BY <2>1, <2>2 DEF ShellInv, ShellTypes
<1>13. WayBackIsOpen(dialogs, wide, excused)'
  <2>1. CASE below = << >>
    BY <2>1, <1>1, EmptySeq DEF WayBackIsOpen
  <2>2. CASE below # << >>
    <3>1. dialogs'[1] = dialogs[1] /\ Len(dialogs) >= 1 /\ wide' = wide
      BY <1>1, <1>2, <2>2
    <3>2. excused => excused'
      BY <1>1, <2>2 DEF ShellInv, ShellTypes
    <3>3. WayBackIsOpen(dialogs, wide, excused)
      BY DEF ShellInv
    <3> QED
      BY <3>1, <3>2, <3>3 DEF WayBackIsOpen
  <2> QED
    BY <2>1, <2>2
<1>14. ASSUME focus' = "nowhere", ~beside' PROVE dialogs' = << >> /\ (moved' \/ excused')
  <2>1. d.back # "nowhere"
    BY <1>14, <1>1
  <2>2. below = << >>
    <3> SUFFICES ASSUME below # << >> PROVE FALSE
      OBVIOUS
    <3>1. d.there /\ Fits(d.back, below, wide, menu) /\ ~toOther
      BY <1>5, <1>7, <1>10, <2>1 DEF Fits
    <3> QED
      BY <3>1, <1>8, <1>14, <2>1
  <2>3. back
    BY <2>2, <1>8, <1>10, <1>14
  <2>4. ~(d.there /\ Fits(d.back, << >>, wide, menu))
    BY <2>1, <2>2, <2>3, <1>8, <1>14
  <2>5. moved' \/ excused
    BY <2>1, <2>2, <2>3, <2>4, <1>2, <1>6
  <2>6. excused => excused'
    BY <1>1, <1>14 DEF ShellInv, ShellTypes
  <2> QED
    BY <1>1, <2>2, <2>5, <2>6
<1>15. LossIsAccountedFor'
  BY <1>14 DEF LossIsAccountedFor
<1>16. FocusIsReachable'
  BY <1>1, <1>9, <1>11 DEF FocusIsReachable, Reachable
<1>17. BarIsDrawn'
  BY DEF ShellInv, ShellTypes, BarIsDrawn
<1> QED
  BY <1>1, <1>2, <1>12, <1>13, <1>15, <1>16, <1>17 DEF ShellInv

\* Closing the search, with or without a result, and the certificate.
LEMMA CloseSearchKeeps == ASSUME ShellInv, CloseSearch PROVE ShellInv'
<1> USE DEF CloseSearch, learner, address
<1> DEFINE d == dialogs[Len(dialogs)]
<1>1. d \in Dialog /\ (Len(dialogs) = 1 => d = dialogs[1])
  BY StackFacts DEF ShellInv
<1>2. CameFrom(d) \in BOOLEAN
  BY <1>1 DEF CameFrom, Dialog
<1>3. ASSUME CameFrom(d), Len(dialogs) = 1, d.back # "nowhere", ~excused
      PROVE  d.there /\ Fits(d.back, << >>, wide, menu)
  <2>1. d = dialogs[1] /\ d.there /\ ~(d.back = "nav" /\ ~wide /\ ~menu)
    BY <1>1, <1>3 DEF CameFrom
  <2>2. d.back \in OnPage
    BY <2>1, <1>3 DEF ShellInv, Stacked
  <2>3. d.back = "toggle" => ~wide
    BY <2>1, <1>3 DEF ShellInv, WayBackIsOpen
  <2> QED
    BY <2>1, <2>2, <2>3 DEF Fits
<1>4. hash' \in Addresses /\ moved' \in BOOLEAN /\ (moved => moved') /\ (hash' # drawn' => moved')
  BY DEF ShellInv, ShellTypes, LossIsAccountedFor
<1> QED
  BY <1>1, <1>2, <1>3, <1>4, ClosesKeeps

\* A result of the search leaves its dialog for another page.
LEMMA ChooseResultKeeps == ASSUME ShellInv, NEW r \in Addresses, ChooseResult(r) PROVE ShellInv'
<1> USE DEF ChooseResult, GoTo, learner
<1>1. hash' \in Addresses /\ moved' \in BOOLEAN /\ (moved => moved') /\ (hash' # drawn' => moved')
  BY DEF ShellInv, ShellTypes, LossIsAccountedFor
<1>2. (r # hash) \in BOOLEAN /\ (r # hash => moved')
  BY DEF ShellInv, ShellTypes
<1> QED
  BY <1>1, <1>2, ClosesKeeps

\* Closing the certificate leads back to where it was opened.
LEMMA CloseCertificateKeeps == ASSUME ShellInv, CloseCertificate PROVE ShellInv'
<1> USE DEF CloseCertificate, learner, address
<1> DEFINE d == dialogs[Len(dialogs)]
<1>1. d \in Dialog /\ (Len(dialogs) = 1 => d = dialogs[1])
  BY StackFacts DEF ShellInv
<1>2. d.there \in BOOLEAN
  BY <1>1 DEF Dialog
<1>3. ASSUME d.there, Len(dialogs) = 1, d.back # "nowhere", ~excused
      PROVE  Fits(d.back, << >>, wide, menu)
  <2>1. d = dialogs[1] /\ d.is = "certificate"
    BY <1>1, <1>3 DEF Top
  <2>2. d.back \in OnPage
    BY <2>1, <1>3 DEF ShellInv, Stacked
  <2>3. (d.back = "toggle" => ~wide) /\ (d.back = "nav" => wide)
    BY <2>1, <1>3 DEF ShellInv, WayBackIsOpen
  <2> QED
    BY <2>2, <2>3 DEF Fits
<1>4. hash' \in Addresses /\ moved' \in BOOLEAN /\ (moved => moved') /\ (hash' # drawn' => moved')
  BY DEF ShellInv, ShellTypes, LossIsAccountedFor
<1> QED
  BY <1>1, <1>2, <1>3, <1>4, ClosesKeeps

\* The page is drawn: for the address as it is, with the bar of the record.
LEMMA DrawKeeps ==
    ASSUME ShellInv, NEW c \in SUBSET Course, NEW s, Draw(c, s), UNCHANGED wide,
           focus' \in Focus, moved' \in BOOLEAN, beside' \in BOOLEAN, excused' \in BOOLEAN,
           dialogs = << >> => focus' \in {"nowhere", "heading"},
           dialogs # << >> => focus' = focus,
           focus' = "nowhere" =>
              beside' \/ (dialogs = << >> /\ (moved' \/ excused' \/ (celebrating' # {} /\ hash \in Course)))
    PROVE  ShellInv'
<1>1. /\ completed' = c /\ solved' = s /\ drawn' = hash /\ hash' = hash
      /\ topbar' = Bar(c, s, lastLesson, hash)
      /\ lastLesson' = IF hash \in Course THEN hash ELSE lastLesson
      /\ dialogs' = StackAfterDraw(dialogs) /\ menu' = FALSE /\ foreign' = FALSE
  BY DEF Draw, StackAfterDraw
<1>2. /\ Stacked(StackAfterDraw(dialogs)) /\ WayBackIsOpen(StackAfterDraw(dialogs), wide, excused')
      /\ StackAfterDraw(dialogs) = << >> <=> dialogs = << >>
      /\ dialogs # << >> => StackAfterDraw(dialogs)[Len(StackAfterDraw(dialogs))].is = Top
  BY StackRedrawn DEF ShellInv, Top
<1>3. /\ topbar' = [xp |-> topbar'.xp, resume |-> topbar'.resume]
      /\ topbar'.xp = Xp(c, s) /\ topbar'.resume = ResumeControl(c, lastLesson, hash)
  BY <1>1 DEF Bar
<1>4. ShellTypes'
  BY <1>1, <1>3 DEF ShellInv, ShellTypes
<1>5. LossIsAccountedFor'
  BY <1>1, <1>2 DEF LossIsAccountedFor
<1>6. FocusIsReachable'
  <2>1. CASE dialogs = << >>
    BY <2>1, <1>1, <1>2 DEF FocusIsReachable, Reachable, Fits, OnPage
  <2>2. CASE dialogs # << >>
    <3>1. focus' \in {Top, "nowhere"}
      BY <2>2, FocusFacts
    <3> QED
      BY <3>1, <2>2, <1>1, <1>2 DEF FocusIsReachable, Reachable, Fits
  <2> QED
    BY <2>1, <2>2
<1>7. BarIsDrawn'
  BY <1>1, <1>3 DEF ShellInv, ShellTypes, BarIsDrawn
<1> QED
  BY <1>1, <1>2, <1>4, <1>5, <1>6, <1>7 DEF ShellInv

\* The page is drawn anew for a new address.
LEMMA HashChangeKeeps == ASSUME ShellInv, HashChange PROVE ShellInv'
<1> USE DEF HashChange, Settled
<1>1. completed \in SUBSET Course /\ focus' \in Focus /\ moved' \in BOOLEAN
  BY DEF ShellInv, ShellTypes, Focus, OnPage
<1>2. beside' \in BOOLEAN /\ excused' \in BOOLEAN
  BY DEF ShellInv, ShellTypes
<1>3. focus' = "nowhere" => beside'
  BY DEF ShellInv, ShellTypes, LossIsAccountedFor
<1>4. (dialogs = << >> => focus' = "heading") /\ (dialogs # << >> => focus' = focus)
  OBVIOUS
<1> QED
  BY <1>1, <1>2, <1>3, <1>4, DrawKeeps

\* A record replaced from elsewhere draws the page anew.
LEMMA ReplaceKeeps == ASSUME ShellInv, Replace PROVE ShellInv'
<1> USE DEF Replace, Settled
<1>1. dialogs = << >>
  BY FocusFacts DEF OnPage
<1>2. {} \in SUBSET Course /\ focus' \in Focus /\ moved' \in BOOLEAN
  BY DEF ShellInv, ShellTypes, Focus, OnPage
<1>3. beside' \in BOOLEAN /\ excused' \in BOOLEAN
  BY DEF ShellInv, ShellTypes
<1> QED
  BY <1>1, <1>2, <1>3, DrawKeeps

\* refreshSavedView(): what another tab did is drawn, or waits as foreign.
LEMMA StoreChangesKeeps == ASSUME ShellInv, NEW l \in Course, StoreChanges(l) PROVE ShellInv'
<1>1. UNCHANGED <<moved, wide, focus, celebrating, beside, excused>>
  BY DEF StoreChanges
<1>2. /\ completed \cup {l} \in SUBSET Course /\ focus' \in Focus /\ moved' \in BOOLEAN
      /\ beside' \in BOOLEAN /\ excused' \in BOOLEAN
  BY <1>1 DEF ShellInv, ShellTypes
<1>3. CASE focus = "nowhere" /\ Draw(completed \cup {l}, solved \cup {l})
  <2>1. \/ beside'
        \/ dialogs = << >> /\ (moved' \/ excused' \/ (celebrating' # {} /\ hash \in Course))
    BY <1>1, <1>3 DEF ShellInv, LossIsAccountedFor
  <2> QED
    BY <1>1, <1>2, <1>3, <2>1, DrawKeeps
<1>4. CASE /\ completed' = completed \cup {l} /\ foreign' = TRUE
           /\ UNCHANGED <<lastLesson, hash, drawn, dialogs, menu, topbar>>
  <2>1. ShellTypes'
    BY <1>1, <1>2, <1>4 DEF ShellInv, ShellTypes
  <2>2. BarIsDrawn'
    BY <1>4 DEF BarIsDrawn
  <2>3. FocusIsReachable'
    BY <1>1, <1>4 DEF ShellInv, FocusIsReachable, Reachable
  <2>4. LossIsAccountedFor'
    BY <1>1, <1>4 DEF ShellInv, LossIsAccountedFor
  <2>5. Stacked(dialogs)' /\ WayBackIsOpen(dialogs, wide, excused)'
    BY <1>1, <1>4 DEF ShellInv
  <2> QED
    BY <2>1, <2>2, <2>3, <2>4, <2>5 DEF ShellInv
<1> QED
  BY <1>3, <1>4 DEF StoreChanges

\* What the course changes: the points, the completed lessons and the overlay.
LEMMA SolveKeeps == ASSUME ShellInv, NEW l \in Course, Solve(l) PROVE ShellInv'
<1> USE DEF Solve, address, shellPast
<1>1. PICK x, r : topbar = [xp |-> x, resume |-> r]
  BY DEF ShellInv, ShellTypes
<1>2. /\ topbar' = [xp |-> Xp(completed, solved'), resume |-> r]
      /\ topbar'.xp = Xp(completed, solved') /\ topbar'.resume = r /\ topbar.resume = r
  BY <1>1
<1>3. topbar' = [xp |-> topbar'.xp, resume |-> topbar'.resume]
  BY <1>2
<1>4. ShellTypes'
  BY <1>3 DEF ShellInv, ShellTypes
<1>5. BarIsDrawn'
  BY <1>2 DEF ShellInv, BarIsDrawn
<1>6. FocusIsReachable'
  BY DEF ShellInv, FocusIsReachable, Reachable
<1>7. LossIsAccountedFor'
  BY DEF ShellInv, LossIsAccountedFor
<1>8. Stacked(dialogs)' /\ WayBackIsOpen(dialogs, wide, excused)'
  BY DEF ShellInv
<1> QED
  BY <1>4, <1>5, <1>6, <1>7, <1>8 DEF ShellInv

\* Finishing a lesson opens the celebration over the page.
LEMMA FinishLessonKeeps == ASSUME ShellInv, NEW l \in Course, FinishLesson(l) PROVE ShellInv'
<1> USE DEF FinishLesson, address, Settled
<1>1. dialogs = << >>
  BY FocusFacts DEF OnPage
<1>2. /\ topbar' = Bar(completed', solved, l, hash)
      /\ topbar' = [xp |-> topbar'.xp, resume |-> topbar'.resume]
      /\ topbar'.xp = Xp(completed', solved) /\ topbar'.resume = ResumeControl(completed', l, hash)
  BY DEF Bar
<1>3. l \in Addresses /\ completed' \subseteq Course
  BY DEF Addresses, ShellInv, ShellTypes
<1>4. ShellTypes'
  BY <1>2, <1>3 DEF ShellInv, ShellTypes, Focus
<1>5. BarIsDrawn'
  BY <1>2, <1>3 DEF ShellInv, ShellTypes, LossIsAccountedFor, BarIsDrawn
<1>6. LossIsAccountedFor'
  BY <1>1 DEF ShellInv, LossIsAccountedFor
<1>7. FocusIsReachable'
  BY DEF FocusIsReachable
<1>8. Stacked(dialogs)'
  BY DEF ShellInv
<1>9. WayBackIsOpen(dialogs, wide, excused)'
  BY <1>1, EmptySeq DEF WayBackIsOpen
<1> QED
  BY <1>4, <1>5, <1>6, <1>7, <1>8, <1>9 DEF ShellInv

\* A celebration ends by itself or by a click.
LEMMA EndCelebrationKeeps ==
    ASSUME ShellInv, NEW c \in celebrating, EndCelebration(c) PROVE ShellInv'
<1>1. UNCHANGED <<completed, lastLesson, solved, hash, drawn, moved, wide, topbar, turns, foreign>>
  BY DEF EndCelebration, learner, address
<1>2. CASE c.track /\ ~IsOpen("certificate")
  <2>1. Opens("certificate", focus) /\ focus \in Focus
    BY <1>2 DEF EndCelebration, ShellInv, ShellTypes
  <2> QED
    BY <1>1, <1>2, <2>1, OpensKeeps DEF learner, address
<1>3. CASE c.track /\ IsOpen("certificate")
  <2>1. UNCHANGED <<focus, menu, dialogs, beside, excused>>
    BY <1>3 DEF EndCelebration
  <2>2. dialogs # << >>
    BY <1>3 DEF IsOpen
  <2>3. ShellTypes'
    BY <1>1, <2>1 DEF ShellInv, ShellTypes
  <2>4. LossIsAccountedFor'
    BY <1>1, <2>1, <2>2 DEF ShellInv, LossIsAccountedFor
  <2>5. FocusIsReachable'
    BY <1>1, <2>1 DEF ShellInv, FocusIsReachable, Reachable
  <2> QED
    BY <1>1, <2>1, <2>3, <2>4, <2>5, OnThePage DEF ShellInv, ShellTypes
<1>4. CASE ~c.track
  <2>1. /\ IF drawn \in Course THEN FocusOn("main") ELSE UNCHANGED <<focus, menu>>
        /\ dialogs' = dialogs /\ Settled
    BY <1>4 DEF EndCelebration
  <2>2. menu' \in BOOLEAN /\ (menu' => menu)
    BY <2>1 DEF FocusOn, ShellInv, ShellTypes
  <2>3. focus' = focus \/ (focus' = "main" /\ dialogs = << >> /\ drawn \in Course)
    BY <2>1 DEF FocusOn
  <2>4. dialogs = << >> /\ focus' = "nowhere" => drawn \notin Course
    BY <2>1 DEF FocusOn
  <2>5. beside' = (beside /\ focus' = "nowhere")
        /\ excused' = (excused /\ (dialogs # << >> \/ focus' = "nowhere"))
    BY <2>1 DEF Settled
  <2>6. ShellTypes'
    BY <1>1, <2>2, <2>3, <2>5 DEF ShellInv, ShellTypes, Focus, OnPage
  <2>7. LossIsAccountedFor'
    BY <1>1, <2>1, <2>3, <2>4, <2>5 DEF ShellInv, ShellTypes, LossIsAccountedFor
  <2>8. CASE focus' = "main" /\ dialogs = << >> /\ drawn \in Course
    <3>1. ~menu'
      BY <2>1, <2>8 DEF FocusOn, ShellInv, ShellTypes
    <3>2. FocusIsReachable'
      BY <2>1, <2>8, <3>1 DEF FocusIsReachable, Reachable, Fits, OnPage
    <3> QED
      BY <1>1, <2>1, <2>5, <2>6, <2>7, <3>2, OnThePage DEF ShellInv, ShellTypes
  <2>9. CASE focus' = focus /\ ~(dialogs = << >> /\ drawn \in Course)
    <3>1. menu' = menu
      <4>1. CASE drawn \in Course
        <5>1. ~menu
          BY <4>1, <2>9 DEF ShellInv, FocusIsReachable
        <5>2. menu = FALSE /\ menu' = FALSE
          BY <5>1, <2>2 DEF ShellInv, ShellTypes
        <5> QED
          BY <5>2
      <4>2. CASE drawn \notin Course
        BY <4>2, <2>1
      <4> QED
        BY <4>1, <4>2
    <3>2. FocusIsReachable'
      BY <1>1, <2>1, <2>9, <3>1 DEF ShellInv, FocusIsReachable, Reachable
    <3> QED
      BY <1>1, <2>1, <2>5, <2>6, <2>7, <3>2, OnThePage DEF ShellInv, ShellTypes
  <2> QED
    BY <2>1, <2>3, <2>8, <2>9 DEF FocusOn
<1> QED
  BY <1>2, <1>3, <1>4

\* The first page is drawn for its address, with no dialog.
LEMMA ShellStartsTrue == ASSUME ShellInit PROVE ShellInv
<1> USE DEF ShellInit
<1>1. topbar = [xp |-> topbar.xp, resume |-> topbar.resume]
      /\ topbar.xp = Xp({}, {}) /\ topbar.resume = ResumeControl({}, "home", "home")
  BY DEF Bar
<1>2. ShellTypes
  BY <1>1 DEF ShellTypes, Addresses, Focus
<1>3. dialogs \in Seq(Dialog) /\ Len(dialogs) = 0
  BY EmptySeq
<1>4. Stacked(dialogs) /\ WayBackIsOpen(dialogs, wide, excused)
  BY <1>3 DEF Stacked, WayBackIsOpen
<1>5. LossIsAccountedFor /\ FocusIsReachable
  BY DEF LossIsAccountedFor, FocusIsReachable
<1>6. BarIsDrawn
  BY <1>1 DEF BarIsDrawn, Addresses
<1> QED
  BY <1>2, <1>4, <1>5, <1>6 DEF ShellInv

\* The strengthened invariant of the frame holds in every state.
THEOREM ShellInvariant == ShellSpec => []ShellInv
<1>1. ShellInit => ShellInv
  BY ShellStartsTrue
<1>2. ASSUME ShellInv, [ShellNext]_shellVars PROVE ShellInv'
  <2>1. CASE HashChange
    BY <1>2, <2>1, HashChangeKeeps
  <2>2. CASE ClickBeside
    BY <1>2, <2>2, ClickBesideKeeps
  <2>3. CASE OpenMenu \/ CloseMenu
    BY <1>2, <2>3, MenuKeeps
  <2>4. CASE Resize
    BY <1>2, <2>4, ResizeKeeps
  <2>5. CASE OpenSearch
    BY <1>2, <2>5, OpenSearchKeeps
  <2>6. CASE CloseSearch
    BY <1>2, <2>6, CloseSearchKeeps
  <2>7. CASE ViewCertificate
    BY <1>2, <2>7, ViewCertificateKeeps
  <2>8. CASE CloseCertificate
    BY <1>2, <2>8, CloseCertificateKeeps
  <2>9. CASE Replace
    BY <1>2, <2>9, ReplaceKeeps
  <2>10. ASSUME NEW p \in Focus, MoveFocus(p) PROVE ShellInv'
    BY <1>2, <2>10, MoveFocusKeeps
  <2>11. ASSUME NEW p \in Focus, NEW r \in Addresses, TakeLink(p, r) PROVE ShellInv'
    BY <1>2, <2>11, TakeLinkKeeps
  <2>12. ASSUME NEW r \in Addresses, Travel(r) PROVE ShellInv'
    BY <1>2, <2>12, TravelKeeps
  <2>13. ASSUME NEW r \in Addresses, ChooseResult(r) PROVE ShellInv'
    BY <1>2, <2>13, ChooseResultKeeps
  <2>14. ASSUME NEW l \in Course, Solve(l) PROVE ShellInv'
    BY <1>2, <2>14, SolveKeeps
  <2>15. ASSUME NEW l \in Course, FinishLesson(l) PROVE ShellInv'
    BY <1>2, <2>15, FinishLessonKeeps
  <2>16. ASSUME NEW l \in Course, StoreChanges(l) PROVE ShellInv'
    BY <1>2, <2>16, StoreChangesKeeps
  <2>17. ASSUME NEW c \in celebrating, EndCelebration(c) PROVE ShellInv'
    BY <1>2, <2>17, EndCelebrationKeeps
  <2>18. CASE UNCHANGED shellVars
    <3>1. UNCHANGED <<completed, lastLesson, solved, hash, drawn, moved, wide, menu, focus, dialogs,
                      celebrating, topbar, beside, excused, foreign>>
      BY <2>18 DEF shellVars, learner, address, shellPast
    <3>2. ShellTypes' /\ LossIsAccountedFor' /\ FocusIsReachable'
      BY <1>2, <3>1 DEF ShellInv, ShellTypes, LossIsAccountedFor, FocusIsReachable, Reachable
    <3> QED
      BY <1>2, <3>1, <3>2, OnThePage DEF ShellInv, ShellTypes
  <2> QED
    BY <1>2, <2>1, <2>2, <2>3, <2>4, <2>5, <2>6, <2>7, <2>8, <2>9, <2>10, <2>11, <2>12, <2>13,
       <2>14, <2>15, <2>16, <2>17, <2>18 DEF ShellNext
<1> QED
  BY <1>1, <1>2, PTL DEF ShellSpec

\* resumeControlMarkup() never leads to the page it is drawn for, nor to a lesson
\* that is done while one is not, and leads nowhere only from one that is to be done.
LEMMA ResumeLeadsOn ==
    ASSUME NEW c \in SUBSET Course, NEW last \in Addresses, NEW at \in Addresses
    PROVE  LET leads == ResumeControl(c, last, at)
           IN  /\ leads # "none" => leads # at
               /\ leads \in c => Course \subseteq c
               /\ leads = "none" /\ ~(Course \subseteq c) => at \in Course \ c
<1> DEFINE r == ResumeLesson(c, last)
<1>1. "home" \notin Course /\ "none" \notin Course
  BY ShellAssumption
<1>2. ~(Course \subseteq c) => r \in Course \ c
  BY <1>1 DEF ResumeLesson, Addresses
<1>3. r \in c => Course \subseteq c
  BY <1>2
<1>4. ResumeControl(c, last, at) = IF r = at \/ (at # "home" /\ at \notin c) THEN "none" ELSE r
  BY DEF ResumeControl
<1> HIDE DEF r
<1> QED
  BY <1>1, <1>2, <1>3, <1>4 DEF Addresses

\* On every course, whatever the learner does and in whatever order: drawing the
\* page, closing a dialog or the menu never takes the keyboard's focus away without
\* giving it to a control in sight, and the bar leads on (shell(),
\* setNavigationOpen(), the dialogs' close events, celebrate()).
THEOREM FrameStaysUsable == ShellSpec => []ShellIsUsable
<1>1. ShellInv => FocusIsKept
  BY DEF ShellInv, LossIsAccountedFor, FocusIsKept
<1>2. ASSUME ShellInv PROVE BarLeadsOn
  <2>1. CASE foreign
    BY <2>1 DEF BarLeadsOn
  <2>2. CASE ~foreign
    <3>1. PICK last \in Addresses, at \in Addresses :
             topbar.resume = ResumeControl(completed, last, at) /\ (moved \/ at = drawn)
      BY <1>2, <2>2 DEF ShellInv, BarIsDrawn
    <3>2. topbar.xp = Xp(completed, solved) /\ completed \in SUBSET Course
      BY <1>2, <2>2 DEF ShellInv, ShellTypes, BarIsDrawn
    <3>3. /\ topbar.resume # "none" => topbar.resume # at
          /\ topbar.resume \in completed => Course \subseteq completed
          /\ topbar.resume = "none" /\ ~(Course \subseteq completed) => at \in Course \ completed
      BY <3>1, <3>2, ResumeLeadsOn
    <3> QED
      BY <3>1, <3>2, <3>3 DEF BarLeadsOn
  <2> QED
    BY <2>1, <2>2
<1>3. ShellInv => ShellIsUsable
  BY <1>1, <1>2 DEF ShellInv, ShellIsUsable
<1> QED
  BY <1>3, ShellInvariant, PTL

-----------------------------------------------------------------------------
\* What is up of the ladder took that many checks that failed or hints asked for;
\* a consultation is about a check that failed, on top of what was up then.
LadderIsEarned ==
    /\ hints >= 1 => failedChecks + ownRungs >= 1
    /\ hints = Rungs => failedChecks + ownRungs >= 2
    /\ \A a \in asks : /\ a.tier <= Rungs /\ failedChecks >= 1
                       /\ a.tier >= 1 => failedChecks + ownRungs >= 2

CompanionInv ==
    /\ CompanionTypeOK /\ mood \in {"idle", "rest", "think", "cheer"}
    /\ failedChecks \in Nat /\ ownRungs \in Nat /\ helped
    /\ LadderIsEarned /\ BuddyIsHonest

\* The ladder and its history, when the buddy's side of a step is of no account.
LEMMA LadderStays ==
    ASSUME CompanionInv, UNCHANGED <<hints, rungsShown, failedChecks, ownRungs, helped>>,
           asks' = asks \/ asks' = {}
    PROVE  /\ hints' \in 0 .. Rungs /\ rungsShown' \in 0 .. Rungs /\ asks' \subseteq Consultation
           /\ failedChecks' \in Nat /\ ownRungs' \in Nat /\ helped' /\ LadderIsEarned'
BY DEF CompanionInv, CompanionTypeOK, LadderIsEarned

\* The buddy, when a step is the ladder's.
LEMMA BuddyStays ==
    ASSUME CompanionInv, UNCHANGED buddyVars
    PROVE  /\ {stored', prefs'} \subseteq BuddyPrefs /\ bubble' \in Events \cup {"none"}
           /\ hideTimer' \in BOOLEAN /\ mood' \in {"idle", "rest", "think", "cheer"}
           /\ BuddyIsHonest'
BY DEF CompanionInv, CompanionTypeOK, BuddyIsHonest, buddyVars

\* What the buddy says shows in its face, and a hidden one says nothing (say()).
LEMMA SayingIsHonest ==
    ASSUME CompanionInv, NEW event \in Events, Say(event),
           stored' \in BuddyPrefs, prefs' \in BuddyPrefs, prefs'.hidden = prefs.hidden
    PROVE  /\ {stored', prefs'} \subseteq BuddyPrefs /\ bubble' \in Events \cup {"none"}
           /\ hideTimer' \in BOOLEAN /\ mood' \in {"idle", "rest", "think", "cheer"}
           /\ BuddyIsHonest'
<1> USE DEF CompanionInv, CompanionTypeOK, BuddyIsHonest
<1>1. CASE prefs.hidden
  BY <1>1 DEF Say
<1>2. CASE ~prefs.hidden
  <2>1. event # "none" /\ BuddyReaction(event) \in {"idle", "rest", "think", "cheer"}
    BY DEF Events, BuddyReaction
  <2>2. bubble' = event /\ mood' = BuddyReaction(event) /\ hideTimer' = TRUE
    BY <1>2 DEF Say
  <2>3. QED
    BY <1>2, <2>1, <2>2
<1>3. QED
  BY <1>1, <1>2

\* A ladder has three rungs at least (hintTiers()).
LEMMA RungsType == Rungs \in Nat /\ Rungs >= 3
BY CompanionAssumption DEF Rungs, HintTiers

\* The ladder after a step that is not advice.
LEMMA LadderGrows ==
    ASSUME CompanionInv,
           \/ ShowRung \/ HintsElsewhere
           \/ \E kind \in {"error", "check"} : FailedCheck(kind)
    PROVE  CompanionInv'
<1> USE DEF CompanionInv, CompanionTypeOK
<1>1. /\ hints \in Nat /\ hints <= Rungs /\ Rungs \in Nat /\ Rungs >= 3
      /\ failedChecks \in Nat /\ ownRungs \in Nat /\ \A a \in asks : a \in Consultation
  BY RungsType
<1>2. \A a \in Crossed(asks) : /\ a \in Consultation
                               /\ \E b \in asks : a.tier = b.tier
  BY <1>1 DEF Crossed, Consultation
<1>3. CASE ShowRung \/ HintsElsewhere
  <2>1. /\ hints' \in 0 .. Rungs /\ hints' <= hints + 1 /\ rungsShown' \in 0 .. Rungs
        /\ asks' = Crossed(asks) /\ ownRungs' = ownRungs + 1 /\ failedChecks' = failedChecks
        /\ helped' = helped /\ UNCHANGED buddyVars
    <3>1. CASE ShowRung
      BY <1>1, <3>1 DEF ShowRung, AtMost
    <3>2. CASE HintsElsewhere
      BY <1>1, <3>2 DEF HintsElsewhere, AtMost
    <3>3. QED
      BY <1>3, <3>1, <3>2
  <2>2. LadderIsEarned'
    BY <1>1, <1>2, <2>1 DEF LadderIsEarned, Consultation
  <2>3. asks' \subseteq Consultation
    BY <1>2, <2>1
  <2>4. QED
    BY <2>1, <2>2, <2>3, BuddyStays
<1>4. ASSUME NEW kind \in {"error", "check"}, FailedCheck(kind)
      PROVE  CompanionInv'
  <2> DEFINE a == [no |-> failedChecks, tier |-> hints, kind |-> kind, crossed |-> FALSE]
  <2>1. /\ asks' = asks \cup {a} /\ failedChecks' = failedChecks + 1
        /\ UNCHANGED <<hints, rungsShown, buddyVars, ownRungs, helped>>
    BY <1>4 DEF FailedCheck
  <2>2. a \in Consultation /\ a.tier = hints
    BY <1>1 DEF Consultation
  <2> HIDE DEF a
  <2>3. \A b \in asks' : /\ b.tier <= Rungs
                         /\ b.tier >= 1 => failedChecks + ownRungs >= 1
    BY <1>1, <2>1, <2>2 DEF LadderIsEarned, Consultation
  <2>4. LadderIsEarned'
    BY <1>1, <2>1, <2>3 DEF LadderIsEarned
  <2>5. QED
    BY <2>1, <2>2, <2>4, BuddyStays
<1>5. QED
  BY <1>3, <1>4

\* Advice leads up the ladder by one rung or more, to the solution only from the
\* failing test on (heuristicProvider, and runCode() after its answer).
LEMMA AdviceIsEarned == ASSUME CompanionInv, NEW a \in asks, AdviceIsIn(a) PROVE CompanionInv'
<1> USE DEF CompanionInv, CompanionTypeOK
<1>1. /\ hints \in Nat /\ hints <= Rungs /\ Rungs \in Nat /\ Rungs >= 3
      /\ failedChecks \in Nat /\ ownRungs \in Nat /\ \A b \in asks : b \in Consultation
      /\ a.tier \in Nat /\ a.tier <= Rungs
  BY RungsType DEF Consultation, LadderIsEarned
<1>2. Suggested(a) \in {1, 2, Rungs} /\ (a.tier = 0 => Suggested(a) \in {1, 2})
  BY <1>1 DEF Suggested, ConceptTier, FailingTier
<1>3. /\ Target(a) \in Nat /\ Target(a) <= Rungs
      /\ a.tier < Rungs => Target(a) > a.tier
      /\ a.tier = 0 => Target(a) < Rungs
  BY <1>1, <1>2 DEF Target, AtMost, AtLeast
<1>4. /\ hints' = (IF Target(a) > a.tier THEN Target(a) ELSE hints) /\ rungsShown' = hints'
      /\ asks' = Crossed(asks \ {a})
      /\ helped' = (a.crossed \/ hints' > a.tier \/ a.tier = Rungs)
      /\ Say("stuck") /\ stored' = stored /\ prefs' = prefs
      /\ failedChecks' = failedChecks /\ ownRungs' = ownRungs
  BY DEF AdviceIsIn, Reacts
<1>5. hints' \in 0 .. Rungs /\ helped'
  <2>1. hints' \in 0 .. Rungs
    BY <1>1, <1>3, <1>4
  <2>2. a.tier = Rungs \/ hints' > a.tier
    BY <1>1, <1>3, <1>4
  <2>3. helped'
    BY <1>4, <2>2, Zenon
  <2>4. QED
    BY <2>1, <2>3
<1>6. \A b \in asks' : b \in Consultation /\ \E c \in asks : b.tier = c.tier
  BY <1>1, <1>4 DEF Crossed, Consultation
<1>7. LadderIsEarned'
  <2>1. failedChecks >= 1 /\ (a.tier >= 1 => failedChecks + ownRungs >= 2)
    BY DEF LadderIsEarned
  <2>2. hints' = Rungs => failedChecks + ownRungs >= 2
    <3>1. CASE Target(a) > a.tier
      BY <1>1, <1>3, <1>4, <2>1, <3>1
    <3>2. CASE ~(Target(a) > a.tier)
      BY <1>4, <3>2 DEF LadderIsEarned
    <3>3. QED
      BY <3>1, <3>2
  <2>3. \A b \in asks' : b.tier <= Rungs /\ (b.tier >= 1 => failedChecks + ownRungs >= 2)
    BY <1>6 DEF LadderIsEarned
  <2>4. QED
    BY <1>1, <1>4, <2>1, <2>2, <2>3 DEF LadderIsEarned
<1>8. "stuck" \in Events
  BY DEF Events
<1>9. stored' \in BuddyPrefs /\ prefs' \in BuddyPrefs
  BY <1>4
<1>10. /\ bubble' \in Events \cup {"none"} /\ hideTimer' \in BOOLEAN
       /\ mood' \in {"idle", "rest", "think", "cheer"} /\ BuddyIsHonest'
  BY <1>4, <1>8, <1>9, SayingIsHonest
<1>11. QED
  BY <1>1, <1>4, <1>5, <1>6, <1>7, <1>9, <1>10

\* What the buddy says and how it is called, shown and hidden.
LEMMA BuddyKeeps ==
    ASSUME CompanionInv,
           \/ HideTimerFires \/ LoadCompanion
           \/ \E event \in Events : SomethingDone(event)
           \/ \E visible \in BOOLEAN : SetVisible(visible)
           \/ \E name \in Names \ {"other"} : Rename(name)
           \/ \E p \in [hidden: BOOLEAN, name: {"Ember", "other"}] : PrefsElsewhere(p)
    PROVE  CompanionInv'
<1> USE DEF CompanionInv, CompanionTypeOK
<1>1. stored \in BuddyPrefs /\ prefs \in BuddyPrefs
  OBVIOUS
<1>2. ASSUME UNCHANGED <<hints, rungsShown, asks, helpPast>>,
             {stored', prefs'} \subseteq BuddyPrefs, bubble' \in Events \cup {"none"},
             hideTimer' \in BOOLEAN, mood' \in {"idle", "rest", "think", "cheer"}, BuddyIsHonest'
      PROVE  CompanionInv'
  BY <1>2, LadderStays DEF helpPast
<1>3. CASE HideTimerFires
  BY <1>2, <1>3 DEF HideTimerFires, BuddyIsHonest
<1>4. CASE LoadCompanion
  <2>1. BuddyIsHonest' /\ bubble' = "none" /\ hideTimer' = FALSE /\ mood' = "idle"
        /\ {stored', prefs'} \subseteq BuddyPrefs
    BY <1>4 DEF LoadCompanion, BuddyIsHonest
  <2>2. /\ hints' \in 0 .. Rungs /\ rungsShown' \in 0 .. Rungs /\ asks' = {}
        /\ failedChecks' \in Nat /\ ownRungs' \in Nat /\ helped' /\ LadderIsEarned'
    BY <1>4 DEF LoadCompanion, LadderIsEarned, helpPast
  <2>3. QED
    BY <2>1, <2>2
<1>5. ASSUME NEW event \in Events, SomethingDone(event)
      PROVE  CompanionInv'
  <2>1. Say(event) /\ stored' = stored /\ prefs' = prefs
        /\ UNCHANGED <<hints, rungsShown, asks, helpPast>>
    BY <1>5 DEF SomethingDone, Reacts
  <2>2. stored' \in BuddyPrefs /\ prefs' \in BuddyPrefs /\ prefs'.hidden = prefs.hidden
    BY <1>1, <2>1
  <2> HIDE DEF CompanionInv
  <2>3. /\ {stored', prefs'} \subseteq BuddyPrefs /\ bubble' \in Events \cup {"none"}
        /\ hideTimer' \in BOOLEAN /\ mood' \in {"idle", "rest", "think", "cheer"}
        /\ BuddyIsHonest'
    BY <2>1, <2>2, SayingIsHonest
  <2>4. QED
    BY <1>2, <2>1, <2>3
<1>6. ASSUME NEW visible \in BOOLEAN, SetVisible(visible)
      PROVE  CompanionInv'
  <2>1. prefs' \in BuddyPrefs /\ prefs'.hidden = ~visible /\ stored' = prefs'
    BY <1>1, <1>6 DEF SetVisible, BuddyPrefs
  <2>2. /\ bubble' \in Events \cup {"none"} /\ hideTimer' \in BOOLEAN
        /\ mood' \in {"idle", "rest", "think", "cheer"} /\ BuddyIsHonest'
    BY <1>6, <2>1 DEF SetVisible, BuddyIsHonest, BuddyReaction, Events
  <2>3. QED
    BY <1>2, <1>6, <2>1, <2>2 DEF SetVisible
<1>7. ASSUME NEW name \in Names \ {"other"}, Rename(name)
      PROVE  CompanionInv'
  <2>1. prefs' \in BuddyPrefs /\ prefs'.hidden = prefs.hidden /\ stored' = prefs'
    BY <1>1, <1>7 DEF Rename, BuddyPrefs
  <2>2. Say("renamed") /\ "renamed" \in Events /\ UNCHANGED <<hints, rungsShown, asks, helpPast>>
    BY <1>7 DEF Rename, Events
  <2> HIDE DEF CompanionInv
  <2>3. /\ {stored', prefs'} \subseteq BuddyPrefs /\ bubble' \in Events \cup {"none"}
        /\ hideTimer' \in BOOLEAN /\ mood' \in {"idle", "rest", "think", "cheer"}
        /\ BuddyIsHonest'
    BY <2>1, <2>2, SayingIsHonest
  <2>4. QED
    BY <1>2, <2>2, <2>3
<1>8. ASSUME NEW p \in [hidden: BOOLEAN, name: {"Ember", "other"}], PrefsElsewhere(p)
      PROVE  CompanionInv'
  <2>1. p \in BuddyPrefs
    BY DEF BuddyPrefs, Names
  <2>2. BuddyIsHonest'
    BY <1>8 DEF PrefsElsewhere, BuddyIsHonest
  <2>3. QED
    BY <1>2, <1>8, <2>1, <2>2 DEF PrefsElsewhere
<1>9. QED
  BY <1>3, <1>4, <1>5, <1>6, <1>7, <1>8

\* The strengthened invariant of the help holds in every reachable state.
THEOREM CompanionInvariant == CompanionSpec => []CompanionInv
<1>1. CompanionInit => CompanionInv
  <2> SUFFICES ASSUME CompanionInit PROVE CompanionInv
    OBVIOUS
  <2>1. CompanionTypeOK
    <3>1. stored \in BuddyPrefs /\ prefs = stored
      BY DEF CompanionInit, BuddyPrefs, Names
    <3>2. hints = 0 /\ rungsShown = 0 /\ 0 \in 0 .. Rungs
      BY RungsType DEF CompanionInit
    <3>3. asks = {} /\ bubble = "none" /\ hideTimer = FALSE
      BY DEF CompanionInit
    <3>4. QED
      BY <3>1, <3>2, <3>3 DEF CompanionTypeOK
  <2>2. LadderIsEarned /\ BuddyIsHonest
    BY RungsType DEF CompanionInit, LadderIsEarned, BuddyIsHonest
  <2>3. QED
    BY <2>1, <2>2 DEF CompanionInit, CompanionInv
<1>2. CompanionInv /\ [CompanionNext]_companionVars => CompanionInv'
  <2> SUFFICES ASSUME CompanionInv, [CompanionNext]_companionVars PROVE CompanionInv'
    OBVIOUS
  <2>1. CASE UNCHANGED companionVars
    BY <2>1 DEF CompanionInv, CompanionTypeOK, LadderIsEarned, BuddyIsHonest,
                companionVars, buddyVars, helpPast
  <2>2. CASE CompanionNext
    BY <2>2, LadderGrows, AdviceIsEarned, BuddyKeeps DEF CompanionNext
  <2>3. QED
    BY <2>1, <2>2
<1>3. QED
  BY <1>1, <1>2, PTL DEF CompanionSpec

\* Help is fair (public/tutor.js, public/app.js): the worked solution takes two
\* failed checks or hints asked for, each failed check brings more help up, and the
\* study buddy is silent when hidden and looks as it speaks; for a ladder of any
\* height, with advice that comes late, in any order or for an older check.
THEOREM HelpStaysFair == CompanionSpec => []HelpIsFair
<1>1. CompanionInv => HelpIsFair
  BY DEF CompanionInv, HelpIsFair, SolutionIsEarned, EachFailureHelps, LadderIsEarned
<1>2. QED
  BY <1>1, CompanionInvariant, PTL

-----------------------------------------------------------------------------
\* What each box shows, in view or not; and own text that a box fell behind of is
\* not one the learner means to keep.
BoxesAreKept ==
    \A b \in BoxKeys :
       /\ b \notin behind => shows[b] = DraftOr(kept, b)
       /\ meant[b] \in OwnTexts => b \notin behind /\ kept[b] = meant[b]

\* A frame gets one experiment, and only that prints under its number.
FramesAreOnce ==
    /\ frame <= strokes /\ frame = broughtUp /\ (running # "nothing" => frame >= 1)
    /\ \A load \in loading : load.frame <= frame /\ (load.frame = frame => running = "nothing")
    /\ \A load, other \in loading : load.frame = frame /\ other.frame = frame => load = other
    /\ \A letter \in letters :
          letter.frame <= frame /\ (letter.frame = frame => running = letter.code)
    /\ \A letter \in domOutput : letter.frame = frame /\ running = letter.code

WorkbenchInv ==
    /\ WorkbenchTypeOK /\ BoxesAreKept /\ FramesAreOnce
    /\ StepBox \notin behind => ticked = stepDone
    /\ desk = "playground" /\ named # "none" => named = playLang

\* A text is a text, and no draft is shown as the starter.
LEMMA BenchTypes ==
    /\ NoDraft \notin BoxTexts /\ "starter" \in BoxTexts /\ "project" \in BoxTexts
    /\ OwnTexts \subseteq BoxTexts /\ "starter" \notin OwnTexts /\ "project" \notin OwnTexts
    /\ NoDraft \notin OwnTexts /\ "nothing" \notin BoxTexts
    /\ StepBox \notin BoxKeys /\ \A l \in PlayLangs : CodeKey(l) \in BoxKeys
BY DEF NoDraft, BoxTexts, OwnTexts, StepBox, BoxKeys, PlayLangs, CodeKey

\* Every draft is shown as itself; a box without one has the starter (editor()).
LEMMA DraftIsShown ==
    ASSUME NEW d \in [BoxKeys -> BoxTexts \cup {NoDraft}], NEW b \in BoxKeys
    PROVE  /\ DraftOr(d, b) \in BoxTexts
           /\ d[b] # NoDraft => DraftOr(d, b) = d[b]
BY BenchTypes DEF DraftOr

\* A page that is drawn shows the record, in a frame of its own.
LEMMA BenchIsDrawn ==
    ASSUME WorkbenchInv, NEW d \in [BoxKeys -> BoxTexts \cup {NoDraft}], Stroke, DrawBench(d),
           kept' = d, stepDone' = stepDone,
           meant' \in [BoxKeys -> BoxTexts \cup {NoDraft}],
           \A b \in BoxKeys : meant'[b] \in OwnTexts => d[b] = meant'[b],
           desk' \in {"project", "playground"}, playLang' \in PlayLangs,
           named' \in PlayLangs \cup {"none"}, named' # "none" => named' = playLang'
    PROVE  WorkbenchInv'
<1> USE DEF WorkbenchInv, WorkbenchTypeOK
<1>1. /\ strokes' = strokes + 1 /\ strokes' \in 0 .. MaxStrokes /\ strokes \in Nat
      /\ frame \in Nat /\ frame <= strokes
  BY WorkbenchAssumption DEF Stroke, FramesAreOnce
<1>2. /\ shows' = [b \in BoxKeys |-> DraftOr(d, b)] /\ ticked' = stepDone
      /\ frame' = frame + 1 /\ running' = "nothing" /\ domOutput' = {}
      /\ behind' = {} /\ broughtUp' = frame' /\ loading' = loading /\ letters' = letters
  BY DEF DrawBench
<1>3. frame' \in 0 .. MaxStrokes /\ frame' <= strokes'
  BY <1>1, <1>2, WorkbenchAssumption
<1>4. shows' \in [BoxKeys -> BoxTexts] /\ BoxesAreKept'
  BY <1>2, DraftIsShown DEF BoxesAreKept
<1>5. \A x \in loading \cup letters : x.frame \in Nat /\ x.frame < frame'
  BY <1>1, <1>2 DEF FramesAreOnce, Experiment
<1>6. FramesAreOnce'
  BY <1>1, <1>2, <1>3, <1>5 DEF FramesAreOnce
<1>7. QED
  BY <1>1, <1>2, <1>3, <1>4, <1>6

\* What a step that is about text leaves of the frames.
LEMMA LabStays ==
    ASSUME WorkbenchInv, Stroke, UNCHANGED <<domLab, broughtUp>>
    PROVE  /\ strokes' \in 0 .. MaxStrokes /\ frame' \in 0 .. MaxStrokes
           /\ broughtUp' \in 0 .. MaxStrokes
           /\ loading' \subseteq Experiment /\ letters' \subseteq Experiment
           /\ domOutput' \subseteq Experiment /\ running' \in BoxTexts \cup {"nothing"}
           /\ FramesAreOnce'
<1> USE DEF WorkbenchInv, WorkbenchTypeOK, domLab
<1>1. strokes' = strokes + 1 /\ strokes' \in 0 .. MaxStrokes /\ strokes \in Nat
      /\ frame \in Nat /\ frame <= strokes
  BY WorkbenchAssumption DEF Stroke, FramesAreOnce
<1>2. frame' <= strokes'
  BY <1>1
<1>3. FramesAreOnce'
  BY <1>2 DEF FramesAreOnce
<1>4. QED
  BY <1>1, <1>3

\* Pages of the bench are opened.
LEMMA OpeningKeeps ==
    ASSUME WorkbenchInv,
           \/ \E l \in PlayLangs \cup {"none"} : OpenPlayground(l)
           \/ OpenProject
           \/ \E l \in PlayLangs : PickLanguage(l)
    PROVE  WorkbenchInv'
<1>1. /\ kept \in [BoxKeys -> BoxTexts \cup {NoDraft}] /\ meant \in [BoxKeys -> BoxTexts \cup {NoDraft}]
      /\ playLang \in PlayLangs /\ named \in PlayLangs \cup {"none"}
      /\ desk \in {"project", "playground"}
      /\ \A b \in BoxKeys : meant[b] \in OwnTexts => kept[b] = meant[b]
  BY DEF WorkbenchInv, WorkbenchTypeOK, BoxesAreKept
<1>2. ASSUME NEW l \in PlayLangs \cup {"none"}, OpenPlayground(l)
      PROVE  WorkbenchInv'
  <2>1. /\ Stroke /\ DrawBench(kept) /\ kept' = kept /\ stepDone' = stepDone /\ meant' = meant
        /\ desk' = "playground" /\ named' = l /\ playLang' = IF l = "none" THEN playLang ELSE l
    BY <1>2 DEF OpenPlayground, benchRecord
  <2>2. playLang' \in PlayLangs /\ (named' # "none" => named' = playLang')
    BY <1>1, <2>1
  <2>3. QED
    BY <1>1, <2>1, <2>2, BenchIsDrawn
<1>3. CASE OpenProject
  <2>1. /\ Stroke /\ DrawBench(kept) /\ kept' = kept /\ stepDone' = stepDone /\ meant' = meant
        /\ desk' = "project" /\ named' = "none" /\ playLang' = playLang
    BY <1>3 DEF OpenProject, benchRecord
  <2>2. QED
    BY <1>1, <2>1, BenchIsDrawn
<1>4. ASSUME NEW l \in PlayLangs, PickLanguage(l)
      PROVE  WorkbenchInv'
  <2>1. /\ Stroke /\ DrawBench(kept) /\ kept' = kept /\ stepDone' = stepDone /\ meant' = meant
        /\ desk' = desk /\ named' = l /\ playLang' = l
    BY <1>4 DEF PickLanguage, benchRecord
  <2>2. QED
    BY <1>1, <2>1, BenchIsDrawn
<1>5. QED
  BY <1>2, <1>3, <1>4

\* A learner writes, resets, ticks, or opens a project's starter.
LEMMA WritingKeeps ==
    ASSUME WorkbenchInv,
           \/ \E b \in BoxKeys, t \in {"own", "blank"} : Write(b, t)
           \/ \E agreed \in BOOLEAN : ResetCode(agreed)
           \/ \E l \in PlayLangs, agreed \in BOOLEAN : StartProject(l, agreed)
           \/ Tick
    PROVE  WorkbenchInv'
<1>1. /\ kept \in [BoxKeys -> BoxTexts \cup {NoDraft}] /\ meant \in [BoxKeys -> BoxTexts \cup {NoDraft}]
      /\ shows \in [BoxKeys -> BoxTexts] /\ behind \subseteq BoxKeys \cup {StepBox}
      /\ playLang \in PlayLangs /\ named \in PlayLangs \cup {"none"}
      /\ desk \in {"project", "playground"} /\ stepDone \in BOOLEAN /\ ticked \in BOOLEAN
      /\ BoxesAreKept /\ (StepBox \notin behind => ticked = stepDone)
      /\ (desk = "playground" /\ named # "none" => named = playLang)
  BY DEF WorkbenchInv, WorkbenchTypeOK
<1>2. ASSUME NEW b \in BoxKeys, NEW t \in BoxTexts, NEW m \in BoxTexts \cup {NoDraft},
             Stroke, shows' = [shows EXCEPT ![b] = t], kept' = [kept EXCEPT ![b] = t],
             meant' = [meant EXCEPT ![b] = m], m \in OwnTexts => t = m, behind' = behind \ {b},
             UNCHANGED <<stepDone, benchAddress, ticked, domLab, broughtUp>>
      PROVE  WorkbenchInv'
  <2>1. /\ shows' \in [BoxKeys -> BoxTexts] /\ kept' \in [BoxKeys -> BoxTexts \cup {NoDraft}]
        /\ meant' \in [BoxKeys -> BoxTexts \cup {NoDraft}]
    BY <1>1, <1>2
  <2>2. \A k \in BoxKeys : /\ shows'[k] = IF k = b THEN t ELSE shows[k]
                           /\ kept'[k] = IF k = b THEN t ELSE kept[k]
                           /\ meant'[k] = IF k = b THEN m ELSE meant[k]
    BY <1>1, <1>2
  <2>3. t # NoDraft
    BY BenchTypes
  <2>4. BoxesAreKept'
    <3>1. ASSUME NEW k \in BoxKeys
          PROVE  /\ k \notin behind' => shows'[k] = DraftOr(kept', k)
                 /\ meant'[k] \in OwnTexts => k \notin behind' /\ kept'[k] = meant'[k]
      <4>1. CASE k = b
        BY <1>2, <2>2, <2>3, <4>1 DEF DraftOr
      <4>2. CASE k # b
        BY <1>1, <1>2, <2>2, <4>2 DEF DraftOr, BoxesAreKept
      <4>3. QED
        BY <4>1, <4>2
    <3>2. QED
      BY <3>1 DEF BoxesAreKept
  <2>5. StepBox \notin behind' => StepBox \notin behind
    BY <1>2, BenchTypes
  <2>6. /\ strokes' \in 0 .. MaxStrokes /\ frame' \in 0 .. MaxStrokes
        /\ broughtUp' \in 0 .. MaxStrokes
        /\ loading' \subseteq Experiment /\ letters' \subseteq Experiment
        /\ domOutput' \subseteq Experiment /\ running' \in BoxTexts \cup {"nothing"}
        /\ FramesAreOnce'
    BY <1>2, LabStays
  <2>7. behind' \subseteq BoxKeys \cup {StepBox}
    BY <1>1, <1>2
  <2>8. QED
    BY <1>1, <1>2, <2>1, <2>4, <2>5, <2>6, <2>7 DEF WorkbenchInv, WorkbenchTypeOK, benchAddress
<1>3. ASSUME NEW b \in BoxKeys, NEW t \in {"own", "blank"}, Write(b, t)
      PROVE  WorkbenchInv'
  <2>1. t \in BoxTexts
    BY DEF BoxTexts, OwnTexts
  <2>2. /\ Stroke /\ shows' = [shows EXCEPT ![b] = t] /\ kept' = [kept EXCEPT ![b] = t]
        /\ meant' = [meant EXCEPT ![b] = t] /\ behind' = behind \ {b}
        /\ UNCHANGED <<stepDone, benchAddress, ticked, domLab, broughtUp>>
    BY <1>3 DEF Write
  <2>3. QED
    BY <1>2, <2>1, <2>2
<1>4. ASSUME NEW agreed \in BOOLEAN, ResetCode(agreed)
      PROVE  WorkbenchInv'
  <2>1. PICK b \in BoxKeys : b = CodeKey(playLang)
    BY <1>1, BenchTypes
  <2>2. PICK m : m = IF agreed \/ meant[b] \notin OwnTexts THEN "starter" ELSE meant[b]
    OBVIOUS
  <2>3. /\ Stroke /\ shows' = [shows EXCEPT ![b] = "starter"]
        /\ kept' = [kept EXCEPT ![b] = "starter"]
        /\ meant' = [meant EXCEPT ![b] = m] /\ behind' = behind \ {b}
        /\ UNCHANGED <<stepDone, benchAddress, ticked, domLab, broughtUp>>
        /\ agreed \/ shows[b] = "starter"
    BY <1>4, <2>1, <2>2 DEF ResetCode, MeantBy
  <2>4. m = "starter"
    <3>1. SUFFICES ASSUME ~agreed, meant[b] \in OwnTexts PROVE FALSE
      BY <2>2
    <3>2. b \notin behind /\ kept[b] = meant[b] /\ shows[b] = DraftOr(kept, b)
      BY <1>1, <3>1 DEF BoxesAreKept
    <3>3. shows[b] \in OwnTexts
      BY <3>1, <3>2, BenchTypes DEF DraftOr
    <3>4. QED
      BY <2>3, <3>1, <3>3, BenchTypes
  <2>5. QED
    BY <1>2, <2>3, <2>4, BenchTypes
<1>5. ASSUME NEW l \in PlayLangs, NEW agreed \in BOOLEAN, StartProject(l, agreed)
      PROVE  WorkbenchInv'
  <2>1. PICK b \in BoxKeys : b = CodeKey(l)
    BY BenchTypes
  <2>2. PICK d : d = [kept EXCEPT ![b] = "project"]
    OBVIOUS
  <2>3. /\ Stroke /\ DrawBench(d) /\ kept' = d /\ stepDone' = stepDone
        /\ meant' = [meant EXCEPT ![b] = IF agreed \/ @ \notin OwnTexts THEN "project" ELSE @]
        /\ desk' = "playground" /\ named' = "none" /\ playLang' = l
        /\ agreed \/ kept[b] \in {NoDraft, "blank", "project"}
    BY <1>5, <2>1, <2>2 DEF StartProject, MeantBy
  <2>4. agreed \/ meant[b] \notin OwnTexts
    <3>1. kept[b] \in {NoDraft, "blank", "project"} => kept[b] \notin OwnTexts
      BY DEF NoDraft, OwnTexts
    <3>2. QED
      BY <1>1, <2>3, <3>1 DEF BoxesAreKept
  <2>5. meant' = [meant EXCEPT ![b] = "project"]
    BY <2>3, <2>4
  <2>6. /\ d \in [BoxKeys -> BoxTexts \cup {NoDraft}]
        /\ meant' \in [BoxKeys -> BoxTexts \cup {NoDraft}]
    BY <1>1, <2>2, <2>5, BenchTypes
  <2>7. ASSUME NEW k \in BoxKeys, meant'[k] \in OwnTexts
        PROVE  d[k] = meant'[k]
    BY <1>1, <2>2, <2>5, <2>7, BenchTypes DEF BoxesAreKept
  <2>8. QED
    BY <2>3, <2>6, <2>7, BenchIsDrawn
<1>6. CASE Tick
  <2>1. /\ Stroke /\ ticked' = ~ticked /\ stepDone' = ~ticked /\ behind' = behind \ {StepBox}
        /\ UNCHANGED <<kept, benchAddress, shows, domLab, meant, broughtUp>>
    BY <1>6 DEF Tick
  <2>2. BoxesAreKept'
    BY <1>1, <2>1, BenchTypes DEF BoxesAreKept, DraftOr
  <2>3. /\ strokes' \in 0 .. MaxStrokes /\ frame' \in 0 .. MaxStrokes
        /\ broughtUp' \in 0 .. MaxStrokes
        /\ loading' \subseteq Experiment /\ letters' \subseteq Experiment
        /\ domOutput' \subseteq Experiment /\ running' \in BoxTexts \cup {"nothing"}
        /\ FramesAreOnce'
    BY <2>1, LabStays
  <2>4. ticked' = stepDone' /\ ticked' \in BOOLEAN /\ stepDone' \in BOOLEAN
    BY <2>1
  <2>5. QED
    BY <1>1, <2>1, <2>2, <2>3, <2>4 DEF WorkbenchInv, WorkbenchTypeOK, benchAddress
<1>7. QED
  BY <1>3, <1>4, <1>5, <1>6

\* The record changes under the page (refreshSavedView(), or an account's record).
LEMMA RecordChangesKeep ==
    ASSUME WorkbenchInv, WrittenElsewhere \/ ClearedElsewhere \/ Adopted
    PROVE  WorkbenchInv'
<1>1. /\ kept \in [BoxKeys -> BoxTexts \cup {NoDraft}] /\ meant \in [BoxKeys -> BoxTexts \cup {NoDraft}]
      /\ shows \in [BoxKeys -> BoxTexts] /\ behind \subseteq BoxKeys \cup {StepBox}
      /\ playLang \in PlayLangs /\ named \in PlayLangs \cup {"none"}
      /\ desk \in {"project", "playground"} /\ stepDone \in BOOLEAN /\ ticked \in BOOLEAN
      /\ BoxesAreKept /\ (StepBox \notin behind => ticked = stepDone)
      /\ (desk = "playground" /\ named # "none" => named = playLang)
  BY DEF WorkbenchInv, WorkbenchTypeOK
<1>2. Stroke /\ UNCHANGED benchAddress /\ UNCHANGED <<domLab, broughtUp>>
  BY DEF WrittenElsewhere, ClearedElsewhere, Adopted, RefreshSavedView
<1>3. /\ strokes' \in 0 .. MaxStrokes /\ frame' \in 0 .. MaxStrokes
      /\ broughtUp' \in 0 .. MaxStrokes
      /\ loading' \subseteq Experiment /\ letters' \subseteq Experiment
      /\ domOutput' \subseteq Experiment /\ running' \in BoxTexts \cup {"nothing"}
      /\ FramesAreOnce'
  BY <1>2, LabStays
<1>4. ASSUME kept' \in [BoxKeys -> BoxTexts \cup {NoDraft}], stepDone' \in BOOLEAN,
             meant' \in [BoxKeys -> BoxTexts \cup {NoDraft}],
             \A b \in BoxKeys : meant'[b] \in OwnTexts => kept'[b] = meant'[b],
             RefreshSavedView
      PROVE  WorkbenchInv'
  <2>1. /\ ticked' = stepDone'
        /\ shows' = [b \in BoxKeys |-> IF kept'[b] = NoDraft THEN shows[b] ELSE kept'[b]]
        /\ behind' = {b \in BoxKeys : kept'[b] = NoDraft /\ shows[b] # "starter"}
    BY <1>4 DEF RefreshSavedView
  <2>2. shows' \in [BoxKeys -> BoxTexts] /\ behind' \subseteq BoxKeys
    BY <1>1, <1>4, <2>1
  <2>3. BoxesAreKept'
    <3>1. ASSUME NEW b \in BoxKeys
          PROVE  /\ b \notin behind' => shows'[b] = DraftOr(kept', b)
                 /\ meant'[b] \in OwnTexts => b \notin behind' /\ kept'[b] = meant'[b]
      <4>1. meant'[b] \in OwnTexts => kept'[b] = meant'[b] /\ kept'[b] # NoDraft
        BY <1>4, BenchTypes
      <4>2. QED
        BY <2>1, <4>1 DEF DraftOr
    <3>2. QED
      BY <3>1 DEF BoxesAreKept
  <2>4. QED
    BY <1>1, <1>2, <1>3, <1>4, <2>1, <2>2, <2>3 DEF WorkbenchInv, WorkbenchTypeOK, benchAddress
<1>5. "elsewhere" \in BoxTexts /\ "elsewhere" # NoDraft
  BY DEF BoxTexts, OwnTexts, NoDraft
<1>6. CASE WrittenElsewhere
  <2>1. PICK b \in BoxKeys, s \in BOOLEAN :
          /\ kept' = [kept EXCEPT ![b] = "elsewhere"] /\ stepDone' = s
          /\ meant' = [meant EXCEPT ![b] = "elsewhere"]
    BY <1>6 DEF WrittenElsewhere
  <2>2. /\ kept' \in [BoxKeys -> BoxTexts \cup {NoDraft}]
        /\ meant' \in [BoxKeys -> BoxTexts \cup {NoDraft}]
    BY <1>1, <1>5, <2>1
  <2>3. \A k \in BoxKeys : meant'[k] \in OwnTexts => kept'[k] = meant'[k]
    BY <1>1, <2>1 DEF BoxesAreKept
  <2>4. QED
    BY <1>4, <1>6, <2>1, <2>2, <2>3 DEF WrittenElsewhere
<1>7. CASE ClearedElsewhere
  <2>1. kept' = [b \in BoxKeys |-> NoDraft] /\ stepDone' = FALSE /\ meant' = kept'
    BY <1>7 DEF ClearedElsewhere
  <2>2. QED
    BY <1>4, <1>7, <2>1, BenchTypes DEF ClearedElsewhere
<1>8. CASE Adopted
  <2>1. PICK b \in BoxKeys, s \in BOOLEAN :
          /\ kept' = [kept EXCEPT ![b] = "elsewhere"] /\ stepDone' = s
          /\ meant' = [meant EXCEPT ![b] = NoDraft]
          /\ behind' = behind \cup {b, StepBox}
    BY <1>8 DEF Adopted
  <2>2. shows' = shows /\ ticked' = ticked
    BY <1>8 DEF Adopted
  <2>3. /\ kept' \in [BoxKeys -> BoxTexts \cup {NoDraft}]
        /\ meant' \in [BoxKeys -> BoxTexts \cup {NoDraft}]
        /\ behind' \subseteq BoxKeys \cup {StepBox} /\ StepBox \in behind'
    BY <1>1, <1>5, <2>1
  <2>4. BoxesAreKept'
    <3>1. ASSUME NEW k \in BoxKeys
          PROVE  /\ k \notin behind' => shows'[k] = DraftOr(kept', k)
                 /\ meant'[k] \in OwnTexts => k \notin behind' /\ kept'[k] = meant'[k]
      <4>1. CASE k = b
        BY <1>1, <2>1, <4>1, BenchTypes
      <4>2. CASE k # b
        <5>1. kept'[k] = kept[k] /\ meant'[k] = meant[k] /\ (k \in behind' <=> k \in behind)
          BY <1>1, <2>1, <4>2, BenchTypes
        <5>2. QED
          BY <1>1, <2>2, <5>1 DEF BoxesAreKept, DraftOr
      <4>3. QED
        BY <4>1, <4>2
    <3>2. QED
      BY <3>1 DEF BoxesAreKept
  <2>5. QED
    BY <1>1, <1>2, <1>3, <2>1, <2>2, <2>3, <2>4 DEF WorkbenchInv, WorkbenchTypeOK, benchAddress
<1>9. QED
  BY <1>6, <1>7, <1>8

\* A preview is asked for, loads, prints, and what it printed arrives.
LEMMA LabKeeps ==
    ASSUME WorkbenchInv, UpdatePreview \/ Loaded \/ Prints \/ LetterArrives
    PROVE  WorkbenchInv'
<1> USE DEF WorkbenchInv, WorkbenchTypeOK
<1>1. /\ strokes \in Nat /\ strokes <= MaxStrokes /\ frame \in Nat /\ frame <= strokes
      /\ MaxStrokes \in Nat /\ FramesAreOnce
  BY WorkbenchAssumption DEF FramesAreOnce
<1>2. ASSUME UNCHANGED <<benchRecord, benchAddress, shows, ticked, meant, behind>>,
             strokes' \in 0 .. MaxStrokes, frame' \in 0 .. MaxStrokes,
             broughtUp' \in 0 .. MaxStrokes, loading' \subseteq Experiment,
             letters' \subseteq Experiment, domOutput' \subseteq Experiment,
             running' \in BoxTexts \cup {"nothing"}, FramesAreOnce'
      PROVE  WorkbenchInv'
  BY <1>2 DEF benchRecord, benchAddress, BoxesAreKept, DraftOr
<1>3. CASE UpdatePreview
  <2> DEFINE load == [frame |-> frame + 1, code |-> shows["dom-js"]]
  <2>1. /\ Stroke /\ frame' = frame + 1 /\ running' = "nothing" /\ domOutput' = {}
        /\ loading' = loading \cup {load} /\ broughtUp' = frame' /\ letters' = letters
        /\ UNCHANGED <<benchRecord, benchAddress, shows, ticked, meant, behind>>
    BY <1>3 DEF UpdatePreview
  <2>2. strokes' = strokes + 1 /\ strokes' \in 0 .. MaxStrokes /\ frame' <= strokes'
        /\ frame' \in 1 .. MaxStrokes
    BY <1>1, <2>1 DEF Stroke
  <2>3. load \in Experiment /\ load.frame = frame'
    <3>1. shows["dom-js"] \in BoxTexts
      BY DEF BoxKeys
    <3>2. QED
      BY <2>1, <2>2, <3>1 DEF Experiment
  <2>4. \A x \in loading \cup letters : x.frame \in Nat /\ x.frame < frame'
    BY <1>1, <2>1 DEF FramesAreOnce, Experiment
  <2> HIDE DEF load
  <2>5. FramesAreOnce'
    BY <1>1, <2>1, <2>2, <2>3, <2>4 DEF FramesAreOnce
  <2>6. QED
    BY <1>2, <2>1, <2>2, <2>3, <2>5
<1>4. CASE Loaded
  <2>1. PICK load \in loading :
          /\ loading' = loading \ {load}
          /\ running' = IF LabInView /\ load.frame = frame THEN load.code ELSE running
    BY <1>4 DEF Loaded
  <2>2. UNCHANGED <<benchRecord, benchAddress, shows, ticked, frame, letters, domOutput, strokes,
                    meant, behind, broughtUp>>
    BY <1>4 DEF Loaded, benchPast
  <2>3. load.code \in BoxTexts /\ load.frame >= 1
    BY DEF Experiment
  <2>4. FramesAreOnce'
    <3>1. CASE LabInView /\ load.frame = frame
      <4>1. \A letter \in letters \cup domOutput : letter.frame # frame
        BY <1>1, <3>1, BenchTypes DEF FramesAreOnce, Experiment
      <4>2. \A other \in loading' : other.frame # frame
        BY <1>1, <2>1, <3>1 DEF FramesAreOnce
      <4>3. QED
        BY <1>1, <2>1, <2>2, <2>3, <3>1, <4>1, <4>2 DEF FramesAreOnce
    <3>2. CASE ~(LabInView /\ load.frame = frame)
      BY <1>1, <2>1, <2>2, <3>2 DEF FramesAreOnce
    <3>3. QED
      BY <3>1, <3>2
  <2>5. QED
    BY <1>2, <2>1, <2>2, <2>3, <2>4
<1>5. CASE Prints
  <2> DEFINE letter == [frame |-> frame, code |-> running]
  <2>1. /\ running # "nothing" /\ letters' = letters \cup {letter}
        /\ UNCHANGED <<benchRecord, benchAddress, shows, ticked, frame, loading, running,
                        domOutput, strokes, meant, behind, broughtUp>>
    BY <1>5 DEF Prints, benchPast
  <2>2. letter.frame = frame /\ letter.code = running
    OBVIOUS
  <2>3. letter \in Experiment
    BY <1>1, <2>1 DEF FramesAreOnce, Experiment
  <2> HIDE DEF letter
  <2>4. FramesAreOnce'
    BY <1>1, <2>1, <2>2 DEF FramesAreOnce
  <2>5. QED
    BY <1>2, <2>1, <2>3, <2>4
<1>6. CASE LetterArrives
  <2>1. PICK letter \in letters :
          /\ letters' = letters \ {letter}
          /\ domOutput' = IF LabInView /\ letter.frame = frame THEN {letter} ELSE domOutput
    BY <1>6 DEF LetterArrives
  <2>2. UNCHANGED <<benchRecord, benchAddress, shows, ticked, frame, loading, running, strokes,
                    meant, behind, broughtUp>>
    BY <1>6 DEF LetterArrives, benchPast
  <2>3. FramesAreOnce'
    BY <1>1, <2>1, <2>2 DEF FramesAreOnce
  <2>4. QED
    BY <1>2, <2>1, <2>2, <2>3
<1>7. QED
  BY <1>3, <1>4, <1>5, <1>6

\* The strengthened invariant of the bench holds in every reachable state.
THEOREM WorkbenchInvariant == WorkbenchSpec => []WorkbenchInv
<1>1. WorkbenchInit => WorkbenchInv
  <2> SUFFICES ASSUME WorkbenchInit PROVE WorkbenchInv
    OBVIOUS
  <2> USE DEF WorkbenchInit
  <2>1. WorkbenchTypeOK
    <3>1. /\ kept \in [BoxKeys -> BoxTexts \cup {NoDraft}] /\ meant = kept
          /\ shows \in [BoxKeys -> BoxTexts]
      BY BenchTypes
    <3>2. frame \in 0 .. MaxStrokes /\ broughtUp \in 0 .. MaxStrokes /\ strokes \in 0 .. MaxStrokes
      BY WorkbenchAssumption
    <3>3. playLang \in PlayLangs /\ named \in PlayLangs \cup {"none"}
      BY DEF PlayLangs
    <3>4. QED
      BY <3>1, <3>2, <3>3 DEF WorkbenchTypeOK
  <2>2. BoxesAreKept
    BY BenchTypes DEF BoxesAreKept, DraftOr
  <2>3. FramesAreOnce
    BY DEF FramesAreOnce
  <2>4. QED
    BY <2>1, <2>2, <2>3 DEF WorkbenchInv
<1>2. WorkbenchInv /\ [WorkbenchNext]_workbenchVars => WorkbenchInv'
  <2> SUFFICES ASSUME WorkbenchInv, [WorkbenchNext]_workbenchVars PROVE WorkbenchInv'
    OBVIOUS
  <2>1. CASE UNCHANGED workbenchVars
    BY <2>1 DEF WorkbenchInv, WorkbenchTypeOK, BoxesAreKept, FramesAreOnce, DraftOr,
                workbenchVars, benchRecord, benchAddress, domLab, benchPast
  <2>2. CASE WorkbenchNext
    BY <2>2, OpeningKeeps, WritingKeeps, RecordChangesKeep, LabKeeps DEF WorkbenchNext
  <2>3. QED
    BY <2>1, <2>2
<1>3. QED
  BY <1>1, <1>2, PTL DEF WorkbenchSpec

\* The bench keeps its word (public/app.js): boxes show the record, the lab's output
\* is its own experiment's, and own text gives way only when the learner agrees;
\* for any number of edits, with other tabs, an account and late letters between.
THEOREM BenchStaysTrue ==
    WorkbenchSpec => [](BenchShowsTheRecord /\ ExperimentIsItsOwn /\ OwnTextIsAskedFor)
<1>1. WorkbenchInv => BenchShowsTheRecord /\ ExperimentIsItsOwn /\ OwnTextIsAskedFor
  <2> SUFFICES ASSUME WorkbenchInv
               PROVE  BenchShowsTheRecord /\ ExperimentIsItsOwn /\ OwnTextIsAskedFor
    OBVIOUS
  <2> USE DEF WorkbenchInv, WorkbenchTypeOK
  <2>1. \A letter \in domOutput : letter = [frame |-> frame, code |-> running]
    BY DEF FramesAreOnce, Experiment
  <2>2. BenchShowsTheRecord
    BY DEF BenchShowsTheRecord, BoxesAreKept
  <2>3. ExperimentIsItsOwn
    BY <2>1 DEF ExperimentIsItsOwn, FramesAreOnce
  <2>4. OwnTextIsAskedFor
    BY DEF OwnTextIsAskedFor, BoxesAreKept
  <2>5. QED
    BY <2>2, <2>3, <2>4
<1>2. QED
  BY <1>1, WorkbenchInvariant, PTL

-----------------------------------------------------------------------------

\* The pages of the static edition keep their promises, for any course, ladder of
\* hints and number of edits, however the learner's steps fall together with timers,
\* other tabs, late advice and letters of an older preview (public/app.js).
THEOREM PagesStayHonest == StaticPagesSpec => []PageIsHonest
<1>1. ShellIsUsable /\ HelpIsFair /\ (BenchShowsTheRecord /\ ExperimentIsItsOwn /\ OwnTextIsAskedFor)
         => PageIsHonest
  BY DEF PageIsHonest
<1> QED
  BY <1>1, FrameStaysUsable, HelpStaysFair, BenchStaysTrue, PTL DEF StaticPagesSpec

-----------------------------------------------------------------------------
\* Prices with a discount in them are Paddle's, and only the launch offer's, where
\* there is one.
PreviewIsPaddles(p, deployment) ==
    /\ p.preview \in {"script", "prices"} \/ p.regional => deployment.paddle
    /\ {p.asked, p.deal} \subseteq {"none", "launch"}
    /\ p.asked = "launch" \/ p.deal = "launch" => deployment.offer

\* What the checkout page was opened with is the card that was chosen.
QuoteIsLinked ==
    quoted.plan # "none" =>
        /\ checkout.plan = quoted.plan
        /\ checkout.deal <=> quoted.discount # "none"
        /\ quoted.discount \in {"none", "launch"}
        /\ quoted.prices = "paddle" \/ quoted.discount # "none" => setUp.paddle
        /\ quoted.discount = "launch" => setUp.offer

CheckoutInv ==
    /\ CheckoutTypeOK
    /\ PreviewIsPaddles(pricing, setUp) /\ QuoteIsLinked /\ CheckoutIsFair

-----------------------------------------------------------------------------

\* What the preview makes of the page: a setting, another step, or the prices.
LEMMA PreviewSteps ==
    ASSUME NEW p \in PricingPage, NEW deployment \in Deployments, PreviewIsPaddles(p, deployment)
    PROVE  /\ \A who \in Visitors :
                LET q == [p EXCEPT !.viewer = who]
                IN  q \in PricingPage /\ PreviewIsPaddles(q, deployment)
           /\ LET q == [p EXCEPT !.preview = "done"]
              IN  q \in PricingPage /\ PreviewIsPaddles(q, deployment)
           /\ deployment.paddle =>
                LET q == [p EXCEPT !.preview = "prices"]
                IN  q \in PricingPage /\ PreviewIsPaddles(q, deployment)
           /\ LET q == [p EXCEPT !.usd = ~@]
              IN  q \in PricingPage /\ PreviewIsPaddles(q, deployment)
<1>1. ASSUME NEW who \in Visitors
      PROVE  LET q == [p EXCEPT !.viewer = who] IN q \in PricingPage /\ PreviewIsPaddles(q, deployment)
  BY DEF PricingPage, PreviewIsPaddles
<1>2. LET q == [p EXCEPT !.preview = "done"] IN q \in PricingPage /\ PreviewIsPaddles(q, deployment)
  BY DEF PricingPage, PreviewIsPaddles
<1>3. ASSUME deployment.paddle
      PROVE  LET q == [p EXCEPT !.preview = "prices"] IN q \in PricingPage /\ PreviewIsPaddles(q, deployment)
  BY <1>3 DEF PricingPage, PreviewIsPaddles
<1>4. LET q == [p EXCEPT !.usd = ~@] IN q \in PricingPage /\ PreviewIsPaddles(q, deployment)
  BY DEF PricingPage, PreviewIsPaddles
<1> QED
  BY <1>1, <1>2, <1>3, <1>4

\* The offer is asked for when Paddle's prices are, and is in them when they come.
LEMMA OfferIsAsked ==
    ASSUME NEW p \in PricingPage, NEW deployment \in Deployments, PreviewIsPaddles(p, deployment),
           deployment.paddle, NEW deal \in {"none", "launch"}, deal = "launch" => deployment.offer
    PROVE  LET q == [p EXCEPT !.preview = "script", !.asked = deal]
           IN  q \in PricingPage /\ PreviewIsPaddles(q, deployment)
<1> DEFINE u == [p EXCEPT !.preview = "script"]
           q == [u EXCEPT !.asked = deal]
<1>1. u \in PricingPage /\ u.preview = "script" /\ u.deal = p.deal /\ u.regional = p.regional
  BY DEF PricingPage
<1> HIDE DEF u
<1>2. q \in PricingPage /\ q.preview = "script" /\ q.asked = deal /\ q.deal = p.deal
  BY <1>1 DEF PricingPage, Discounts
<1>3. [p EXCEPT !.preview = "script", !.asked = deal] = q
  BY DEF u
<1> HIDE DEF q
<1> QED
  BY <1>2, <1>3 DEF PreviewIsPaddles

\* Prices that arrive are of the offer they were asked for.
LEMMA PricesAreShown ==
    ASSUME NEW p \in PricingPage, NEW deployment \in Deployments, PreviewIsPaddles(p, deployment),
           p.preview = "prices"
    PROVE  LET q == [p EXCEPT !.preview = "done", !.regional = TRUE, !.deal = p.asked]
           IN  q \in PricingPage /\ PreviewIsPaddles(q, deployment)
<1> DEFINE u == [p EXCEPT !.preview = "done"]
           v == [u EXCEPT !.regional = TRUE]
           q == [v EXCEPT !.deal = p.asked]
<1>1. u \in PricingPage /\ u.asked = p.asked
  BY DEF PricingPage
<1> HIDE DEF u
<1>2. v \in PricingPage /\ v.asked = p.asked
  BY <1>1 DEF PricingPage
<1> HIDE DEF v
<1>3. q \in PricingPage /\ q.asked = p.asked /\ q.deal = p.asked
  BY <1>2 DEF PricingPage
<1>4. [p EXCEPT !.preview = "done", !.regional = TRUE, !.deal = p.asked] = q
  BY DEF u, v
<1> HIDE DEF q
<1> QED
  BY <1>3, <1>4 DEF PreviewIsPaddles

\* A pricing page that has just been opened, or none.
LEMMA NewPageIsHonest ==
    ASSUME NEW deployment \in Deployments
    PROVE  \A p \in {NewPricing, NoPricing} : p \in PricingPage /\ PreviewIsPaddles(p, deployment)
<1>1. NewPricing \in PricingPage /\ PreviewIsPaddles(NewPricing, deployment)
  BY DEF NewPricing, PricingPage, Discounts, PreviewIsPaddles
<1>2. NoPricing \in PricingPage /\ NoPricing.preview = "config" /\ ~NoPricing.regional
      /\ NoPricing.asked = "none" /\ NoPricing.deal = "none"
  BY <1>1 DEF NoPricing, NewPricing, PricingPage
<1> QED
  BY <1>1, <1>2 DEF PreviewIsPaddles

\* The pricing page reads on: ViewerKnown, ConfigKnown, AskPrices, PricesKnown and
\* FlipToUsd leave the checkout alone.
LEMMA PricingKeeps ==
    ASSUME CheckoutInv, ViewerKnown \/ ConfigKnown \/ AskPrices \/ PricesKnown \/ FlipToUsd
    PROVE  CheckoutInv'
<1> USE DEF CheckoutInv, CheckoutTypeOK
<1>1. UNCHANGED <<setUp, hour, visitor, studentUntil, checkout, quoted, charged, visits>>
  BY DEF ViewerKnown, ConfigKnown, AskPrices, PricesKnown, FlipToUsd, world
<1>2. script' \in {"absent", "loading", "loaded", "failed"}
  BY DEF ViewerKnown, ConfigKnown, AskPrices, PricesKnown, FlipToUsd, LoadScript
<1>3. pricing' \in PricingPage /\ PreviewIsPaddles(pricing', setUp)
  <2>1. CASE ViewerKnown
    <3>1. PICK who \in Visitors : pricing' = [pricing EXCEPT !.viewer = who]
      BY <2>1 DEF ViewerKnown, Visitors
    <3> QED
      BY <3>1, PreviewSteps
  <2>2. CASE ConfigKnown
    <3>1. CASE pricing' = [pricing EXCEPT !.preview = "done"]
      BY <3>1, PreviewSteps
    <3>2. CASE setUp.paddle /\ pricing' = [pricing EXCEPT !.preview = "script", !.asked = Offer]
      <4>1. Offer \in {"none", "launch"} /\ (Offer = "launch" => setUp.offer)
        BY DEF Offer
      <4> QED
        BY <3>2, <4>1, OfferIsAsked
    <3> QED
      BY <2>2, <3>1, <3>2 DEF ConfigKnown
  <2>3. CASE AskPrices
    <3>1. setUp.paddle /\ pricing' = [pricing EXCEPT !.preview = "prices"]
      BY <2>3 DEF AskPrices, PreviewIsPaddles
    <3> QED
      BY <3>1, PreviewSteps
  <2>4. CASE PricesKnown
    <3>1. CASE pricing' = [pricing EXCEPT !.preview = "done"]
      BY <3>1, PreviewSteps
    <3>2. CASE pricing' = [pricing EXCEPT !.preview = "done", !.regional = TRUE, !.deal = pricing.asked]
      <4>1. pricing.preview = "prices"
        BY <2>4 DEF PricesKnown
      <4> QED
        BY <3>2, <4>1, PricesAreShown
    <3> QED
      BY <2>4, <3>1, <3>2 DEF PricesKnown
  <2>5. CASE FlipToUsd
    <3>1. pricing' = [pricing EXCEPT !.usd = ~@]
      BY <2>5 DEF FlipToUsd
    <3> QED
      BY <3>1, PreviewSteps
  <2> QED
    BY <2>1, <2>2, <2>3, <2>4, <2>5
<1>4. QuoteIsLinked' /\ CheckoutIsFair'
  BY <1>1 DEF QuoteIsLinked, CheckoutIsFair, Charged, DiscountIsDue, ChargeIsAsShown
<1> QED
  BY <1>1, <1>2, <1>3, <1>4

\* A page that opens has nothing chosen and nothing charged: OpenPricing, FollowLink.
LEMMA NothingIsCharged ==
    NoQuote \in Quote /\ NoQuote.plan = "none" /\ NoCharge \in Charge /\ NoCharge.provider = "none"
BY DEF NoQuote, Quote, NoCharge, Charge, Discounts

\* The price page asks for its own offer's prices.
LEMMA OpenPricingKeeps == ASSUME CheckoutInv, OpenPricing PROVE CheckoutInv'
<1> USE DEF CheckoutInv, CheckoutTypeOK
<1>1. /\ pricing' = NewPricing /\ checkout' = NoCheckout /\ quoted' = NoQuote /\ charged' = NoCharge
      /\ script' \in {script, "absent"} /\ visits' = visits + 1
      /\ UNCHANGED <<setUp, hour, visitor, studentUntil>>
  BY DEF OpenPricing, world
<1>2. NoCheckout \in CheckoutPage
  BY DEF NoCheckout, CheckoutPage
<1>3. pricing' \in PricingPage /\ PreviewIsPaddles(pricing', setUp)
  BY <1>1, NewPageIsHonest
<1>4. QuoteIsLinked' /\ CheckoutIsFair'
  BY <1>1, NothingIsCharged DEF QuoteIsLinked, CheckoutIsFair, Charged
<1> QED
  BY <1>1, <1>2, <1>3, <1>4, NothingIsCharged

\* The checkout page opens for a plan, with a link's word on the discount.
LEMMA CheckoutOpens ==
    ASSUME NEW plan \in Plans, NEW deal \in BOOLEAN
    PROVE  LET c == [status |-> "loading", awaiting |-> "route", plan |-> plan, deal |-> deal]
           IN  c \in CheckoutPage /\ c.plan = plan /\ c.deal = deal
BY DEF CheckoutPage

\* A link to the checkout carries the plan of its card.
LEMMA FollowLinkKeeps ==
    ASSUME CheckoutInv, NEW plan \in Plans, NEW deal \in BOOLEAN, FollowLink(plan, deal)
    PROVE  CheckoutInv'
<1> USE DEF CheckoutInv, CheckoutTypeOK
<1>1. /\ checkout' = [status |-> "loading", awaiting |-> "route", plan |-> plan, deal |-> deal]
      /\ pricing' = NoPricing /\ quoted' = NoQuote /\ charged' = NoCharge
      /\ script' = "absent" /\ visits' = visits + 1
      /\ UNCHANGED <<setUp, hour, visitor, studentUntil>>
  BY DEF FollowLink, GoToCheckout, world
<1>2. checkout' \in CheckoutPage
  BY <1>1, CheckoutOpens
<1>3. pricing' \in PricingPage /\ PreviewIsPaddles(pricing', setUp)
  BY <1>1, NewPageIsHonest
<1>4. QuoteIsLinked' /\ CheckoutIsFair'
  BY <1>1, NothingIsCharged DEF QuoteIsLinked, CheckoutIsFair, Charged
<1> QED
  BY <1>1, <1>2, <1>3, <1>4, NothingIsCharged

\* A card that is chosen decides what the checkout page is of.
LEMMA ChooseKeeps == ASSUME CheckoutInv, NEW plan \in Plans, Choose(plan) PROVE CheckoutInv'
<1> USE DEF CheckoutInv, CheckoutTypeOK
<1> DEFINE deal == ShownDeal # "none"
           source == IF Regional THEN "paddle" ELSE "static"
<1>1. /\ quoted' = [plan |-> plan, prices |-> source, discount |-> ShownDeal]
      /\ checkout' = [status |-> "loading", awaiting |-> "route", plan |-> plan, deal |-> deal]
      /\ pricing' = NoPricing /\ charged' = NoCharge
      /\ UNCHANGED <<setUp, hour, visitor, studentUntil, script, visits>>
  BY DEF Choose, GoToCheckout, world
<1>2. /\ ShownDeal \in {"none", "launch"}
      /\ source = "paddle" \/ ShownDeal # "none" => setUp.paddle
      /\ ShownDeal = "launch" => setUp.offer
      /\ source \in {"static", "paddle"} /\ deal \in BOOLEAN
  BY DEF ShownDeal, Regional, PreviewIsPaddles
<1> HIDE DEF deal, source
<1>3. checkout' \in CheckoutPage /\ checkout'.plan = plan /\ checkout'.deal = deal
  BY <1>1, <1>2, CheckoutOpens
<1>4. /\ quoted' \in Quote /\ quoted'.plan = plan /\ quoted'.prices = source
      /\ quoted'.discount = ShownDeal
  BY <1>1, <1>2 DEF Quote, Discounts
<1>5. pricing' \in PricingPage /\ PreviewIsPaddles(pricing', setUp)
  BY <1>1, NewPageIsHonest
<1>6. QuoteIsLinked'
  BY <1>1, <1>2, <1>3, <1>4 DEF QuoteIsLinked, deal
<1>7. CheckoutIsFair'
  BY <1>1, NothingIsCharged DEF CheckoutIsFair, Charged
<1> QED
  BY <1>1, <1>3, <1>4, <1>5, <1>6, <1>7, NothingIsCharged

\* The checkout page hears of its route or of the script, and stays the page of the
\* card it came from: another status, and what it waits for.
LEMMA CheckoutAnswers ==
    ASSUME NEW c \in CheckoutPage,
           NEW status \in {"placeholder", "signedout", "opening", "redirecting", "completed", "error"}
    PROVE  /\ LET q == [c EXCEPT !.status = status, !.awaiting = "nothing"]
              IN  q \in CheckoutPage /\ q.plan = c.plan /\ q.deal = c.deal
           /\ LET q == [c EXCEPT !.awaiting = "script"]
              IN  q \in CheckoutPage /\ q.plan = c.plan /\ q.deal = c.deal
           /\ LET q == [c EXCEPT !.awaiting = "nothing", !.status = status]
              IN  q \in CheckoutPage /\ q.plan = c.plan /\ q.deal = c.deal
<1> DEFINE u == [c EXCEPT !.status = status]
           v == [u EXCEPT !.awaiting = "nothing"]
<1>1. u \in CheckoutPage /\ u.plan = c.plan /\ u.deal = c.deal
  BY DEF CheckoutPage
<1>2. v = [c EXCEPT !.status = status, !.awaiting = "nothing"]
      /\ v = [c EXCEPT !.awaiting = "nothing", !.status = status]
  OBVIOUS
<1> HIDE DEF u
<1>3. v \in CheckoutPage /\ v.plan = c.plan /\ v.deal = c.deal
  BY <1>1 DEF CheckoutPage
<1> HIDE DEF v
<1>4. LET q == [c EXCEPT !.awaiting = "script"]
      IN  q \in CheckoutPage /\ q.plan = c.plan /\ q.deal = c.deal
  BY DEF CheckoutPage
<1> QED
  BY <1>2, <1>3, <1>4

\* The provider's script, loaded or not, changes no price.
LEMMA ScriptEndsKeeps == ASSUME CheckoutInv, ScriptEnds PROVE CheckoutInv'
<1> USE DEF CheckoutInv, CheckoutTypeOK
<1>1. /\ script' \in {"loaded", "failed"}
      /\ UNCHANGED <<setUp, hour, visitor, studentUntil, quoted, charged, visits>>
  BY DEF ScriptEnds, world
<1>2. pricing' \in PricingPage /\ PreviewIsPaddles(pricing', setUp)
  <2>1. CASE pricing' = pricing
    BY <2>1
  <2>2. CASE pricing.preview = "script" /\ pricing' = [pricing EXCEPT !.preview = "prices"]
    BY <2>2, PreviewSteps DEF PreviewIsPaddles
  <2>3. CASE pricing' = [pricing EXCEPT !.preview = "done"]
    BY <2>3, PreviewSteps
  <2> QED
    BY <2>1, <2>2, <2>3 DEF ScriptEnds
<1>3. checkout' \in CheckoutPage /\ checkout'.plan = checkout.plan /\ checkout'.deal = checkout.deal
  <2>1. CASE checkout' = checkout
    BY <2>1
  <2>2. CASE checkout' = [checkout EXCEPT !.awaiting = "nothing", !.status = "opening"]
    BY <2>2, CheckoutAnswers
  <2>3. CASE checkout' = [checkout EXCEPT !.awaiting = "nothing", !.status = "error"]
    BY <2>3, CheckoutAnswers
  <2> QED
    BY <2>1, <2>2, <2>3 DEF ScriptEnds
<1>4. QuoteIsLinked'
  BY <1>1, <1>3 DEF QuoteIsLinked
<1>5. CheckoutIsFair'
  BY <1>1 DEF CheckoutIsFair, Charged, DiscountIsDue, ChargeIsAsShown
<1> QED
  BY <1>1, <1>2, <1>3, <1>4, <1>5

\* A checkout that is refused or completes charges what was quoted.
LEMMA AnswerKeeps == ASSUME CheckoutInv, RefusedCheckout \/ Completes PROVE CheckoutInv'
<1> USE DEF CheckoutInv, CheckoutTypeOK
<1>1. /\ UNCHANGED <<setUp, hour, visitor, studentUntil, pricing, quoted, charged, visits>>
      /\ script' \in {script, "absent"}
  BY DEF RefusedCheckout, Completes, world
<1>2. PICK status \in {"placeholder", "signedout", "completed", "error"} :
         checkout' = [checkout EXCEPT !.status = status, !.awaiting = "nothing"]
  BY DEF RefusedCheckout, Completes, Answered
<1>3. checkout' \in CheckoutPage /\ checkout'.plan = checkout.plan /\ checkout'.deal = checkout.deal
  BY <1>2, CheckoutAnswers
<1>4. QuoteIsLinked' /\ CheckoutIsFair'
  BY <1>1, <1>3 DEF QuoteIsLinked, CheckoutIsFair, Charged, DiscountIsDue, ChargeIsAsShown
<1> QED
  BY <1>1, <1>3, <1>4

\* POST /api/checkout: what it charges is due and as it was shown.
LEMMA StartPaystackKeeps == ASSUME CheckoutInv, StartPaystack PROVE CheckoutInv'
<1> USE DEF CheckoutInv, CheckoutTypeOK
<1>1. /\ UNCHANGED <<setUp, hour, visitor, studentUntil, script, pricing, quoted, visits>>
      /\ setUp.paystack
      /\ checkout' = [checkout EXCEPT !.status = "redirecting", !.awaiting = "nothing"]
      /\ charged' = [provider |-> "paystack", plan |-> checkout.plan, discount |-> "none",
                     at |-> hour, student |-> IsStudent]
  BY DEF StartPaystack, InitializeTransaction, Answered, world
<1>2. checkout' \in CheckoutPage /\ checkout'.plan = checkout.plan /\ checkout'.deal = checkout.deal
  BY <1>1, CheckoutAnswers
<1>3. checkout.plan \in Plans \cup {"none"}
  BY DEF CheckoutPage
<1>4. /\ charged' \in Charge /\ charged'.provider = "paystack" /\ charged'.plan = checkout.plan
      /\ charged'.discount = "none"
  BY <1>1, <1>3 DEF Charge, Discounts, IsStudent
<1>5. QuoteIsLinked'
  BY <1>1, <1>2 DEF QuoteIsLinked
<1>6. CheckoutIsFair'
  BY <1>1, <1>4 DEF QuoteIsLinked, CheckoutIsFair, DiscountIsDue, ChargeIsAsShown
<1> QED
  BY <1>1, <1>2, <1>4, <1>5, <1>6

\* Paddle's checkout is opened with what the page was made for.
LEMMA StartPaddleKeeps == ASSUME CheckoutInv, StartPaddle PROVE CheckoutInv'
<1> USE DEF CheckoutInv, CheckoutTypeOK
<1>1. /\ UNCHANGED <<setUp, hour, visitor, studentUntil, pricing, quoted, visits>>
      /\ setUp.paddle /\ ~setUp.paystack
      /\ script' \in {"absent", "loading", "loaded", "failed"}
      /\ \/ checkout' = [checkout EXCEPT !.status = "opening", !.awaiting = "nothing"]
         \/ checkout' = [checkout EXCEPT !.awaiting = "script"]
      /\ charged' = [provider |-> "paddle", plan |-> checkout.plan, discount |-> Discount,
                     at |-> hour, student |-> IsStudent]
  BY DEF StartPaddle, CreateTransaction, Answered, LoadScript, world
<1>2. checkout' \in CheckoutPage /\ checkout'.plan = checkout.plan /\ checkout'.deal = checkout.deal
  BY <1>1, CheckoutAnswers
<1>3. checkout.plan \in Plans \cup {"none"} /\ checkout.deal \in BOOLEAN
  BY DEF CheckoutPage
<1>4. Discount \in Discounts
  BY DEF Discount, Offer, Discounts
<1>5. /\ charged' \in Charge /\ charged'.provider = "paddle" /\ charged'.plan = checkout.plan
      /\ charged'.discount = Discount /\ charged'.at = hour /\ charged'.student = IsStudent
  BY <1>1, <1>3, <1>4 DEF Charge, IsStudent
<1>6. QuoteIsLinked'
  BY <1>1, <1>2 DEF QuoteIsLinked
<1>7. DiscountIsDue'
  BY <1>1, <1>5 DEF DiscountIsDue, Discount, Offer
<1>8. ASSUME quoted.plan # "none"
      PROVE  \/ Discount \in {quoted.discount, "student"}
             \/ quoted.discount = "launch" /\ OfferEnds <= hour
  <2>1. CASE quoted.discount = "none"
    <3>1. ~checkout.deal
      BY <1>8, <1>3, <2>1 DEF QuoteIsLinked
    <3> QED
      BY <2>1, <3>1 DEF Discount
  <2>2. CASE quoted.discount # "none"
    <3>1. quoted.discount = "launch" /\ checkout.deal /\ setUp.offer
      BY <1>8, <1>3, <2>2 DEF QuoteIsLinked
    <3>2. OfferEnds \in Nat /\ hour \in Nat
      BY CheckoutAssumption
    <3>3. Discount \in {"student", Offer}
      BY <3>1 DEF Discount
    <3>4. Offer = "launch" \/ OfferEnds <= hour
      BY <3>1, <3>2 DEF Offer
    <3> QED
      BY <3>1, <3>3, <3>4
  <2> QED
    BY <2>1, <2>2
<1>9. ChargeIsAsShown'
  BY <1>1, <1>5, <1>8 DEF ChargeIsAsShown, QuoteIsLinked
<1> QED
  BY <1>1, <1>2, <1>5, <1>6, <1>7, <1>9 DEF CheckoutIsFair

\* Offers that end and statuses that lapse change no page that is open.
LEMMA WorldKeeps == ASSUME CheckoutInv, HourPasses \/ VerifyStudent \/ VisitorChanges PROVE CheckoutInv'
<1> USE DEF CheckoutInv, CheckoutTypeOK
<1>1. UNCHANGED <<setUp, script, pricing, checkout, quoted, charged, visits>>
  BY DEF HourPasses, VerifyStudent, VisitorChanges
<1>2. hour' \in Nat /\ visitor' \in Visitors /\ studentUntil' \in Nat
  BY CheckoutAssumption DEF HourPasses, VerifyStudent, VisitorChanges
<1>3. QuoteIsLinked' /\ CheckoutIsFair'
  BY <1>1 DEF QuoteIsLinked, CheckoutIsFair, Charged, DiscountIsDue, ChargeIsAsShown
<1> QED
  BY <1>1, <1>2, <1>3

\* The strengthened invariant of buying Pro holds in every state.
THEOREM CheckoutInvariant == CheckoutSpec => []CheckoutInv
<1>1. ASSUME CheckoutInit PROVE CheckoutInv
  <2> USE <1>1 DEF CheckoutInit
  <2>1. NoCheckout \in CheckoutPage
    BY DEF NoCheckout, CheckoutPage
  <2>2. pricing \in PricingPage /\ PreviewIsPaddles(pricing, setUp)
    BY NewPageIsHonest
  <2>3. QuoteIsLinked /\ CheckoutIsFair
    BY NothingIsCharged DEF QuoteIsLinked, CheckoutIsFair, Charged
  <2>4. CheckoutTypeOK
    BY <2>1, <2>2, NothingIsCharged DEF CheckoutTypeOK
  <2> QED
    BY <2>2, <2>3, <2>4 DEF CheckoutInv
<1>2. ASSUME CheckoutInv, [CheckoutNext]_checkoutVars PROVE CheckoutInv'
  <2>1. CASE UNCHANGED checkoutVars
    BY <1>2, <2>1 DEF CheckoutInv, CheckoutTypeOK, QuoteIsLinked, CheckoutIsFair, Charged, DiscountIsDue,
                      ChargeIsAsShown, checkoutVars
  <2>2. CASE CheckoutNext
    BY <1>2, <2>2, PricingKeeps, OpenPricingKeeps, FollowLinkKeeps, ChooseKeeps, ScriptEndsKeeps,
       AnswerKeeps, StartPaystackKeeps, StartPaddleKeeps, WorldKeeps DEF CheckoutNext
  <2> QED
    BY <1>2, <2>1, <2>2
<1> QED
  BY <1>1, <1>2, PTL DEF CheckoutSpec

-----------------------------------------------------------------------------

\* What a request that resolves an entitlement knows: it has met every team with a
\* live seat, and a seat that was live all along still is.
Reads == {"own", "membership", "team"}

SeatsAreMet(a) ==
    /\ a.seated \subseteq a.met
    /\ a.stage \in Reads =>
         /\ a.read = "free"
         /\ \A t \in Teams : seat[t] = "active" => t \in a.met
         /\ \A t \in a.seated : seat[t] = "active" /\ ResolveTeam(team[t], a.at) = "pro"
    /\ a.stage = "team" => a.picked \in a.met /\ a.picked \in Teams

\* The cancel page offers what the provider it was drawn for can do.
OffersCanBeHad ==
    /\ cancelling.offers # {} => "downgrade" \in cancelling.offers
    /\ deployed # "paddle" => cancelling.offers \subseteq {"downgrade"}
    /\ cancelling.busy = "none" \/ cancelling.busy \in cancelling.offers

AccessInv ==
    /\ AccessTypeOK /\ SeatsAreMet(asking) /\ SeatsAreHonoured
    /\ OffersCanBeHad /\ OffersAreReal

-----------------------------------------------------------------------------

\* A page of the save offers is one whatever is offered, asked for or done.
LEMMA CancelSteps ==
    ASSUME NEW c \in Cancelling
    PROVE  /\ \A offer \in Offers :
                [c EXCEPT !.busy = offer, !.note = "none"] \in Cancelling
           /\ \A offer \in Offers :
                [c EXCEPT !.busy = "none", !.done = offer, !.told = @ \cup {offer}] \in Cancelling
           /\ \A note \in {"notlive", "failed"} : [c EXCEPT !.busy = "none", !.note = note] \in Cancelling
           /\ \A offers \in SUBSET Offers : [NoCancelling EXCEPT !.offers = offers] \in Cancelling
<1>1. ASSUME NEW offer \in Offers PROVE [c EXCEPT !.busy = offer, !.note = "none"] \in Cancelling
  BY DEF Cancelling
<1>2. ASSUME NEW offer \in Offers
      PROVE  [c EXCEPT !.busy = "none", !.done = offer, !.told = @ \cup {offer}] \in Cancelling
  BY DEF Cancelling
<1>3. ASSUME NEW note \in {"notlive", "failed"} PROVE [c EXCEPT !.busy = "none", !.note = note] \in Cancelling
  BY DEF Cancelling
<1>4. ASSUME NEW offers \in SUBSET Offers PROVE [NoCancelling EXCEPT !.offers = offers] \in Cancelling
  BY DEF Cancelling, NoCancelling
<1> QED
  BY <1>1, <1>2, <1>3, <1>4

\* The save flow: OpenCancel, ChooseOffer, ChangePlan.
LEMMA CancellingKeeps ==
    ASSUME AccessInv, OpenCancel \/ (\E offer \in Offers : ChooseOffer(offer)) \/ ChangePlan
    PROVE  AccessInv'
<1> USE DEF AccessInv, AccessTypeOK
<1>1. UNCHANGED <<date, deployed, own, team, seat, asking, writes>>
  BY DEF OpenCancel, ChooseOffer, ChangePlan
<1>2. SeatsAreMet(asking)' /\ SeatsAreHonoured'
  BY <1>1 DEF SeatsAreMet, SeatsAreHonoured
<1>3. cancelling' \in Cancelling /\ OffersCanBeHad' /\ OffersAreReal'
  <2> USE DEF OffersCanBeHad, OffersAreReal
  <2>1. CASE OpenCancel
    <3>1. /\ PlanSaveOffers \subseteq Offers /\ "downgrade" \in PlanSaveOffers
          /\ deployed # "paddle" => PlanSaveOffers \subseteq {"downgrade"}
      BY <2>1 DEF OpenCancel, PlanSaveOffers, Offers
    <3>2. cancelling' = [NoCancelling EXCEPT !.offers = PlanSaveOffers]
      BY <2>1 DEF OpenCancel
    <3>3. cancelling' \in Cancelling
      BY <3>1, <3>2, CancelSteps
    <3>4. /\ cancelling'.offers = PlanSaveOffers /\ cancelling'.busy = "none"
          /\ cancelling'.done = "none" /\ cancelling'.note = "none"
      BY <3>2 DEF NoCancelling
    <3> QED
      BY <3>1, <3>3, <3>4, <1>1
  <2>2. ASSUME NEW offer \in Offers, ChooseOffer(offer)
        PROVE  cancelling' \in Cancelling /\ OffersCanBeHad' /\ OffersAreReal'
    <3>1. cancelling' = [cancelling EXCEPT !.busy = offer, !.note = "none"]
          /\ offer \in cancelling.offers
      BY <2>2 DEF ChooseOffer
    <3>2. cancelling' \in Cancelling
      BY <3>1, CancelSteps
    <3>3. /\ cancelling'.offers = cancelling.offers /\ cancelling'.busy = offer
          /\ cancelling'.done = cancelling.done /\ cancelling'.note = "none"
          /\ cancelling'.told = cancelling.told
      BY <3>1 DEF Cancelling
    <3> QED
      BY <3>1, <3>2, <3>3, <1>1
  <2>3. CASE ChangePlan
    <3>1. cancelling.busy \in Offers /\ cancelling.busy \in cancelling.offers
      BY <2>3 DEF ChangePlan, Cancelling
    <3>2. CASE cancelling' = [cancelling EXCEPT !.busy = "none", !.done = cancelling.busy,
                                                !.told = @ \cup {cancelling.busy}]
      <4>1. cancelling' \in Cancelling
        BY <3>1, <3>2, CancelSteps
      <4>2. /\ cancelling'.offers = cancelling.offers /\ cancelling'.busy = "none"
            /\ cancelling'.done = cancelling.busy /\ cancelling'.note = cancelling.note
            /\ cancelling'.told = cancelling.told \cup {cancelling.busy}
        BY <3>2 DEF Cancelling
      <4> QED
        BY <4>1, <4>2, <1>1
    <3>3. CASE deployed = "paystack" /\ cancelling.busy # "downgrade"
      BY <3>1, <3>3
    <3>4. CASE cancelling' = [cancelling EXCEPT !.busy = "none", !.note = "failed"]
      <4>1. cancelling' \in Cancelling
        BY <3>4, CancelSteps
      <4>2. /\ cancelling'.offers = cancelling.offers /\ cancelling'.busy = "none"
            /\ cancelling'.done = cancelling.done /\ cancelling'.note = "failed"
            /\ cancelling'.told = cancelling.told
        BY <3>4 DEF Cancelling
      <4> QED
        BY <4>1, <4>2, <1>1
    <3> QED
      BY <2>3, <3>2, <3>3, <3>4 DEF ChangePlan
  <2> QED
    BY <2>1, <2>2, <2>3
<1> QED
  BY <1>1, <1>2, <1>3

\* getEntitlement() reads on: where it answers without having failed, a learner
\* whose seats are all live has been given one of them.
LEMMA AskingKeeps ==
    ASSUME AccessInv, StartAsking \/ ReadOwn \/ ReadMembership \/ ReadTeam \/ TeamsFail
    PROVE  AccessInv'
<1> USE DEF AccessInv, AccessTypeOK
<1>1. UNCHANGED <<date, deployed, own, team, seat, cancelling, writes>>
  BY DEF StartAsking, ReadOwn, ReadMembership, ReadTeam, TeamsFail
<1>2. OffersCanBeHad' /\ OffersAreReal'
  BY <1>1 DEF OffersCanBeHad, OffersAreReal
<1>3. ASSUME NEW q \in Asking, asking' = q, SeatsAreMet(q),
             q.stage = "answered" =>
                /\ q.read # "free" => q.answer = q.read
                /\ q.seated # {} /\ q.met = q.seated /\ ~q.failed => q.answer # "free"
      PROVE  AccessInv'
  <2>1. SeatsAreMet(asking)' /\ SeatsAreHonoured'
    BY <1>1, <1>3 DEF SeatsAreMet, SeatsAreHonoured
  <2> QED
    BY <1>1, <1>2, <1>3, <2>1
<1>4. ASSUME NEW value \in Answers, asking.stage \in Reads, asking' = [asking EXCEPT !.stage = "answered", !.answer = value],
             asking.read # "free" => value = asking.read,
             asking.seated # {} /\ asking.met = asking.seated => value # "free"
      PROVE  AccessInv'
  <2> DEFINE q == [asking EXCEPT !.stage = "answered", !.answer = value]
  <2>1. /\ q \in Asking /\ q.stage = "answered" /\ q.answer = value /\ q.read = asking.read
        /\ q.seated = asking.seated /\ q.met = asking.met
    BY DEF Asking
  <2>2. asking' = q
    BY <1>4
  <2> HIDE DEF q
  <2>3. SeatsAreMet(q)
    BY <2>1 DEF SeatsAreMet, Reads
  <2> QED
    BY <1>3, <1>4, <2>1, <2>2, <2>3
<1>5. CASE StartAsking
  <2> DEFINE met == {t \in Teams : seat[t] = "active"}
             q == [NoAsking EXCEPT !.stage = "own", !.at = date, !.seated = Seated(date), !.met = met]
  <2>1. asking' = q
    BY <1>5 DEF StartAsking
  <2>2. Seated(date) \subseteq met /\ met \subseteq Teams
    BY DEF Seated
  <2>3. \A t \in Seated(date) : seat[t] = "active" /\ ResolveTeam(team[t], date) = "pro"
    BY DEF Seated
  <2>4. /\ q \in Asking /\ q.stage = "own" /\ q.at = date /\ q.read = "free"
        /\ q.seated = Seated(date) /\ q.met = met
    <3> DEFINE u == [NoAsking EXCEPT !.stage = "own"]
               v == [u EXCEPT !.at = date]
               w == [v EXCEPT !.seated = Seated(date)]
    <3>1. q = [w EXCEPT !.met = met]
      OBVIOUS
    <3> HIDE DEF met, q
    <3>2. u \in Asking /\ u.stage = "own" /\ u.read = "free"
      BY DEF NoAsking, Asking, Answers
    <3> HIDE DEF u
    <3>3. v \in Asking /\ v.stage = "own" /\ v.read = "free" /\ v.at = date
      BY <3>2 DEF Asking
    <3> HIDE DEF v
    <3>4. w \in Asking /\ w.stage = "own" /\ w.read = "free" /\ w.at = date /\ w.seated = Seated(date)
      BY <2>2, <3>3 DEF Asking
    <3> HIDE DEF w
    <3> QED
      BY <2>2, <3>1, <3>4 DEF Asking
  <2>5. \A t \in Teams : seat[t] = "active" => t \in met
    OBVIOUS
  <2> HIDE DEF q, met
  <2>6. SeatsAreMet(q)
    BY <2>2, <2>3, <2>4, <2>5 DEF SeatsAreMet
  <2> QED
    BY <1>3, <2>1, <2>4, <2>6
<1>6. CASE ReadOwn
  <2>1. PICK value \in {Resolve(own, asking.at), "free"} :
           asking' = [asking EXCEPT !.stage = IF value = "free" THEN "membership" ELSE "answered",
                                    !.read = value, !.answer = value]
    BY <1>6 DEF ReadOwn
  <2>2. value \in Answers /\ asking.stage = "own"
    BY <1>6 DEF ReadOwn, Resolve, Answers
  <2> DEFINE next == IF value = "free" THEN "membership" ELSE "answered"
             u == [asking EXCEPT !.stage = next]
             v == [u EXCEPT !.read = value]
             q == [v EXCEPT !.answer = value]
  <2>3. next \in {"membership", "answered"} /\ (next = "membership" <=> value = "free")
    OBVIOUS
  <2> HIDE DEF next
  <2>4. /\ u \in Asking /\ u.stage = next /\ u.at = asking.at
        /\ u.seated = asking.seated /\ u.met = asking.met
    BY <2>3 DEF Asking
  <2> HIDE DEF u
  <2>5. /\ v \in Asking /\ v.stage = next /\ v.at = asking.at /\ v.read = value
        /\ v.seated = asking.seated /\ v.met = asking.met
    BY <2>2, <2>4 DEF Asking
  <2> HIDE DEF v
  <2>6. /\ q \in Asking /\ q.stage = next /\ q.at = asking.at /\ q.read = value /\ q.answer = value
        /\ q.seated = asking.seated /\ q.met = asking.met
    BY <2>2, <2>5 DEF Asking
  <2>7. asking' = q
    BY <2>1 DEF u, v, next
  <2> HIDE DEF q
  <2>8. SeatsAreMet(q)
    BY <2>2, <2>3, <2>6 DEF SeatsAreMet, Reads
  <2> QED
    BY <1>3, <2>3, <2>6, <2>7, <2>8
<1>7. CASE ReadMembership
  <2> DEFINE members == {t \in Teams : seat[t] = "active"}
  <2>1. asking.stage = "membership" /\ asking.read = "free" /\ asking.seated \subseteq members
        /\ members \subseteq asking.met
    BY <1>7 DEF ReadMembership, SeatsAreMet, Reads, Asking
  <2>2. CASE members = {}
    <3>1. asking' = [asking EXCEPT !.stage = "answered", !.answer = asking.read]
      BY <1>7, <2>2 DEF ReadMembership, Answer
    <3>2. asking.seated = {} /\ asking.read \in Answers
      BY <2>1, <2>2 DEF Asking
    <3> QED
      BY <1>4, <2>1, <3>1, <3>2 DEF Reads
  <2>3. CASE members # {}
    <3>1. PICK t \in members : asking' = [asking EXCEPT !.stage = "team", !.picked = t]
      BY <1>7, <2>3 DEF ReadMembership
    <3> DEFINE u == [asking EXCEPT !.stage = "team"]
               q == [u EXCEPT !.picked = t]
    <3>2. t \in Teams /\ t \in asking.met
      BY <2>1
    <3> HIDE DEF members
    <3>3. /\ u \in Asking /\ u.stage = "team" /\ u.at = asking.at /\ u.read = asking.read
          /\ u.seated = asking.seated /\ u.met = asking.met
      BY DEF Asking
    <3> HIDE DEF u
    <3>4. /\ q \in Asking /\ q.stage = "team" /\ q.at = asking.at /\ q.read = asking.read
          /\ q.seated = asking.seated /\ q.met = asking.met /\ q.picked = t
      BY <3>2, <3>3 DEF Asking
    <3>5. asking' = q
      BY <3>1 DEF u
    <3> HIDE DEF q
    <3>6. SeatsAreMet(q)
      BY <2>1, <3>2, <3>4 DEF SeatsAreMet, Reads
    <3> QED
      BY <1>3, <3>4, <3>5, <3>6
  <2> QED
    BY <2>2, <2>3
<1>8. CASE ReadTeam
  <2> DEFINE value == IF seat[asking.picked] = "active"
                      THEN MaxEntitlement(asking.read, ResolveTeam(team[asking.picked], asking.at))
                      ELSE asking.read
  <2>1. asking.stage = "team" /\ asking.read = "free" /\ asking.picked \in asking.met
    BY <1>8 DEF ReadTeam, SeatsAreMet, Reads
  <2>2. value \in Answers
    BY <2>1 DEF MaxEntitlement, ResolveTeam, Answers
  <2>3. asking' = [asking EXCEPT !.stage = "answered", !.answer = value]
    BY <1>8 DEF ReadTeam, Answer
  <2>4. ASSUME asking.met = asking.seated PROVE value # "free"
    <3>1. seat[asking.picked] = "active" /\ ResolveTeam(team[asking.picked], asking.at) = "pro"
      BY <2>1, <2>4 DEF SeatsAreMet, Reads
    <3> QED
      BY <2>1, <3>1 DEF MaxEntitlement
  <2> HIDE DEF value
  <2> QED
    BY <1>4, <2>1, <2>2, <2>3, <2>4 DEF Reads
<1>9. CASE TeamsFail
  <2>1. asking.stage \in {"membership", "team"}
        /\ asking' = [asking EXCEPT !.stage = "answered", !.answer = asking.read, !.failed = TRUE]
    BY <1>9 DEF TeamsFail
  <2> DEFINE u == [asking EXCEPT !.stage = "answered"]
             v == [u EXCEPT !.answer = asking.read]
             q == [v EXCEPT !.failed = TRUE]
  <2>2. /\ u \in Asking /\ u.stage = "answered" /\ u.read = asking.read
        /\ u.seated = asking.seated /\ u.met = asking.met
    BY DEF Asking
  <2> HIDE DEF u
  <2>3. /\ v \in Asking /\ v.stage = "answered" /\ v.read = asking.read /\ v.answer = asking.read
        /\ v.seated = asking.seated /\ v.met = asking.met
    BY <2>2 DEF Asking
  <2> HIDE DEF v
  <2>4. /\ q \in Asking /\ q.stage = "answered" /\ q.read = asking.read /\ q.answer = asking.read
        /\ q.seated = asking.seated /\ q.met = asking.met /\ q.failed
    BY <2>3 DEF Asking
  <2>5. asking' = q
    BY <2>1 DEF u, v
  <2> HIDE DEF q
  <2>6. SeatsAreMet(q)
    BY <2>4 DEF SeatsAreMet, Reads
  <2> QED
    BY <1>3, <2>4, <2>5, <2>6
<1> QED
  BY <1>5, <1>6, <1>7, <1>8, <1>9

\* Rows are written while a request reads: TeamWritten, SeatWritten.
LEMMA HeardKeeps ==
    ASSUME AccessInv, Heard, team' \in [Teams -> TeamRow], seat' \in [Teams -> Seats], writes' \in Nat,
           UNCHANGED <<date, deployed, own, cancelling>>
    PROVE  AccessInv'
<1> USE DEF AccessInv, AccessTypeOK
<1> DEFINE seated == {t \in asking.seated : seat'[t] = "active"
                                            /\ ResolveTeam(team'[t], asking.at) = "pro"}
           met == asking.met \cup {t \in Teams : seat'[t] = "active"}
           u == [asking EXCEPT !.seated = seated]
           q == [u EXCEPT !.met = met]
<1>1. asking' = q
  BY DEF Heard
<1>2. /\ seated \subseteq asking.seated /\ asking.met \subseteq met /\ met \subseteq Teams
      /\ seated \subseteq Teams
      /\ \A t \in Teams : seat'[t] = "active" => t \in met
      /\ \A t \in seated : seat'[t] = "active" /\ ResolveTeam(team'[t], asking.at) = "pro"
  BY DEF Asking
<1> HIDE DEF seated, met
<1>3. /\ u \in Asking /\ u.stage = asking.stage /\ u.at = asking.at /\ u.read = asking.read
      /\ u.picked = asking.picked /\ u.answer = asking.answer /\ u.failed = asking.failed
      /\ u.seated = seated
  BY <1>2 DEF Asking
<1> HIDE DEF u
<1>4. /\ q \in Asking /\ q.stage = asking.stage /\ q.at = asking.at /\ q.read = asking.read
      /\ q.picked = asking.picked /\ q.answer = asking.answer /\ q.failed = asking.failed
      /\ q.seated = seated /\ q.met = met
  BY <1>2, <1>3 DEF Asking
<1> HIDE DEF q
<1>5. SeatsAreMet(asking)'
  BY <1>1, <1>2, <1>4 DEF SeatsAreMet
<1>6. SeatsAreHonoured'
  <2>1. asking.seated \subseteq asking.met
    BY DEF SeatsAreMet
  <2>2. met = seated => asking.met = asking.seated /\ seated = asking.seated
    BY <1>2, <2>1
  <2> QED
    BY <1>1, <1>4, <2>2 DEF SeatsAreHonoured
<1>7. OffersCanBeHad' /\ OffersAreReal'
  BY DEF OffersCanBeHad, OffersAreReal
<1> QED
  BY <1>1, <1>4, <1>5, <1>6, <1>7

\* The strengthened invariant of access holds in every state.
THEOREM AccessInvariant == AccessSpec => []AccessInv
<1>1. ASSUME AccessInit PROVE AccessInv
  <2> USE <1>1 DEF AccessInit
  <2>1. NoAsking \in Asking /\ NoAsking.stage = "none" /\ NoAsking.seated = {}
    BY DEF NoAsking, Asking, Answers
  <2>2. NoCancelling \in Cancelling /\ NoCancelling.offers = {} /\ NoCancelling.busy = "none"
        /\ NoCancelling.done = "none" /\ NoCancelling.note = "none"
    BY DEF NoCancelling, Cancelling
  <2>3. own \in OwnRow
    BY DEF OwnRow, Lifecycle, EndDates
  <2>4. team \in [Teams -> TeamRow]
    <3>1. 1 \in EndDates
      BY AccessAssumption DEF EndDates
    <3> QED
      BY <3>1 DEF TeamRow, Lifecycle
  <2> QED
    BY <2>1, <2>2, <2>3, <2>4 DEF AccessInv, AccessTypeOK, SeatsAreMet, Reads, SeatsAreHonoured,
                                  OffersCanBeHad, OffersAreReal, Seats
<1>2. ASSUME AccessInv, [AccessNext]_accessVars PROVE AccessInv'
  <2> USE <1>2
  <2>1. CASE UNCHANGED accessVars
    BY <2>1 DEF AccessInv, AccessTypeOK, SeatsAreMet, SeatsAreHonoured, OffersCanBeHad, OffersAreReal, accessVars
  <2>2. CASE StartAsking \/ ReadOwn \/ ReadMembership \/ ReadTeam \/ TeamsFail
    BY <2>2, AskingKeeps
  <2>3. CASE OpenCancel \/ (\E offer \in Offers : ChooseOffer(offer)) \/ ChangePlan
    BY <2>3, CancellingKeeps
  <2>4. CASE OwnWritten \/ DayPasses
    <3>1. /\ UNCHANGED <<deployed, team, seat, asking, cancelling>>
          /\ date' \in Nat /\ own' \in OwnRow /\ writes' \in Nat
      BY <2>4 DEF OwnWritten, DayPasses, Written, AccessInv, AccessTypeOK
    <3> QED
      BY <3>1 DEF AccessInv, AccessTypeOK, SeatsAreMet, SeatsAreHonoured, OffersCanBeHad, OffersAreReal
  <2>5. ASSUME NEW t \in Teams, TeamWritten(t) PROVE AccessInv'
    <3>1. /\ team' \in [Teams -> TeamRow] /\ seat' \in [Teams -> Seats] /\ writes' \in Nat
          /\ UNCHANGED <<date, deployed, own, cancelling>> /\ Heard
      BY <2>5 DEF TeamWritten, Written, AccessInv, AccessTypeOK
    <3> QED
      BY <3>1, HeardKeeps
  <2>6. ASSUME NEW t \in Teams, SeatWritten(t) PROVE AccessInv'
    <3>1. /\ team' \in [Teams -> TeamRow] /\ seat' \in [Teams -> Seats] /\ writes' \in Nat
          /\ UNCHANGED <<date, deployed, own, cancelling>> /\ Heard
      BY <2>6 DEF SeatWritten, Written, AccessInv, AccessTypeOK
    <3> QED
      BY <3>1, HeardKeeps
  <2> QED
    BY <2>1, <2>2, <2>3, <2>4, <2>5, <2>6 DEF AccessNext
<1> QED
  BY <1>1, <1>2, PTL DEF AccessSpec

\* What is charged is what the card showed and what is due, at any hour the offer
\* ends or a student's status lapses; and what is paid for is had, whatever rows are
\* written between the reads of a request (api/checkout/route.ts,
\* lib/entitlements/server.ts and policy.ts).
THEOREM PayingStaysFair == PayingSpec => []PaymentIsFair
<1>1. CheckoutInv => CheckoutIsFair
  BY DEF CheckoutInv
<1>2. ASSUME AccessInv PROVE AccessIsAsPaid
  <2>1. own.until \in EndDates /\ own.status \in Lifecycle
    BY <1>2 DEF AccessInv, AccessTypeOK, OwnRow
  <2>2. own.until # NoEnd => Over(own, LastAccessDay + 1)
    BY <2>1, AccessAssumption DEF EndDates, Over, NoEnd
  <2>3. ProEnds
    BY <2>1, <2>2 DEF ProEnds, Resolve
  <2> QED
    BY <1>2, <2>3 DEF AccessInv, AccessIsAsPaid
<1>3. CheckoutIsFair /\ AccessIsAsPaid => PaymentIsFair
  BY DEF PaymentIsFair
<1> QED
  BY <1>1, <1>2, <1>3, CheckoutInvariant, AccessInvariant, PTL DEF PayingSpec

-----------------------------------------------------------------------------
\* The focus timer.

\* A transaction of the timer keeps the record's type, whenever it was asked for
\* and however much later it is granted.
LEMMA AdvanceType ==
    ASSUME NEW r \in FocusRecord, NEW action \in {"tick", "start", "pause", "reset"}, NEW now \in 0 .. End
    PROVE  AdvanceFocus(r, action, now) \in FocusRecord
<1> DEFINE t == TickFocus(r, now)
<1>1. Session \in Nat /\ DayLength \in Nat /\ LastDay \in Nat /\ End \in Nat
  BY FocusAssumption DEF End
<1>2. t \in FocusRecord
  <2>1. CASE ~(r.accountedAt # Never /\ r.accountedAt <= now)
    BY <2>1 DEF TickFocus, Credits
  <2>2. CASE r.accountedAt # Never /\ r.accountedAt <= now
    <3> DEFINE used == Used(r, now)
               secondsOn(d) == r.focusByDay[d] + Overlap(r.accountedAt, r.accountedAt + used, d)
               isFirstOf(d) == Overlap(r.accountedAt, r.accountedAt + used, d) > 0 /\ r.focusByDay[d] = 0
               practiceOn(d) == r.activity[d] + (IF isFirstOf(d) THEN 1 ELSE 0)
    <3>1. r.accountedAt \in 0 .. End /\ r.remaining \in 0 .. Session /\ r.focusSeconds \in Nat
      BY <2>2 DEF FocusRecord
    <3>2. /\ used \in Nat /\ used <= r.remaining
          /\ r.accountedAt + used \in 0 .. End
      BY <1>1, <2>2, <3>1 DEF Used, Lower
    <3>3. ASSUME NEW d \in Days PROVE Overlap(r.accountedAt, r.accountedAt + used, d) \in Nat
      <4>1. d \in Nat /\ (d + 1) * DayLength \in Nat /\ d * DayLength \in Nat
        BY <1>1 DEF Days
      <4> HIDE DEF used
      <4> QED
        BY <3>1, <3>2, <4>1 DEF Overlap, Higher, Lower
    <3>4. ASSUME NEW d \in Days PROVE secondsOn(d) \in Nat /\ practiceOn(d) \in Nat
      <4>1. r.focusByDay[d] \in Nat /\ r.activity[d] \in Nat
        BY DEF FocusRecord
      <4>2. Overlap(r.accountedAt, r.accountedAt + used, d) \in Nat
        BY <3>3
      <4> HIDE DEF used
      <4> QED
        BY <4>1, <4>2
    <3>5. t = [remaining |-> r.remaining - used,
               accountedAt |-> IF r.remaining = used THEN Never ELSE r.accountedAt + used,
               focusByDay |-> [d \in Days |-> secondsOn(d)],
               activity |-> [d \in Days |-> practiceOn(d)],
               focusSeconds |-> r.focusSeconds + used]
      BY <2>2 DEF TickFocus, Credits, Credit
    <3>6. /\ [d \in Days |-> secondsOn(d)] \in [Days -> Nat]
          /\ [d \in Days |-> practiceOn(d)] \in [Days -> Nat]
      BY <3>4
    <3>7. r.remaining - used \in 0 .. Session /\ r.focusSeconds + used \in Nat
      BY <1>1, <3>1, <3>2
    <3> HIDE DEF used, secondsOn, practiceOn, t
    <3> QED
      BY <3>2, <3>5, <3>6, <3>7 DEF FocusRecord
  <2> QED
    BY <2>1, <2>2
<1> HIDE DEF t
<1>3. /\ [t EXCEPT !.accountedAt = Never] \in FocusRecord
      /\ [t EXCEPT !.accountedAt = now] \in FocusRecord
  BY <1>1, <1>2 DEF FocusRecord
<1>4. [t EXCEPT !.accountedAt = now, !.remaining = IF @ = 0 THEN Session ELSE @] \in FocusRecord
  <2> DEFINE u == [t EXCEPT !.accountedAt = now]
             left == IF u.remaining = 0 THEN Session ELSE u.remaining
  <2>1. u \in FocusRecord
    BY <1>3
  <2>2. left \in 0 .. Session
    BY <1>1, <2>1 DEF FocusRecord
  <2>3. [t EXCEPT !.accountedAt = now, !.remaining = IF @ = 0 THEN Session ELSE @]
          = [u EXCEPT !.remaining = left]
    BY <1>2 DEF FocusRecord
  <2> HIDE DEF u, left
  <2> QED
    BY <2>1, <2>2, <2>3 DEF FocusRecord
<1>5. [t EXCEPT !.accountedAt = Never, !.remaining = Session] \in FocusRecord
  <2> DEFINE u == [t EXCEPT !.accountedAt = Never]
  <2>1. u \in FocusRecord
    BY <1>3
  <2>2. [t EXCEPT !.accountedAt = Never, !.remaining = Session] = [u EXCEPT !.remaining = Session]
    BY <1>2 DEF FocusRecord
  <2>3. Session \in 0 .. Session
    BY <1>1
  <2> HIDE DEF u
  <2> QED
    BY <2>1, <2>2, <2>3 DEF FocusRecord
<1> QED
  BY <1>2, <1>3, <1>4, <1>5 DEF AdvanceFocus, t

\* No tab waits twice, so that no more wait than there are.
OneCallPerTab == \A i, j \in 1 .. Len(asked) : asked[i].tab = asked[j].tab => i = j

\* Hence no more calls wait than there are tabs.
LEMMA WaitingIsBounded ==
    ASSUME asked \in Seq(FocusCall), OneCallPerTab
    PROVE  Len(asked) <= Cardinality(FocusTabs)
<1> DEFINE f == [i \in 1 .. Len(asked) |-> asked[i].tab]
<1>1. IsFiniteSet(FocusTabs)
  BY FocusAssumption
<1>2. Len(asked) \in Nat
  OBVIOUS
<1>3. f \in Injection(1 .. Len(asked), FocusTabs)
  <2>1. \A i \in 1 .. Len(asked) : asked[i] \in FocusCall
    BY ElementOfSeq
  <2> QED
    BY <2>1 DEF FocusCall, Injection, IsInjective, OneCallPerTab
<1> HIDE DEF f
<1>4. Cardinality(1 .. Len(asked)) <= Cardinality(FocusTabs)
  BY <1>1, <1>3, FS_Injection
<1>5. Cardinality(1 .. Len(asked)) = Len(asked)
  BY <1>2, FS_Interval
<1> QED
  BY <1>4, <1>5

FocusInv == FocusTypeOK /\ OneCallPerTab

\* A call that is gone leaves the others, each of its own tab.
LEMMA CallIsGone ==
    ASSUME asked \in Seq(FocusCall), OneCallPerTab, NEW i \in 1 .. Len(asked), asked' = RemoveAt(asked, i)
    PROVE  asked' \in Seq(FocusCall) /\ OneCallPerTab'
<1>1. /\ asked' \in Seq(FocusCall) /\ Len(asked') = Len(asked) - 1
      /\ \A j \in 1 .. Len(asked) - 1 : asked'[j] = asked[IF j < i THEN j ELSE j + 1]
  BY OneIsRemoved
<1>2. ASSUME NEW j \in 1 .. Len(asked'), NEW k \in 1 .. Len(asked'), asked'[j].tab = asked'[k].tab
      PROVE  j = k
  <2> DEFINE at(m) == IF m < i THEN m ELSE m + 1
  <2>1. Len(asked) \in Nat /\ i \in Nat /\ j \in Nat /\ k \in Nat
    OBVIOUS
  <2>2. asked'[j] = asked[at(j)] /\ asked'[k] = asked[at(k)]
    BY <1>1
  <2>3. at(j) \in 1 .. Len(asked) /\ at(k) \in 1 .. Len(asked)
    BY <1>1, <2>1
  <2>4. at(j) = at(k)
    <3> HIDE DEF at
    <3> QED
      BY <1>2, <2>2, <2>3 DEF OneCallPerTab
  <2> QED
    BY <2>1, <2>4
<1> QED
  BY <1>1, <1>2 DEF OneCallPerTab

\* What is credited ends at the call, at the latest.
LEMMA CreditsEnd ==
    ASSUME NEW r \in FocusRecord, NEW now \in 0 .. End, Credits(r, now)
    PROVE  /\ r.accountedAt \in Nat /\ Used(r, now) \in Nat
           /\ r.accountedAt + Used(r, now) \in Nat /\ r.accountedAt + Used(r, now) <= now
<1>1. Session \in Nat /\ End \in Nat
  BY FocusAssumption DEF End
<1>2. r.accountedAt \in Nat /\ r.accountedAt <= now /\ r.remaining \in Nat /\ now \in Nat
  BY <1>1 DEF Credits, FocusRecord
<1> QED
  BY <1>2 DEF Used, Lower

\* The timer's record keeps its type and no tab waits for the lock twice, for any
\* tabs and lengths of a session and of a day.
THEOREM FocusInvariant == FocusSpec => []FocusInv
<1>1. ASSUME FocusInit PROVE FocusInv
  <2>1. Session \in Nat /\ DayLength \in Nat /\ LastDay \in Nat /\ End \in Nat
    BY FocusAssumption DEF End
  <2>2. asked \in Seq(FocusCall) /\ OneCallPerTab /\ Len(asked) = 0
    BY <1>1 DEF FocusInit, OneCallPerTab
  <2>3. Len(asked) <= Cardinality(FocusTabs)
    BY <2>2, WaitingIsBounded
  <2>4. clock \in 0 .. End /\ record \in FocusRecord
    BY <1>1, <2>1 DEF FocusInit, FocusRecord, Days
  <2>5. upTo \in 0 .. End
    BY <1>1, <2>1 DEF FocusInit
  <2>6. astray \in BOOLEAN /\ rewound \in BOOLEAN
    BY <1>1, Zenon DEF FocusInit
  <2> QED
    BY <2>2, <2>3, <2>4, <2>5, <2>6 DEF FocusInv, FocusTypeOK
<1>2. ASSUME FocusInv, [FocusNext]_focusVars PROVE FocusInv'
  <2>1. /\ clock \in 0 .. End /\ record \in FocusRecord /\ asked \in Seq(FocusCall)
        /\ OneCallPerTab /\ End \in Nat
        /\ upTo \in 0 .. End /\ astray \in BOOLEAN /\ rewound \in BOOLEAN
    BY <1>2, FocusAssumption DEF FocusInv, FocusTypeOK, End
  <2> DEFINE Typed == /\ clock' \in 0 .. End /\ record' \in FocusRecord /\ asked' \in Seq(FocusCall)
                      /\ OneCallPerTab'
                      /\ upTo' \in 0 .. End /\ astray' \in BOOLEAN /\ rewound' \in BOOLEAN
  <2>2. ASSUME UNCHANGED focusVars PROVE Typed
    <3>1. /\ clock' = clock /\ record' = record /\ asked' = asked
          /\ upTo' = upTo /\ astray' = astray /\ rewound' = rewound
      BY <2>2 DEF focusVars, historyVars
    <3>2. OneCallPerTab'
      BY <2>1, <3>1 DEF OneCallPerTab
    <3> QED
      BY <2>1, <3>1, <3>2, Zenon
  <2>3. ASSUME FocusClock PROVE Typed
    <3>1. /\ clock < End /\ clock' = clock + 1 /\ record' = record /\ asked' = asked
          /\ upTo' = upTo /\ astray' = astray /\ rewound' = rewound
      BY <2>3 DEF FocusClock, historyVars
    <3>2. OneCallPerTab'
      BY <2>1, <3>1 DEF OneCallPerTab
    <3>3. clock' \in 0 .. End
      BY <2>1, <3>1
    <3> QED
      BY <2>1, <3>1, <3>2, <3>3, Zenon
  <2>4. ASSUME NEW t \in FocusTabs, CheckpointFocus(t) PROVE Typed
    <3>1. PICK action \in {"tick", "start", "pause", "reset"} :
            asked' = Append(asked, [tab |-> t, action |-> action, at |-> clock])
      BY <2>4 DEF CheckpointFocus
    <3> DEFINE call == [tab |-> t, action |-> action, at |-> clock]
    <3>2. call \in FocusCall /\ call.tab = t
      BY <2>1 DEF FocusCall
    <3>3. asked' = Append(asked, call)
      BY <3>1
    <3> HIDE DEF call
    <3>4. /\ asked' \in Seq(FocusCall) /\ Len(asked') = Len(asked) + 1 /\ Len(asked) \in Nat
          /\ \A i \in 1 .. Len(asked) : asked'[i] = asked[i]
          /\ asked'[Len(asked) + 1] = call
      BY <2>1, <3>2, <3>3, AppendProperties
    <3>5. \A i \in 1 .. Len(asked) : asked[i].tab # t
      BY <2>4 DEF CheckpointFocus
    <3>6. OneCallPerTab'
      BY <2>1, <3>2, <3>4, <3>5 DEF OneCallPerTab
    <3> QED
      BY <2>1, <2>4, <3>4, <3>6 DEF CheckpointFocus, historyVars
  <2>5. ASSUME NEW i \in 1 .. Len(asked), GrantFocus(i) PROVE Typed
    <3> DEFINE call == asked[i]
    <3>1. call \in FocusCall
      BY <2>1, ElementOfSeq
    <3>2. call.at \in 0 .. End /\ call.action \in {"tick", "start", "pause", "reset"}
      BY <3>1 DEF FocusCall
    <3>3. /\ record' = AdvanceFocus(record, call.action, call.at) /\ asked' = RemoveAt(asked, i)
          /\ upTo' = IF Credits(record, call.at) THEN record.accountedAt + Used(record, call.at) ELSE upTo
          /\ astray' = (astray \/ i # 1) /\ clock' = clock
          /\ rewound' = (rewound \/ (record'.accountedAt # Never /\ record'.accountedAt < upTo'))
      BY <2>5 DEF GrantFocus
    <3> HIDE DEF call
    <3>4. record' \in FocusRecord
      BY <2>1, <3>2, <3>3, AdvanceType
    <3>5. asked' \in Seq(FocusCall) /\ OneCallPerTab'
      BY <2>1, <3>3, CallIsGone
    <3>6. upTo' \in 0 .. End
      <4>1. CASE Credits(record, call.at)
        <5>1. /\ record.accountedAt + Used(record, call.at) \in Nat
              /\ record.accountedAt + Used(record, call.at) <= call.at
          BY <2>1, <3>2, <4>1, CreditsEnd
        <5> QED
          BY <2>1, <3>2, <3>3, <4>1, <5>1
      <4> QED
        BY <2>1, <3>3, <4>1
    <3>7. astray' \in BOOLEAN /\ rewound' \in BOOLEAN
      BY <3>3
    <3> QED
      BY <2>1, <3>3, <3>4, <3>5, <3>6, <3>7
  <2>6. ASSUME NEW i \in 1 .. Len(asked), FailFocus(i) PROVE Typed
    <3>1. asked' \in Seq(FocusCall) /\ OneCallPerTab'
      BY <2>1, <2>6, CallIsGone DEF FailFocus
    <3> QED
      BY <2>1, <2>6, <3>1 DEF FailFocus
  <2> HIDE DEF Typed
  <2>7. Typed
    BY <1>2, <2>2, <2>3, <2>4, <2>5, <2>6 DEF FocusNext
  <2>8. (asked \in Seq(FocusCall) /\ OneCallPerTab => Len(asked) <= Cardinality(FocusTabs))'
    BY WaitingIsBounded, PTL
  <2> QED
    BY <2>7, <2>8 DEF FocusInv, FocusTypeOK, Typed
<1> QED
  BY <1>1, <1>2, PTL DEF FocusSpec

-----------------------------------------------------------------------------
\* The changes of a list, one after the other.

\* A run through a list of changes, as far as its first n ones.
Replays(f, s, list, n) ==
    f = [m \in 0 .. n |-> IF m = 0 THEN [failed |-> FALSE, state |-> s]
                          ELSE ReplayOne(f[m - 1], list[m])]

\* A replay of a list starts at the record and takes one change after another.
LEMMA RunSteps ==
    ASSUME NEW f, NEW s, NEW list, NEW n \in Nat, Replays(f, s, list, n)
    PROVE  /\ f[0] = [failed |-> FALSE, state |-> s]
           /\ \A m, k \in 0 .. n : k = m + 1 => f[k] = ReplayOne(f[m], list[k])
<1>1. f[0] = [failed |-> FALSE, state |-> s]
  BY DEF Replays
<1>2. ASSUME NEW m \in 0 .. n, NEW k \in 0 .. n, k = m + 1 PROVE f[k] = ReplayOne(f[m], list[k])
  <2>1. k # 0 /\ k - 1 = m
    BY <1>2
  <2>2. f[k] = IF k = 0 THEN [failed |-> FALSE, state |-> s] ELSE ReplayOne(f[k - 1], list[k])
    BY DEF Replays
  <2> QED
    BY <2>1, <2>2
<1> QED
  BY <1>1, <1>2

\* The fold that replays a list is such a run.
LEMMA ReplayIsARun ==
    ASSUME NEW s, NEW list, Len(list) \in Nat
    PROVE  \E f : Replays(f, s, list, Len(list)) /\ Replay(s, list) = f[Len(list)]
<1> DEFINE start == [failed |-> FALSE, state |-> s]
           P == {n \in Nat : \E f : Replays(f, s, list, n)}
<1>1. 0 \in P
  <2> DEFINE f == [m \in 0 .. 0 |-> start]
  <2>1. f = [m \in 0 .. 0 |-> IF m = 0 THEN start ELSE ReplayOne(f[m - 1], list[m])]
    OBVIOUS
  <2>2. Replays(f, s, list, 0)
    BY <2>1 DEF Replays
  <2> QED
    BY <2>2
<1>2. ASSUME NEW n \in P PROVE n + 1 \in P
  <2>1. PICK f : Replays(f, s, list, n)
    OBVIOUS
  <2>2. n \in Nat
    OBVIOUS
  <2> DEFINE g == [m \in 0 .. n + 1 |-> IF m <= n THEN f[m] ELSE ReplayOne(f[n], list[n + 1])]
  <2>3. ASSUME NEW m \in 0 .. n + 1
        PROVE  g[m] = IF m = 0 THEN start ELSE ReplayOne(g[m - 1], list[m])
    <3>1. CASE m = 0
      BY <2>1, <2>2, <3>1 DEF Replays
    <3>2. CASE m \in 1 .. n
      <4>1. m \in 0 .. n /\ m - 1 \in 0 .. n /\ m # 0 /\ m <= n /\ m - 1 <= n /\ m - 1 \in 0 .. n + 1
        BY <2>2, <3>2
      <4>2. f[m] = ReplayOne(f[m - 1], list[m])
        BY <2>1, <4>1 DEF Replays
      <4>3. g[m] = f[m] /\ g[m - 1] = f[m - 1]
        BY <4>1
      <4> QED
        BY <4>1, <4>2, <4>3
    <3>3. CASE m = n + 1
      <4>1. m - 1 = n /\ n \in 0 .. n + 1 /\ n <= n /\ ~(m <= n) /\ m # 0
        BY <2>2, <3>3
      <4>2. g[n] = f[n]
        BY <4>1
      <4>3. g[m] = ReplayOne(f[n], list[n + 1])
        BY <4>1
      <4> QED
        BY <3>3, <4>1, <4>2, <4>3
    <3> QED
      BY <2>2, <3>1, <3>2, <3>3
  <2>4. g = [m \in 0 .. n + 1 |-> g[m]]
    OBVIOUS
  <2> HIDE DEF g
  <2>5. Replays(g, s, list, n + 1)
    BY <2>3, <2>4 DEF Replays
  <2> QED
    BY <2>2, <2>5
<1>3. P = Nat
  <2>1. P \in SUBSET Nat
    OBVIOUS
  <2> HIDE DEF P
  <2> QED
    BY <1>1, <1>2, <2>1, NatInductionOnASet
<1>4. PICK f : Replays(f, s, list, Len(list))
  BY <1>3
<1> DEFINE replayed[n \in 0 .. Len(list)] ==
             IF n = 0 THEN start ELSE ReplayOne(replayed[n - 1], list[n])
<1>5. replayed = [n \in 0 .. Len(list) |->
                    IF n = 0 THEN start ELSE ReplayOne(replayed[n - 1], list[n])]
  BY <1>4 DEF Replays
<1>6. Replay(s, list) = replayed[Len(list)]
  BY DEF Replay
<1> HIDE DEF replayed
<1> QED
  BY <1>5, <1>6 DEF Replays

\* Replaying nothing changes nothing.
LEMMA ReplayNothing ==
    ASSUME NEW s PROVE Replay(s, << >>) = [failed |-> FALSE, state |-> s]
<1>1. Len(<< >>) = 0
  OBVIOUS
<1>2. PICK f : Replays(f, s, << >>, 0) /\ Replay(s, << >>) = f[0]
  BY <1>1, ReplayIsARun
<1> QED
  BY <1>2 DEF Replays

\* Replaying one change more replays it on what the others gave.
LEMMA ReplayOneMore ==
    ASSUME NEW s, NEW list \in Seq(Delta), NEW d \in Delta
    PROVE  Replay(s, Append(list, d)) = ReplayOne(Replay(s, list), d)
<1> DEFINE longer == Append(list, d)
           L == Len(list)
<1>1. /\ L \in Nat /\ Len(longer) = L + 1 /\ longer[L + 1] = d
      /\ \A i \in 1 .. L : longer[i] = list[i]
  BY AppendProperties
<1> HIDE DEF longer
<1>2. PICK f : Replays(f, s, list, L) /\ Replay(s, list) = f[L]
  BY <1>1, ReplayIsARun
<1>3. PICK g : Replays(g, s, longer, L + 1) /\ Replay(s, longer) = g[L + 1]
  BY <1>1, ReplayIsARun
<1> HIDE DEF L
<1>10. /\ f[0] = [failed |-> FALSE, state |-> s]
       /\ \A m, k \in 0 .. L : k = m + 1 => f[k] = ReplayOne(f[m], list[k])
  BY <1>1, <1>2, RunSteps
<1>11. L + 1 \in Nat
  BY <1>1
<1>12. /\ g[0] = [failed |-> FALSE, state |-> s]
       /\ \A m, k \in 0 .. L + 1 : k = m + 1 => g[k] = ReplayOne(g[m], longer[k])
  BY <1>3, <1>11, RunSteps
<1> DEFINE P == {n \in Nat : n <= L => f[n] = g[n]}
<1>4. 0 \in P
  BY <1>10, <1>12
<1>5. ASSUME NEW n \in P PROVE n + 1 \in P
  <2> SUFFICES ASSUME n + 1 <= L PROVE f[n + 1] = g[n + 1]
    OBVIOUS
  <2>1. /\ n \in 0 .. L /\ n + 1 \in 0 .. L /\ n + 1 \in 1 .. L /\ L \in Nat
        /\ n \in 0 .. L + 1 /\ n + 1 \in 0 .. L + 1 /\ L + 1 \in Nat /\ n <= L
    BY <1>1
  <2>2. f[n] = g[n]
    BY <2>1
  <2>3. f[n + 1] = ReplayOne(f[n], list[n + 1])
    BY <1>10, <2>1
  <2>4. g[n + 1] = ReplayOne(g[n], longer[n + 1])
    BY <1>12, <2>1
  <2> QED
    BY <1>1, <2>1, <2>2, <2>3, <2>4
<1>6. P = Nat
  <2>1. P \in SUBSET Nat
    OBVIOUS
  <2> HIDE DEF P
  <2> QED
    BY <1>4, <1>5, <2>1, NatInductionOnASet
<1>7. f[L] = g[L]
  BY <1>1, <1>6
<1>8. g[L + 1] = ReplayOne(g[L], longer[L + 1])
  <2>1. L \in 0 .. L + 1 /\ L + 1 \in 0 .. L + 1 /\ L + 1 \in Nat
    BY <1>1
  <2> QED
    BY <1>12, <2>1
<1> QED
  BY <1>1, <1>2, <1>3, <1>7, <1>8 DEF longer

\* The composed changes say what the list says, of whatever record it is replayed on.
SaysWhatTheListSays(p, list) ==
    \A s \in State :
        /\ Replay(s, list).failed \in BOOLEAN
        /\ Replay(s, list).failed <=> Conflicts(s, p)
        /\ ~Replay(s, list).failed => Replay(s, list).state = ApplyProgressChanges(s, p)

\* So it is in every reachable state, for any edits.
THEOREM ComposedIsTheList == Spec => []SaysWhatTheListSays(pending, log)
<1>1. ASSUME Init PROVE SaysWhatTheListSays(pending, log)
  <2>1. pending = NoChanges /\ log = << >>
    BY <1>1 DEF Init
  <2>2. ASSUME NEW s \in State PROVE ~Conflicts(s, NoChanges)
    BY DEF Conflicts, NoChanges, NoTextEdit
  <2>3. ASSUME NEW s \in State
        PROVE  /\ Replay(s, << >>).failed = FALSE
               /\ Replay(s, << >>).state = ApplyProgressChanges(s, NoChanges)
    BY ReplayNothing, ApplyNothing
  <2> QED
    BY <2>1, <2>2, <2>3 DEF SaysWhatTheListSays
<1>2. ASSUME WritersInv, SaysWhatTheListSays(pending, log), EditMine
      PROVE  SaysWhatTheListSays(pending, log)'
  <2>1. PICK next \in Edits(mine) :
          LET d == ProgressChanges(mine, next) IN
          pending' = Compose(pending, d) /\ log' = Append(log, d)
    BY <1>2 DEF EditMine
  <2> DEFINE d == ProgressChanges(mine, next)
  <2>2. /\ mine \in State /\ base \in State /\ pending \in Delta /\ log \in Seq(Delta)
        /\ mine = ApplyProgressChanges(base, pending)
    BY <1>2 DEF WritersInv, TypeOK
  <2>3. next \in State /\ d \in Delta
    BY <2>2, EditsType, ChangesType
  <2>4. \A s \in State :
          LET after == ApplyProgressChanges(s, pending) IN
          /\ Conflicts(s, Compose(pending, d)) <=> Conflicts(s, pending) \/ Conflicts(after, d)
          /\ ApplyProgressChanges(s, Compose(pending, d)) = ApplyProgressChanges(after, d)
    BY <2>2, <2>3, ComposingIsReplayingBoth
  <2>5. pending' = Compose(pending, d) /\ log' = Append(log, d)
    BY <2>1
  <2> HIDE DEF d
  <2>6. SUFFICES ASSUME NEW s \in State
                 PROVE  /\ Replay(s, log').failed \in BOOLEAN
                        /\ Replay(s, log').failed <=> Conflicts(s, pending')
                        /\ ~Replay(s, log').failed =>
                              Replay(s, log').state = ApplyProgressChanges(s, pending')
    BY DEF SaysWhatTheListSays
  <2> DEFINE before == Replay(s, log)
  <2>7. Replay(s, log') = ReplayOne(before, d)
    BY <2>2, <2>3, <2>5, ReplayOneMore
  <2>8. /\ before.failed \in BOOLEAN /\ before.failed <=> Conflicts(s, pending)
        /\ ~before.failed => before.state = ApplyProgressChanges(s, pending)
    BY <1>2 DEF SaysWhatTheListSays
  <2> DEFINE after == ApplyProgressChanges(s, pending)
  <2>9. /\ Conflicts(s, pending') <=> Conflicts(s, pending) \/ Conflicts(after, d)
        /\ ApplyProgressChanges(s, pending') = ApplyProgressChanges(after, d)
    BY <2>4, <2>5
  <2>10. CASE before.failed
    <3>1. Replay(s, log').failed = TRUE
      BY <2>7, <2>10 DEF ReplayOne
    <3> QED
      BY <2>8, <2>9, <2>10, <3>1
  <2>11. CASE ~before.failed /\ Conflicts(after, d)
    <3>1. before.state = after
      BY <2>8, <2>11
    <3>2. Replay(s, log') = [before EXCEPT !.failed = TRUE]
      BY <2>7, <2>11, <3>1 DEF ReplayOne
    <3>3. Replay(s, log').failed = TRUE
      BY <3>2
    <3> QED
      BY <2>9, <2>11, <3>3
  <2>12. CASE ~before.failed /\ ~Conflicts(after, d)
    <3>1. before.state = after
      BY <2>8, <2>12
    <3>2. Replay(s, log') = [failed |-> FALSE, state |-> ApplyProgressChanges(after, d)]
      BY <2>7, <2>12, <3>1 DEF ReplayOne
    <3>3. /\ Replay(s, log').failed = FALSE
          /\ Replay(s, log').state = ApplyProgressChanges(after, d)
      BY <3>2
    <3> HIDE DEF after, before
    <3> QED
      BY <2>8, <2>9, <2>12, <3>3
  <2> QED
    BY <2>8, <2>10, <2>11, <2>12
<1>3. ASSUME WritersInv, SaysWhatTheListSays(pending, log), [Next]_vars
      PROVE  SaysWhatTheListSays(pending, log)'
  <2>1. CASE UNCHANGED <<pending, log>>
    BY <1>3, <2>1 DEF SaysWhatTheListSays
  <2> QED
    BY <1>2, <1>3, <2>1 DEF Next, EditTheirs, vars
<1> QED
  BY <1>1, <1>3, WritersInvariant, PTL DEF Spec
-----------------------------------------------------------------------------

\* The rules of practice (Habits).

\* The rules of practice keep their type: an interval stays within sixty days and
\* nothing was practised on a day to come.
THEOREM HabitsInvariant == HabitsSpec => []HabitsTypeOK
<1>1. LastHabitDay \in Nat /\ MaxXp \in Nat
  BY HabitsAssumption
<1>2. HabitsInit => HabitsTypeOK
  BY <1>1 DEF HabitsInit, HabitsTypeOK
<1>3. ASSUME HabitsTypeOK, [HabitsNext]_habitVars PROVE HabitsTypeOK'
  <2> USE <1>1, <1>3 DEF HabitsTypeOK
  <2>1. CASE UNCHANGED habitVars
    BY <2>1 DEF habitVars
  <2>2. CASE Practise
    BY <2>2 DEF Practise
  <2>3. CASE NextDay
    BY <2>3 DEF NextDay
  <2>4. CASE RateIt
    <3>1. \A n \in Int : Bounded(n) \in 0 .. 60
      BY DEF Bounded
    <3>2. \A rating \in {"again", "hard", "good"} : ScheduleReview(interval, rating) \in 0 .. 60
      <4>1. (6 * interval + 4) \div 5 \in Int /\ (5 * interval + 1) \div 2 \in Int
        OBVIOUS
      <4> QED
        BY <3>1, <4>1 DEF ScheduleReview
    <3> QED
      BY <2>4, <3>2 DEF RateIt
  <2>5. ASSUME NEW p \in Players, GainXp(p) PROVE HabitsTypeOK'
    BY <2>5 DEF GainXp
  <2> QED
    BY <2>1, <2>2, <2>3, <2>4, <2>5 DEF HabitsNext
<1> QED
  BY <1>2, <1>3, PTL DEF HabitsSpec

\* The days from e to d, practised and not.
MissedIn(e, d) == (e .. d) \ active
KeptIn(e, d) == (e .. d) \cap active

\* The most days of practice in a stretch up to d that misses no more than left.
Best(d, left, n) ==
    /\ n \in Nat
    /\ \E e \in 0 .. d + 1 : Cardinality(MissedIn(e, d)) <= left /\ Cardinality(KeptIn(e, d)) = n
    /\ \A e \in 0 .. d + 1 : Cardinality(MissedIn(e, d)) <= left => Cardinality(KeptIn(e, d)) <= n

\* A stretch of days has finitely many kept and missed ones.
LEMMA StretchIsFinite ==
    ASSUME NEW e \in Int, NEW d \in Int
    PROVE  /\ IsFiniteSet(MissedIn(e, d)) /\ Cardinality(MissedIn(e, d)) \in Nat
           /\ IsFiniteSet(KeptIn(e, d)) /\ Cardinality(KeptIn(e, d)) \in Nat
<1>1. IsFiniteSet(e .. d)
  BY FS_Interval
<1>2. IsFiniteSet(MissedIn(e, d)) /\ IsFiniteSet(KeptIn(e, d))
  BY <1>1, FS_Difference, FS_Intersection DEF MissedIn, KeptIn
<1> QED
  BY <1>2, FS_CardinalityType

\* A stretch that begins after it ends is empty.
LEMMA EmptyStretch ==
    ASSUME NEW d \in Int
    PROVE  Cardinality(MissedIn(d + 1, d)) = 0 /\ Cardinality(KeptIn(d + 1, d)) = 0
<1>1. MissedIn(d + 1, d) = {} /\ KeptIn(d + 1, d) = {}
  BY DEF MissedIn, KeptIn
<1> QED
  BY <1>1, FS_EmptySet

\* One more day counts as kept or as missed.
LEMMA StretchGrows ==
    ASSUME NEW d \in Nat, NEW e \in 0 .. d
    PROVE  /\ d \in active => /\ Cardinality(MissedIn(e, d)) = Cardinality(MissedIn(e, d - 1))
                              /\ Cardinality(KeptIn(e, d)) = Cardinality(KeptIn(e, d - 1)) + 1
           /\ d \notin active => /\ Cardinality(MissedIn(e, d)) = Cardinality(MissedIn(e, d - 1)) + 1
                                 /\ Cardinality(KeptIn(e, d)) = Cardinality(KeptIn(e, d - 1))
<1>1. e .. d = (e .. (d - 1)) \cup {d} /\ d \notin e .. (d - 1)
  OBVIOUS
<1>2. IsFiniteSet(MissedIn(e, d - 1)) /\ IsFiniteSet(KeptIn(e, d - 1))
  BY StretchIsFinite
<1>3. CASE d \in active
  <2>1. MissedIn(e, d) = MissedIn(e, d - 1) /\ KeptIn(e, d) = KeptIn(e, d - 1) \cup {d}
    BY <1>1, <1>3 DEF MissedIn, KeptIn
  <2>2. d \notin KeptIn(e, d - 1)
    BY <1>1 DEF KeptIn
  <2> QED
    BY <1>2, <1>3, <2>1, <2>2, FS_AddElement
<1>4. CASE d \notin active
  <2>1. KeptIn(e, d) = KeptIn(e, d - 1) /\ MissedIn(e, d) = MissedIn(e, d - 1) \cup {d}
    BY <1>1, <1>4 DEF MissedIn, KeptIn
  <2>2. d \notin MissedIn(e, d - 1)
    BY <1>1 DEF MissedIn
  <2> QED
    BY <1>2, <1>4, <2>1, <2>2, FS_AddElement
<1> QED
  BY <1>3, <1>4

\* There is one best streak that ends on a day.
LEMMA BestIsOne ==
    ASSUME NEW d, NEW left, NEW n, NEW m, Best(d, left, n), Best(d, left, m)
    PROVE  n = m
<1>1. n \in Nat /\ m \in Nat
  BY DEF Best
<1>2. n <= m
  BY DEF Best
<1>3. m <= n
  BY DEF Best
<1> QED
  BY <1>1, <1>2, <1>3

\* Before the first day.
LEMMA BestAtTheStart ==
    ASSUME NEW left \in Nat PROVE Best(-1, left, 0)
<1>1. 0 .. -1 + 1 = {0}
  OBVIOUS
<1>2. Cardinality(MissedIn(0, -1)) = 0 /\ Cardinality(KeptIn(0, -1)) = 0
  BY EmptyStretch, -1 + 1 = 0
<1> QED
  BY <1>1, <1>2 DEF Best

\* A day of practice lengthens every stretch.
LEMMA BestOfAKeptDay ==
    ASSUME NEW d \in Nat, NEW left \in Nat, NEW n, d \in active, Best(d - 1, left, n)
    PROVE  Best(d, left, 1 + n)
<1>1. n \in Nat /\ d - 1 + 1 = d
  BY DEF Best
<1>2. PICK s \in 0 .. d : Cardinality(MissedIn(s, d - 1)) <= left /\ Cardinality(KeptIn(s, d - 1)) = n
  BY <1>1 DEF Best
<1>3. /\ s \in 0 .. d + 1 /\ Cardinality(MissedIn(s, d)) <= left
      /\ Cardinality(KeptIn(s, d)) = 1 + n
  BY <1>1, <1>2, StretchGrows
<1>4. ASSUME NEW e \in 0 .. d + 1, Cardinality(MissedIn(e, d)) <= left
      PROVE  Cardinality(KeptIn(e, d)) <= 1 + n
  <2>1. CASE e = d + 1
    BY <1>1, <2>1, EmptyStretch
  <2>2. CASE e \in 0 .. d
    <3>1. /\ Cardinality(MissedIn(e, d - 1)) <= left
          /\ Cardinality(KeptIn(e, d)) = Cardinality(KeptIn(e, d - 1)) + 1
      BY <1>4, <2>2, StretchGrows
    <3>2. Cardinality(KeptIn(e, d - 1)) <= n
      BY <1>1, <2>2, <3>1 DEF Best
    <3>3. Cardinality(KeptIn(e, d - 1)) \in Nat
      BY e \in Int, d - 1 \in Int, StretchIsFinite
    <3> QED
      BY <1>1, <3>1, <3>2, <3>3
  <2> QED
    BY <2>1, <2>2
<1>5. 1 + n \in Nat
  BY <1>1
<1> QED
  BY <1>3, <1>4, <1>5 DEF Best

\* A missed day uses one of those that are forgiven.
LEMMA BestOfAForgivenDay ==
    ASSUME NEW d \in Nat, NEW left \in Nat \ {0}, NEW n, d \notin active, Best(d - 1, left - 1, n)
    PROVE  Best(d, left, n)
<1>1. n \in Nat /\ d - 1 + 1 = d
  BY DEF Best
<1>2. PICK s \in 0 .. d : Cardinality(MissedIn(s, d - 1)) <= left - 1 /\ Cardinality(KeptIn(s, d - 1)) = n
  BY <1>1 DEF Best
<1>3. /\ s \in 0 .. d + 1 /\ Cardinality(MissedIn(s, d)) <= left
      /\ Cardinality(KeptIn(s, d)) = n
  <2>1. Cardinality(MissedIn(s, d - 1)) \in Nat
    BY s \in Int, d - 1 \in Int, StretchIsFinite
  <2> QED
    BY <1>1, <1>2, <2>1, StretchGrows
<1>4. ASSUME NEW e \in 0 .. d + 1, Cardinality(MissedIn(e, d)) <= left
      PROVE  Cardinality(KeptIn(e, d)) <= n
  <2>1. CASE e = d + 1
    BY <1>1, <2>1, EmptyStretch
  <2>2. CASE e \in 0 .. d
    <3>1. Cardinality(MissedIn(e, d - 1)) \in Nat
      BY e \in Int, d - 1 \in Int, StretchIsFinite
    <3>2. /\ Cardinality(MissedIn(e, d - 1)) <= left - 1
          /\ Cardinality(KeptIn(e, d)) = Cardinality(KeptIn(e, d - 1))
      BY <1>4, <2>2, <3>1, StretchGrows
    <3> QED
      BY <1>1, <2>2, <3>2 DEF Best
  <2> QED
    BY <2>1, <2>2
<1> QED
  BY <1>1, <1>3, <1>4 DEF Best

\* One too many ends the streak.
LEMMA BestOfAMissedDay ==
    ASSUME NEW d \in Nat, d \notin active
    PROVE  Best(d, 0, 0)
<1>1. d + 1 \in 0 .. d + 1 /\ Cardinality(MissedIn(d + 1, d)) = 0 /\ Cardinality(KeptIn(d + 1, d)) = 0
  BY EmptyStretch
<1>2. ASSUME NEW e \in 0 .. d + 1, Cardinality(MissedIn(e, d)) <= 0
      PROVE  Cardinality(KeptIn(e, d)) <= 0
  <2>1. CASE e = d + 1
    BY <1>1, <2>1
  <2>2. CASE e \in 0 .. d
    <3>1. Cardinality(MissedIn(e, d)) = Cardinality(MissedIn(e, d - 1)) + 1
      BY <2>2, StretchGrows
    <3>2. Cardinality(MissedIn(e, d - 1)) \in Nat
      BY e \in Int, d - 1 \in Int, StretchIsFinite
    <3> QED
      BY <1>2, <3>1, <3>2
  <2> QED
    BY <2>1, <2>2
<1> QED
  BY <1>1, <1>2 DEF Best

\* Whatever the day and however much is forgiven, some stretch is best.
LEMMA BestExists ==
    ASSUME HabitsTypeOK, NEW d \in Nat \cup {-1}, NEW left \in Nat
    PROVE  \E n : Best(d, left, n)
<1> DEFINE P == {k \in Nat : \A l \in Nat : \E n : Best(k - 1, l, n)}
<1>1. 0 \in P
  BY BestAtTheStart, 0 - 1 = -1
<1>2. ASSUME NEW k \in P PROVE k + 1 \in P
  <2>1. SUFFICES ASSUME NEW l \in Nat PROVE \E n : Best(k, l, n)
    BY k \in Nat, k + 1 - 1 = k
  <2>2. k \in Nat
    OBVIOUS
  <2>3. PICK n : Best(k - 1, l, n)
    OBVIOUS
  <2>4. CASE k \in active
    BY <2>2, <2>3, <2>4, BestOfAKeptDay
  <2>5. CASE k \notin active /\ l = 0
    BY <2>2, <2>5, BestOfAMissedDay
  <2>6. CASE k \notin active /\ l # 0
    <3>1. l - 1 \in Nat /\ l \in Nat \ {0}
      BY <2>6
    <3>2. PICK m : Best(k - 1, l - 1, m)
      BY <3>1
    <3> QED
      BY <2>2, <2>6, <3>1, <3>2, BestOfAForgivenDay
  <2> QED
    BY <2>4, <2>5, <2>6
<1>3. P = Nat
  <2>1. P \in SUBSET Nat
    OBVIOUS
  <2> HIDE DEF P
  <2> QED
    BY <1>1, <1>2, <2>1, NatInductionOnASet
<1>4. d + 1 \in Nat /\ d + 1 - 1 = d
  OBVIOUS
<1>5. d + 1 \in P
  BY <1>3, <1>4
<1>6. \E n : Best(d + 1 - 1, left, n)
  BY <1>5
<1> QED
  BY <1>4, <1>6

\* A walk back from every day, with every allowance (streakWithShield()).
Walks(f, budget) ==
    f = [d \in -1 .. LastHabitDay |->
           [left \in 0 .. budget |->
              CASE d \in active -> 1 + f[d - 1][left]
                [] d \notin active /\ d >= 0 /\ left > 0 -> f[d - 1][left - 1]
                [] OTHER -> 0]]

\* One day of a walk: what the rule makes of the best of the day before is the best.
LEMMA WalkStep ==
    ASSUME HabitsTypeOK, NEW d \in Nat \cup {-1}, NEW left \in Nat, NEW f,
           d # -1 => Best(d - 1, left, f[d - 1][left]),
           d # -1 /\ left # 0 => Best(d - 1, left - 1, f[d - 1][left - 1])
    PROVE  Best(d, left, CASE d \in active -> 1 + f[d - 1][left]
                           [] d \notin active /\ d >= 0 /\ left > 0 -> f[d - 1][left - 1]
                           [] OTHER -> 0)
<1> DEFINE value == CASE d \in active -> 1 + f[d - 1][left]
                      [] d \notin active /\ d >= 0 /\ left > 0 -> f[d - 1][left - 1]
                      [] OTHER -> 0
<1>1. CASE d \in active
  <2>1. d \in Nat /\ value = 1 + f[d - 1][left]
    BY <1>1 DEF HabitsTypeOK
  <2> HIDE DEF value
  <2>2. Best(d - 1, left, f[d - 1][left])
    BY <2>1
  <2>3. Best(d, left, value)
    BY <1>1, <2>1, <2>2, BestOfAKeptDay
  <2> QED
    BY <2>3 DEF value
<1>2. CASE d \notin active /\ d # -1 /\ left # 0
  <2>1. /\ d \in Nat /\ left \in Nat \ {0} /\ d >= 0 /\ left > 0
        /\ value = f[d - 1][left - 1]
    BY <1>2
  <2> HIDE DEF value
  <2>2. Best(d - 1, left - 1, f[d - 1][left - 1])
    BY <1>2
  <2>3. Best(d, left, value)
    BY <1>2, <2>1, <2>2, BestOfAForgivenDay
  <2> QED
    BY <2>3 DEF value
<1>3. CASE d \notin active /\ (d = -1 \/ left = 0)
  <2>1. value = 0 /\ (d \in Nat \/ d = -1)
    BY <1>3
  <2> HIDE DEF value
  <2>2. Best(d, left, value)
    BY <1>3, <2>1, BestOfAMissedDay, BestAtTheStart
  <2> QED
    BY <2>2 DEF value
<1> QED
  BY <1>1, <1>2, <1>3

\* The recursive function that walks back over the days exists.
LEMMA WalkExists ==
    ASSUME HabitsTypeOK, NEW budget \in Nat
    PROVE  \E f : Walks(f, budget)
<1> DEFINE best(d, left) == CHOOSE n : Best(d, left, n)
           f == [d \in -1 .. LastHabitDay |-> [left \in 0 .. budget |-> best(d, left)]]
           value(d, left) == CASE d \in active -> 1 + f[d - 1][left]
                               [] d \notin active /\ d >= 0 /\ left > 0 -> f[d - 1][left - 1]
                               [] OTHER -> 0
<1>1. LastHabitDay \in Nat
  BY HabitsAssumption
<1>2. ASSUME NEW d \in Nat \cup {-1}, NEW left \in Nat PROVE Best(d, left, best(d, left))
  BY BestExists
<1>3. ASSUME NEW d \in -1 .. LastHabitDay, NEW left \in 0 .. budget
      PROVE  f[d][left] = best(d, left) /\ d \in Nat \cup {-1} /\ left \in Nat
  BY <1>1
<1> HIDE DEF best, f
<1>4. ASSUME NEW d \in -1 .. LastHabitDay, NEW left \in 0 .. budget
      PROVE  f[d][left] = value(d, left)
  <2>1. d \in Nat \cup {-1} /\ left \in Nat
    BY <1>3
  <2>2. Best(d, left, f[d][left])
    BY <1>2, <1>3, <2>1
  <2>3. ASSUME d # -1 PROVE Best(d - 1, left, f[d - 1][left])
    <3>1. d - 1 \in -1 .. LastHabitDay
      BY <1>1, <2>3
    <3> QED
      BY <1>2, <1>3, <3>1
  <2>4. ASSUME d # -1, left # 0 PROVE Best(d - 1, left - 1, f[d - 1][left - 1])
    <3>1. d - 1 \in -1 .. LastHabitDay /\ left - 1 \in 0 .. budget
      BY <1>1, <2>4
    <3> QED
      BY <1>2, <1>3, <3>1
  <2>5. Best(d, left, value(d, left))
    BY <2>1, <2>3, <2>4, WalkStep
  <2> HIDE DEF value
  <2> QED
    BY <2>2, <2>5, BestIsOne
<1>5. f = [d \in -1 .. LastHabitDay |-> [left \in 0 .. budget |-> f[d][left]]]
  BY DEF f
<1>6. f = [d \in -1 .. LastHabitDay |-> [left \in 0 .. budget |-> value(d, left)]]
  <2> HIDE DEF value
  <2> QED
    BY <1>4, <1>5
<1> QED
  BY <1>6 DEF Walks

\* What it finds is the best streak within the shield that is left.
LEMMA WalkIsBest ==
    ASSUME HabitsTypeOK, NEW budget \in Nat, NEW f, Walks(f, budget),
           NEW d \in -1 .. LastHabitDay, NEW left \in 0 .. budget
    PROVE  Best(d, left, f[d][left])
<1> DEFINE P == {k \in Nat : k - 1 <= LastHabitDay => \A l \in 0 .. budget : Best(k - 1, l, f[k - 1][l])}
           value(e, l) == CASE e \in active -> 1 + f[e - 1][l]
                            [] e \notin active /\ e >= 0 /\ l > 0 -> f[e - 1][l - 1]
                            [] OTHER -> 0
<1>1. LastHabitDay \in Nat
  BY HabitsAssumption
<1>2. ASSUME NEW e \in -1 .. LastHabitDay, NEW l \in 0 .. budget PROVE f[e][l] = value(e, l)
  <2>1. f[e] = [spare \in 0 .. budget |-> value(e, spare)]
    BY DEF Walks
  <2> HIDE DEF value
  <2> QED
    BY <2>1
<1>3. 0 \in P
  <2>1. ASSUME NEW l \in 0 .. budget PROVE Best(-1, l, f[-1][l])
    <3>1. l \in Nat /\ -1 \in Nat \cup {-1} /\ -1 \in -1 .. LastHabitDay
      BY <1>1
    <3>2. Best(-1, l, value(-1, l))
      BY <3>1, WalkStep
    <3> HIDE DEF value
    <3> QED
      BY <1>2, <3>1, <3>2
  <2> QED
    BY <2>1, 0 - 1 = -1
<1>4. ASSUME NEW k \in P PROVE k + 1 \in P
  <2>1. k \in Nat /\ k + 1 - 1 = k
    OBVIOUS
  <2>2. SUFFICES ASSUME k <= LastHabitDay, NEW l \in 0 .. budget PROVE Best(k, l, f[k][l])
    BY <2>1
  <2>3. k - 1 <= LastHabitDay /\ k \in -1 .. LastHabitDay /\ l \in Nat
    BY <1>1, <2>1, <2>2
  <2>4. Best(k - 1, l, f[k - 1][l])
    BY <2>3
  <2>5. ASSUME l # 0 PROVE Best(k - 1, l - 1, f[k - 1][l - 1])
    <3>1. l - 1 \in 0 .. budget
      BY <2>5
    <3> QED
      BY <2>3, <3>1
  <2>6. Best(k, l, value(k, l))
    BY <2>1, <2>3, <2>4, <2>5, WalkStep
  <2> HIDE DEF value
  <2> QED
    BY <1>2, <2>3, <2>6
<1>5. P = Nat
  <2>1. P \in SUBSET Nat
    OBVIOUS
  <2> HIDE DEF P
  <2> QED
    BY <1>3, <1>4, <2>1, NatInductionOnASet
<1>6. d + 1 \in Nat /\ d + 1 - 1 = d /\ d <= LastHabitDay
  BY <1>1
<1>7. \A k \in Nat : k - 1 <= LastHabitDay => \A l \in 0 .. budget : Best(k - 1, l, f[k - 1][l])
  BY <1>5
<1>8. \A l \in 0 .. budget : Best(d + 1 - 1, l, f[d + 1 - 1][l])
  BY <1>6, <1>7
<1> QED
  BY <1>6, <1>8

\* What streakWithShield() returns is the best of all stretches up to today.
LEMMA ShieldGivesTheBest ==
    ASSUME HabitsTypeOK, NEW budget \in Nat
    PROVE  Best(From, budget, StreakWithShield(budget))
<1> DEFINE walk[d \in -1 .. LastHabitDay] ==
             [left \in 0 .. budget |->
                CASE d \in active -> 1 + walk[d - 1][left]
                  [] d \notin active /\ d >= 0 /\ left > 0 -> walk[d - 1][left - 1]
                  [] OTHER -> 0]
<1>1. PICK f : Walks(f, budget)
  BY WalkExists
<1>2. Walks(walk, budget)
  BY <1>1 DEF Walks
<1>3. StreakWithShield(budget) = walk[From][budget]
  BY DEF StreakWithShield
<1> HIDE DEF walk
<1>4. From \in -1 .. LastHabitDay /\ budget \in 0 .. budget
  BY HabitsAssumption DEF HabitsTypeOK, From
<1> QED
  BY <1>2, <1>3, <1>4, WalkIsBest

\* And so does streak(), which forgives nothing.
LEMMA StreakIsTheBest == ASSUME HabitsTypeOK PROVE Best(From, 0, Streak)
<1> DEFINE best(d) == CHOOSE n : Best(d, 0, n)
           f == [d \in -1 .. LastHabitDay |-> best(d)]
<1>1. LastHabitDay \in Nat /\ active \subseteq Nat
  BY HabitsAssumption DEF HabitsTypeOK
<1>2. ASSUME NEW d \in Nat \cup {-1} PROVE Best(d, 0, best(d))
  BY BestExists
<1>3. ASSUME NEW d \in -1 .. LastHabitDay PROVE f[d] = best(d) /\ d \in Nat \cup {-1}
  BY <1>1
<1> HIDE DEF best, f
<1>4. ASSUME NEW g, NEW d \in -1 .. LastHabitDay, d # -1 => Best(d - 1, 0, g[d - 1])
      PROVE  Best(d, 0, IF d \in active THEN 1 + g[d - 1] ELSE 0)
  <2>1. CASE d \in active
    BY <1>1, <1>4, <2>1, BestOfAKeptDay
  <2>2. CASE d \notin active /\ d # -1
    BY <1>1, <2>2, BestOfAMissedDay
  <2>3. CASE d = -1
    <3>1. d \notin active
      BY <1>1, <2>3
    <3> QED
      BY <2>3, <3>1, BestAtTheStart
  <2> QED
    BY <2>1, <2>2, <2>3
<1>5. ASSUME NEW d \in -1 .. LastHabitDay
      PROVE  f[d] = IF d \in active THEN 1 + f[d - 1] ELSE 0
  <2>1. Best(d, 0, f[d])
    BY <1>2, <1>3
  <2>2. ASSUME d # -1 PROVE Best(d - 1, 0, f[d - 1])
    <3>1. d - 1 \in -1 .. LastHabitDay
      BY <1>1, <2>2
    <3> QED
      BY <1>2, <1>3, <3>1
  <2>3. Best(d, 0, IF d \in active THEN 1 + f[d - 1] ELSE 0)
    BY <1>4, <2>2
  <2> QED
    BY <2>1, <2>3, BestIsOne
<1>6. f = [d \in -1 .. LastHabitDay |-> f[d]]
  BY DEF f
<1>7. f = [d \in -1 .. LastHabitDay |-> IF d \in active THEN 1 + f[d - 1] ELSE 0]
  BY <1>5, <1>6
<1> DEFINE walk[d \in -1 .. LastHabitDay] == IF d \in active THEN 1 + walk[d - 1] ELSE 0
<1>8. walk = [d \in -1 .. LastHabitDay |-> IF d \in active THEN 1 + walk[d - 1] ELSE 0]
  BY <1>7
<1>9. Streak = walk[From]
  BY DEF Streak
<1> HIDE DEF walk
<1> DEFINE P == {k \in Nat : k - 1 <= LastHabitDay => Best(k - 1, 0, walk[k - 1])}
<1>10. 0 \in P
  <2>1. -1 \in -1 .. LastHabitDay
    BY <1>1
  <2>2. Best(-1, 0, IF -1 \in active THEN 1 + walk[-1 - 1] ELSE 0)
    BY <1>4, <2>1
  <2>3. Best(-1, 0, walk[-1])
    BY <1>8, <2>1, <2>2
  <2> QED
    BY <2>3, 0 - 1 = -1
<1>11. ASSUME NEW k \in P PROVE k + 1 \in P
  <2>1. k \in Nat /\ k + 1 - 1 = k
    OBVIOUS
  <2>2. SUFFICES ASSUME k <= LastHabitDay PROVE Best(k, 0, walk[k])
    BY <2>1
  <2>3. k - 1 <= LastHabitDay /\ k \in -1 .. LastHabitDay
    BY <1>1, <2>1, <2>2
  <2>4. Best(k - 1, 0, walk[k - 1])
    BY <2>3
  <2>5. Best(k, 0, IF k \in active THEN 1 + walk[k - 1] ELSE 0)
    BY <1>4, <2>3, <2>4
  <2> QED
    BY <1>8, <2>3, <2>5
<1>12. P = Nat
  <2>1. P \in SUBSET Nat
    OBVIOUS
  <2> HIDE DEF P
  <2> QED
    BY <1>10, <1>11, <2>1, NatInductionOnASet
<1>13. From \in -1 .. LastHabitDay
  BY HabitsAssumption DEF HabitsTypeOK, From
<1>14. PICK k \in Nat : k - 1 = From /\ k - 1 <= LastHabitDay
  <2>1. From + 1 \in Nat /\ (From + 1) - 1 = From /\ From <= LastHabitDay
    BY <1>1, <1>13
  <2> QED
    BY <2>1
<1>15. k \in P
  BY <1>12
<1>16. Best(k - 1, 0, walk[k - 1])
  BY <1>14, <1>15
<1> QED
  BY <1>9, <1>14, <1>16

\* The streak is what it is said to be.
LEMMA StreaksForgiveOnce == ASSUME HabitsTypeOK PROVE StreakIsForgivingOnce
<1>1. Streak = StreakWithShield(0)
  BY StreakIsTheBest, ShieldGivesTheBest, BestIsOne
<1>2. ASSUME NEW budget \in {0, Shield}
      PROVE  LET counts == {Cardinality(Kept(d)) : d \in {e \in 0 .. day : Cardinality(Missed(e)) <= budget}} IN
             StreakWithShield(budget) = CHOOSE n \in counts \cup {0} : \A m \in counts : m <= n
  <2> DEFINE counts == {Cardinality(Kept(d)) : d \in {e \in 0 .. day : Cardinality(Missed(e)) <= budget}}
             v == StreakWithShield(budget)
  <2>1. budget \in Nat /\ day \in Nat /\ From \in Int /\ (From = day \/ From = day - 1)
    BY HabitsAssumption DEF HabitsTypeOK, From
  <2>2. Best(From, budget, v)
    BY <2>1, ShieldGivesTheBest
  <2>3. v \in Nat
    BY <2>2 DEF Best
  <2>4. ASSUME NEW m \in counts PROVE m \in Nat /\ m <= v
    <3>1. PICK e \in 0 .. day : Cardinality(Missed(e)) <= budget /\ m = Cardinality(Kept(e))
      OBVIOUS
    <3>2. e \in 0 .. From + 1 /\ e \in Int /\ Missed(e) = MissedIn(e, From) /\ Kept(e) = KeptIn(e, From)
      BY <2>1 DEF Missed, Kept, MissedIn, KeptIn
    <3> HIDE DEF v
    <3> QED
      BY <2>1, <2>2, <3>1, <3>2, StretchIsFinite DEF Best
  <2>5. v \in counts \cup {0}
    <3> HIDE DEF v
    <3>1. PICK e \in 0 .. From + 1 : /\ Cardinality(MissedIn(e, From)) <= budget
                                     /\ Cardinality(KeptIn(e, From)) = v
      BY <2>2 DEF Best
    <3>2. CASE e \in 0 .. day
      <4>1. Missed(e) = MissedIn(e, From) /\ Kept(e) = KeptIn(e, From)
        BY DEF Missed, Kept, MissedIn, KeptIn
      <4> QED
        BY <3>1, <3>2, <4>1
    <3>3. CASE e \notin 0 .. day
      <4>1. e = From + 1
        BY <2>1, <3>3
      <4> QED
        BY <2>1, <3>1, <4>1, EmptyStretch
    <3> QED
      BY <3>2, <3>3
  <2>6. ASSUME NEW n \in counts \cup {0}, \A m \in counts : m <= n PROVE n = v
    <3>1. n \in Nat
      BY <2>4
    <3>2. CASE n \in counts
      <4>1. n <= v
        BY <2>4, <3>2
      <4>2. v <= n
        <5>1. CASE v \in counts
          BY <2>6, <5>1
        <5>2. CASE v = 0
          BY <3>1, <5>2
        <5> QED
          BY <2>5, <5>1, <5>2
      <4> HIDE DEF v
      <4> QED
        BY <2>3, <3>1, <4>1, <4>2
    <3>3. CASE n = 0
      <4>1. CASE v \in counts
        BY <2>3, <2>6, <3>3, <4>1
      <4>2. CASE v = 0
        BY <3>3, <4>2
      <4> QED
        BY <2>5, <4>1, <4>2
    <3> QED
      BY <3>2, <3>3
  <2> HIDE DEF counts, v
  <2>7. v = CHOOSE n \in counts \cup {0} : \A m \in counts : m <= n
    <3>1. \E n \in counts \cup {0} : \A m \in counts : m <= n
      BY <2>4, <2>5
    <3> QED
      BY <2>6, <3>1
  <2> QED
    BY <2>7 DEF counts, v
<1> QED
  BY <1>1, <1>2 DEF StreakIsForgivingOnce

\* A remembered card waits longer than before.
LEMMA IntervalsDoGrow == ASSUME HabitsTypeOK PROVE IntervalsGrow
<1> DEFINE hard == (6 * interval + 4) \div 5
           good == (5 * interval + 1) \div 2
<1>1. interval \in Nat /\ interval <= 60
  BY DEF HabitsTypeOK
<1>2. hard \in Nat /\ 5 * hard >= 6 * interval
  BY <1>1
<1>3. good \in Nat /\ 2 * good >= 5 * interval
  BY <1>1
<1>4. hard <= good \/ interval = 0
  BY <1>1
<1>5. interval = 0 => hard = 0 /\ good = 0
  BY <1>1
<1> HIDE DEF hard, good
<1>6. ScheduleReview(interval, "hard") = Bounded(hard) /\ ScheduleReview(interval, "good") = Bounded(good)
  BY DEF ScheduleReview, hard, good
<1>7. interval < 60 => interval < Bounded(hard)
  BY <1>1, <1>2 DEF Bounded
<1>8. Bounded(hard) <= Bounded(good)
  BY <1>2, <1>3, <1>4, <1>5 DEF Bounded
<1> QED
  BY <1>6, <1>7, <1>8 DEF IntervalsGrow

\* The rows of the board hold every player once.
LEMMA EveryPlayerHasARow ==
    ASSUME NEW rows \in SetToSeqs(Players)
    PROVE  /\ Cardinality(Players) \in Nat /\ Len(rows) = Cardinality(Players)
           /\ rows \in Injection(1 .. Len(rows), Players)
           /\ rows \in Surjection(1 .. Len(rows), Players)
<1> DEFINE n == Cardinality(Players)
<1>1. n \in Nat /\ IsFiniteSet(Players)
  BY HabitsAssumption, FS_CardinalityType
<1>2. rows \in [1 .. n -> Players] /\ \A i, j \in 1 .. n : i # j => rows[i] # rows[j]
  BY DEF SetToSeqs
<1> HIDE DEF n
<1>3. Len(rows) = n
  <2>1. rows \in Seq(Players)
    BY <1>1, <1>2
  <2> QED
    BY <1>1, <1>2, <2>1
<1>4. rows \in Injection(1 .. n, Players)
  BY <1>2 DEF Injection, IsInjective
<1>5. Cardinality(1 .. n) = n
  BY <1>1, FS_Interval
<1>6. rows \in Surjection(1 .. n, Players)
  BY <1>1, <1>4, <1>5, FS_Injection DEF n
<1> QED
  BY <1>1, <1>3, <1>4, <1>6 DEF n

\* Sorted neighbours are sorted rows.
LEMMA SortedThroughout ==
    ASSUME HabitsTypeOK, NEW rows, NEW n \in Nat, rows \in [1 .. n -> Players],
           \A i \in 1 .. n - 1 : xp[rows[i]] >= xp[rows[i + 1]],
           NEW i \in 1 .. n, NEW j \in 1 .. n, i <= j
    PROVE  xp[rows[i]] >= xp[rows[j]]
<1> DEFINE P == {k \in Nat : i + k <= n => xp[rows[i]] >= xp[rows[i + k]]}
<1>1. \A k \in 1 .. n : xp[rows[k]] \in Nat
  BY HabitsAssumption DEF HabitsTypeOK
<1>2. 0 \in P
  <2>1. i + 0 = i /\ xp[rows[i]] >= xp[rows[i]]
    BY <1>1
  <2> QED
    BY <2>1
<1>3. ASSUME NEW k \in P PROVE k + 1 \in P
  <2>1. SUFFICES ASSUME i + (k + 1) <= n PROVE xp[rows[i]] >= xp[rows[i + (k + 1)]]
    OBVIOUS
  <2>2. /\ i + k \in 1 .. n - 1 /\ i + k \in 1 .. n /\ (i + k) + 1 = i + (k + 1)
        /\ i + (k + 1) \in 1 .. n /\ i + k <= n
    BY <2>1
  <2>3. xp[rows[i + k]] >= xp[rows[(i + k) + 1]]
    BY <2>2
  <2>4. xp[rows[i]] >= xp[rows[i + k]]
    BY <2>2
  <2>5. /\ xp[rows[i]] \in Nat /\ xp[rows[i + k]] \in Nat /\ xp[rows[i + (k + 1)]] \in Nat
    BY <1>1, <2>2
  <2>6. xp[rows[i + k]] >= xp[rows[i + (k + 1)]]
    BY <2>2, <2>3
  <2> QED
    BY <2>4, <2>5, <2>6
<1>4. P = Nat
  <2>1. P \in SUBSET Nat
    OBVIOUS
  <2> HIDE DEF P
  <2> QED
    BY <1>2, <1>3, <2>1, NatInductionOnASet
<1>5. PICK k \in Nat : i + k = j
  <2>1. j - i \in Nat /\ i + (j - i) = j
    OBVIOUS
  <2> QED
    BY <2>1
<1>6. k \in P
  <2> HIDE DEF P
  <2> QED
    BY <1>4
<1>7. i + k <= n
  BY <1>5
<1> QED
  BY <1>5, <1>6, <1>7

\* The players before a row that is behind the one above it are those above it.
LEMMA ThoseAhead ==
    ASSUME HabitsTypeOK, NEW rows \in SetToSeqs(Players), NEW i \in 1 .. Len(rows),
           \A k \in 1 .. Len(rows) - 1 : xp[rows[k]] >= xp[rows[k + 1]],
           i > 1 => xp[rows[i - 1]] # xp[rows[i]]
    PROVE  Cardinality({p \in Players : xp[p] > xp[rows[i]]}) = i - 1
<1> DEFINE n == Len(rows)
           ahead == {p \in Players : xp[p] > xp[rows[i]]}
           f == [k \in 1 .. i - 1 |-> rows[k]]
<1>1. /\ n \in Nat /\ rows \in Injection(1 .. n, Players) /\ rows \in Surjection(1 .. n, Players)
  BY EveryPlayerHasARow
<1>2. rows \in [1 .. n -> Players] /\ i \in 1 .. n
  BY <1>1 DEF Injection
<1>3. \A k \in 1 .. n : xp[rows[k]] \in Nat
  BY <1>2, HabitsAssumption DEF HabitsTypeOK
<1>s. \A k \in 1 .. n - 1 : xp[rows[k]] >= xp[rows[k + 1]]
  OBVIOUS
<1> HIDE DEF n
<1>4. ASSUME NEW k \in 1 .. i - 1 PROVE rows[k] \in ahead /\ k \in 1 .. n
  <2>1. /\ k \in 1 .. n /\ i - 1 \in 1 .. n - 1 /\ i - 1 \in 1 .. n /\ k <= i - 1 /\ i > 1
        /\ (i - 1) + 1 = i /\ i \in 1 .. n
    BY <1>1, <1>2
  <2>2. xp[rows[k]] >= xp[rows[i - 1]]
    BY <1>1, <1>2, <1>s, <2>1, SortedThroughout
  <2>3. xp[rows[i - 1]] >= xp[rows[(i - 1) + 1]]
    BY <1>s, <2>1
  <2>4. xp[rows[i - 1]] # xp[rows[i]]
    BY <2>1
  <2>5. xp[rows[k]] \in Nat /\ xp[rows[i - 1]] \in Nat /\ xp[rows[i]] \in Nat
    BY <1>3, <2>1
  <2>6. xp[rows[i - 1]] >= xp[rows[i]]
    BY <2>1, <2>3
  <2>7. xp[rows[k]] > xp[rows[i]]
    BY <2>2, <2>4, <2>5, <2>6
  <2> QED
    BY <1>2, <2>1, <2>7
<1>5. ASSUME NEW p \in ahead PROVE \E k \in 1 .. i - 1 : rows[k] = p
  <2>1. PICK k \in 1 .. n : rows[k] = p
    BY <1>1 DEF Surjection
  <2>2. xp[rows[k]] > xp[rows[i]]
    BY <2>1
  <2>3. ASSUME i <= k PROVE FALSE
    <3>1. xp[rows[i]] >= xp[rows[k]]
      BY <1>1, <1>2, <1>s, <2>3, SortedThroughout
    <3> QED
      BY <1>2, <1>3, <2>2, <3>1
  <2> QED
    BY <1>1, <1>2, <2>1, <2>3
<1> HIDE DEF ahead
<1>6. f \in Bijection(1 .. i - 1, ahead)
  <2>1. f \in [1 .. i - 1 -> ahead]
    BY <1>4
  <2>2. \A a, b \in 1 .. i - 1 : f[a] = f[b] => a = b
    <3>1. SUFFICES ASSUME NEW a \in 1 .. i - 1, NEW b \in 1 .. i - 1, rows[a] = rows[b] PROVE a = b
      OBVIOUS
    <3>2. a \in 1 .. n /\ b \in 1 .. n
      BY <1>4
    <3> QED
      BY <1>1, <3>1, <3>2 DEF Injection, IsInjective
  <2>3. \A p \in ahead : \E k \in 1 .. i - 1 : f[k] = p
    BY <1>5
  <2> HIDE DEF f
  <2> QED
    BY <2>1, <2>2, <2>3 DEF Bijection, Injection, Surjection, IsInjective
<1>7. IsFiniteSet(1 .. i - 1) /\ Cardinality(1 .. i - 1) = i - 1
  BY <1>2, FS_Interval
<1>8. Cardinality(ahead) = Cardinality(1 .. i - 1)
  BY <1>6, <1>7, FS_Bijection DEF ExistsBijection
<1> QED
  BY <1>7, <1>8 DEF ahead

\* The ranks of a board are the places on it.
LEMMA RanksArePlaces == ASSUME HabitsTypeOK PROVE RankIsPlace
<1> SUFFICES ASSUME NEW rows \in SetToSeqs(Players),
                    \A k \in 1 .. Len(rows) - 1 : xp[rows[k]] >= xp[rows[k + 1]],
                    NEW i \in 1 .. Len(rows)
             PROVE  RankRows(rows)[i] = 1 + Cardinality({p \in Players : xp[p] > xp[rows[i]]})
  BY DEF RankIsPlace
<1> DEFINE n == Len(rows)
           place(k) == 1 + Cardinality({p \in Players : xp[p] > xp[rows[k]]})
           same(k) == k > 1 /\ xp[rows[k]] = xp[rows[k - 1]]
           r == [k \in 1 .. n |-> place(k)]
<1>1. n \in Nat
  BY EveryPlayerHasARow
<1>2. ASSUME NEW k \in 1 .. n, same(k) PROVE place(k) = place(k - 1) /\ k - 1 \in 1 .. n
  BY <1>1, <1>2
<1>3. ASSUME NEW k \in 1 .. n, ~same(k) PROVE place(k) = k
  <2>1. Cardinality({p \in Players : xp[p] > xp[rows[k]]}) = k - 1
    BY <1>3, ThoseAhead
  <2> QED
    BY <1>1, <2>1
<1>4. \A k \in 1 .. n : r[k] = place(k)
  OBVIOUS
<1> HIDE DEF place
<1>5. ASSUME NEW k \in 1 .. n PROVE r[k] = IF same(k) THEN r[k - 1] ELSE k
  BY <1>2, <1>3, <1>4
<1>6. r = [k \in 1 .. n |-> r[k]]
  BY DEF r
<1> HIDE DEF r
<1>7. r = [k \in 1 .. n |-> IF same(k) THEN r[k - 1] ELSE k]
  <2> HIDE DEF same
  <2> QED
    BY <1>5, <1>6
<1> DEFINE rank[k \in 1 .. Len(rows)] ==
             IF k > 1 /\ xp[rows[k]] = xp[rows[k - 1]] THEN rank[k - 1] ELSE k
<1>8. rank = [k \in 1 .. n |-> IF same(k) THEN rank[k - 1] ELSE k]
  BY <1>7
<1>9. RankRows(rows) = rank
  BY DEF RankRows
<1> HIDE DEF rank
<1> DEFINE P == {m \in Nat : m + 1 <= n => rank[m + 1] = r[m + 1]}
<1>10. 0 \in P
  <2>1. SUFFICES ASSUME 1 <= n PROVE rank[1] = r[1]
    OBVIOUS
  <2>2. 1 \in 1 .. n /\ ~same(1)
    BY <1>1, <2>1
  <2> HIDE DEF same
  <2> QED
    BY <1>7, <1>8, <2>2
<1>11. ASSUME NEW m \in P PROVE m + 1 \in P
  <2>1. SUFFICES ASSUME m + 1 + 1 <= n PROVE rank[m + 1 + 1] = r[m + 1 + 1]
    OBVIOUS
  <2>2. /\ m + 1 + 1 \in 1 .. n /\ m + 1 <= n /\ (m + 1 + 1) - 1 = m + 1
    BY <1>1, <2>1
  <2>3. rank[m + 1] = r[m + 1]
    BY <2>2
  <2> DEFINE k == m + 1 + 1
  <2>4. k \in 1 .. n /\ k - 1 = m + 1
    BY <2>2
  <2>5. rank[k - 1] = r[k - 1]
    BY <2>3, <2>4
  <2> HIDE DEF k, same
  <2>6. rank[k] = r[k]
    BY <1>7, <1>8, <2>4, <2>5
  <2> QED
    BY <2>6 DEF k
<1>12. P = Nat
  <2>1. P \in SUBSET Nat
    OBVIOUS
  <2> HIDE DEF P
  <2> QED
    BY <1>10, <1>11, <2>1, NatInductionOnASet
<1>13. PICK m \in Nat : m + 1 = i
  <2>1. i - 1 \in Nat /\ (i - 1) + 1 = i
    BY <1>1
  <2> QED
    BY <2>1
<1>14. m \in P
  <2> HIDE DEF P
  <2> QED
    BY <1>12
<1>15. rank[i] = r[i]
  <2>1. m + 1 <= n
    BY <1>1, <1>13
  <2> QED
    BY <1>13, <1>14, <2>1
<1> QED
  BY <1>4, <1>9, <1>15 DEF place

\* The rules of practice mean what they say, whatever the days and the board.
LEMMA HabitsAreMeant == ASSUME HabitsTypeOK PROVE HabitsMeanWhatTheySay
BY StreaksForgiveOnce, IntervalsDoGrow, RanksArePlaces DEF HabitsMeanWhatTheySay
-----------------------------------------------------------------------------

\* The focus timer is a stop watch (FocusTimer, StopWatch).

\* The transactions asked for, run one after the other on a record.
GrantedInTurn(f, r, calls) ==
    /\ f \in [0 .. Len(calls) -> FocusRecord] /\ f[0] = r
    /\ \A m \in 1 .. Len(calls) : f[m] = AdvanceFocus(f[m - 1], calls[m].action, calls[m].at)

\* What the waiting calls come to is what granting them in turn gives.
LEMMA GrantedIsInTurn ==
    ASSUME NEW r \in FocusRecord, NEW calls \in Seq(FocusCall)
    PROVE  \E f : GrantedInTurn(f, r, calls) /\ Granted(r, calls) = {f[Len(calls)]}
<1> DEFINE n == Len(calls)
           step == [m \in 1 .. n |-> [q \in FocusRecord |-> AdvanceFocus(q, calls[m].action, calls[m].at)]]
<1>1. n \in Nat /\ \A m \in 1 .. n : calls[m] \in FocusCall
  BY ElementOfSeq
<1>2. step \in [1 .. n -> [FocusRecord -> FocusRecord]]
  BY <1>1, AdvanceType DEF FocusCall
<1>3. \A m \in 1 .. n, q \in FocusRecord : step[m][q] = AdvanceFocus(q, calls[m].action, calls[m].at)
  OBVIOUS
<1> HIDE DEF step
<1>4. PICK f \in [0 .. n -> FocusRecord] : f[0] = r /\ \A m \in 1 .. n : f[m] = step[m][f[m - 1]]
  <2> HIDE DEF n
  <2>1. n \in Nat /\ StepsOn(FocusRecord, step, n)
    BY <1>1, <1>2 DEF StepsOn
  <2>2. PICK f : Follows(f, FocusRecord, r, step, n)
    BY <2>1, StepsAfterSteps
  <2> QED
    BY <2>2 DEF Follows
<1>5. \A m \in 1 .. n : m - 1 \in 0 .. n /\ f[m] = AdvanceFocus(f[m - 1], calls[m].action, calls[m].at)
  <2> TAKE m \in 1 .. n
  <2>1. m - 1 \in 0 .. n
    BY <1>1
  <2>2. f[m - 1] \in FocusRecord
    BY <2>1
  <2> QED
    BY <1>3, <1>4, <2>1, <2>2
<1>6. GrantedInTurn(f, r, calls)
  BY <1>4, <1>5 DEF GrantedInTurn
<1> DEFINE g == [k \in 0 .. n |-> {f[k]}]
<1>7. g = [k \in 0 .. n |-> IF k = 0 THEN {r} ELSE Done(g[k - 1], calls[k])]
  <2>1. ASSUME NEW k \in 0 .. n PROVE {f[k]} = IF k = 0 THEN {r} ELSE Done(g[k - 1], calls[k])
    <3>1. CASE k = 0
      BY <1>4, <3>1
    <3>2. CASE k # 0
      <4>1. k \in 1 .. n /\ k - 1 \in 0 .. n
        BY <1>1, <3>2
      <4>2. g[k - 1] = {f[k - 1]}
        BY <4>1
      <4>3. f[k] = AdvanceFocus(f[k - 1], calls[k].action, calls[k].at)
        BY <1>5, <4>1
      <4> HIDE DEF g
      <4>4. Done(g[k - 1], calls[k]) = {f[k]}
        BY <4>2, <4>3 DEF Done
      <4> QED
        BY <3>2, <4>4
    <3> QED
      BY <3>1, <3>2
  <2> QED
    BY <2>1
<1> HIDE DEF g
<1> DEFINE done[k \in 0 .. Len(calls)] == IF k = 0 THEN {r} ELSE Done(done[k - 1], calls[k])
<1>8. done = [k \in 0 .. n |-> IF k = 0 THEN {r} ELSE Done(done[k - 1], calls[k])]
  BY <1>7
<1>9. Granted(r, calls) = done[n]
  BY DEF Granted
<1> HIDE DEF done
<1> DEFINE P == {k \in Nat : k <= n => done[k] = {f[k]}}
<1>10. 0 \in P
  <2>1. 0 \in 0 .. n
    BY <1>1
  <2>2. done[0] = {r}
    BY <1>8, <2>1
  <2> QED
    BY <1>4, <2>2
<1>11. ASSUME NEW k \in P PROVE k + 1 \in P
  <2>1. SUFFICES ASSUME k + 1 <= n PROVE done[k + 1] = {f[k + 1]}
    OBVIOUS
  <2>2. k \in Nat /\ k <= n /\ k + 1 \in 1 .. n /\ k + 1 \in 0 .. n /\ (k + 1) - 1 = k /\ k + 1 # 0
    BY <1>1, <2>1
  <2>3. done[k] = {f[k]}
    BY <2>2
  <2>4. done[k + 1] = Done(done[k], calls[k + 1])
    BY <1>8, <2>2
  <2>5. f[k + 1] = AdvanceFocus(f[k], calls[k + 1].action, calls[k + 1].at)
    BY <1>5, <2>2
  <2> QED
    BY <2>3, <2>4, <2>5 DEF Done
<1>12. P = Nat
  <2>1. P \in SUBSET Nat
    OBVIOUS
  <2> HIDE DEF P
  <2> QED
    BY <1>10, <1>11, <2>1, NatInductionOnASet
<1>13. n \in P
  <2> HIDE DEF P
  <2> QED
    BY <1>1, <1>12
<1>14. done[n] = {f[n]}
  BY <1>1, <1>13
<1> QED
  BY <1>6, <1>9, <1>14

\* Two runs that take the same steps from the same record, one of them from further
\* down its list, arrive at the same.
LEMMA SameStepsSameEnd ==
    ASSUME NEW r \in FocusRecord, NEW q \in FocusRecord,
           NEW calls \in Seq(FocusCall), NEW longer \in Seq(FocusCall), NEW skip \in Nat,
           NEW f, GrantedInTurn(f, r, calls), NEW g, GrantedInTurn(g, q, longer),
           Len(calls) + skip <= Len(longer), g[skip] = r,
           \A m \in 1 .. Len(calls) : longer[m + skip] = calls[m]
    PROVE  f[Len(calls)] = g[Len(calls) + skip]
<1> DEFINE n == Len(calls)
           P == {k \in Nat : k <= n => f[k] = g[k + skip]}
<1>1. n \in Nat /\ Len(longer) \in Nat
  OBVIOUS
<1>2. 0 \in P
  <2>1. f[0] = r /\ 0 + skip = skip
    BY DEF GrantedInTurn
  <2> QED
    BY <2>1
<1>3. ASSUME NEW k \in P PROVE k + 1 \in P
  <2>1. SUFFICES ASSUME k + 1 <= n PROVE f[k + 1] = g[k + 1 + skip]
    OBVIOUS
  <2>2. /\ k \in Nat /\ k <= n /\ k + 1 \in 1 .. n /\ (k + 1) - 1 = k
        /\ k + 1 + skip \in 1 .. Len(longer) /\ (k + 1 + skip) - 1 = k + skip
    BY <1>1, <2>1
  <2>3. f[k] = g[k + skip]
    BY <2>2
  <2>4. f[k + 1] = AdvanceFocus(f[k], calls[k + 1].action, calls[k + 1].at)
    BY <2>2 DEF GrantedInTurn
  <2>5. g[k + 1 + skip] = AdvanceFocus(g[k + skip], longer[k + 1 + skip].action, longer[k + 1 + skip].at)
    BY <2>2 DEF GrantedInTurn
  <2>6. longer[k + 1 + skip] = calls[k + 1]
    BY <2>2
  <2> QED
    BY <2>3, <2>4, <2>5, <2>6
<1>4. P = Nat
  <2>1. P \in SUBSET Nat
    OBVIOUS
  <2> HIDE DEF P
  <2> QED
    BY <1>2, <1>3, <2>1, NatInductionOnASet
<1>5. n \in P
  <2> HIDE DEF P
  <2> QED
    BY <1>1, <1>4
<1> QED
  BY <1>1, <1>5

\* A record the timer can be left in at t: nothing is counted before it happened,
\* and a session that runs has time to go.
Sound(r, t) ==
    /\ r \in FocusRecord /\ r.accountedAt <= t
    /\ r.accountedAt # Never => r.remaining > 0

\* The seconds that fall on a day, second by second.
LEMMA OverlapGrows ==
    ASSUME NEW a \in Nat, NEW c \in Nat, a <= c, NEW d \in Nat
    PROVE  /\ Overlap(a, a, d) = 0 /\ Overlap(a, c, d) \in Nat
           /\ Overlap(a, c + 1, d) = Overlap(a, c, d) + (IF d * DayLength <= c /\ c < (d + 1) * DayLength THEN 1 ELSE 0)
<1>1. d * DayLength \in Nat /\ (d + 1) * DayLength \in Nat /\ d * DayLength <= (d + 1) * DayLength
  BY FocusAssumption
<1>2. PICK b \in Nat, e \in Nat : b = d * DayLength /\ e = (d + 1) * DayLength /\ b <= e
  BY <1>1
<1>3. /\ Overlap(a, a, d) = Higher(0, Lower(a, e) - Higher(a, b))
      /\ Overlap(a, c, d) = Higher(0, Lower(c, e) - Higher(a, b))
      /\ Overlap(a, c + 1, d) = Higher(0, Lower(c + 1, e) - Higher(a, b))
  BY <1>2 DEF Overlap
<1>4. /\ Higher(0, Lower(a, e) - Higher(a, b)) = 0
      /\ Higher(0, Lower(c, e) - Higher(a, b)) \in Nat
      /\ Higher(0, Lower(c + 1, e) - Higher(a, b)) =
             Higher(0, Lower(c, e) - Higher(a, b)) + (IF b <= c /\ c < e THEN 1 ELSE 0)
  BY <1>2 DEF Higher, Lower
<1> QED
  BY <1>2, <1>3, <1>4

\* What a tick makes of a session that runs.
LEMMA CreditOf ==
    ASSUME NEW t \in Nat, NEW r, Sound(r, t), r.accountedAt # Never
    PROVE  LET used == Used(r, t)
               credited == TickFocus(r, t) IN
           /\ used \in Nat /\ used <= r.remaining /\ used <= t - r.accountedAt
           /\ used = r.remaining \/ used = t - r.accountedAt
           /\ credited.remaining = r.remaining - used
           /\ credited.accountedAt = IF r.remaining = used THEN Never ELSE r.accountedAt + used
           /\ credited.focusSeconds = r.focusSeconds + used
           /\ credited.focusByDay = [d \in Days |-> r.focusByDay[d] + Overlap(r.accountedAt, r.accountedAt + used, d)]
           /\ credited.activity = [d \in Days |-> r.activity[d] +
                 (IF Overlap(r.accountedAt, r.accountedAt + used, d) > 0 /\ r.focusByDay[d] = 0 THEN 1 ELSE 0)]
<1> DEFINE used == Used(r, t)
<1>1. r.accountedAt \in Nat /\ r.remaining \in Nat /\ r.accountedAt <= t /\ r.remaining > 0
  <2>1. Session \in Nat /\ End \in Nat
    BY FocusAssumption DEF End
  <2> QED
    BY <2>1 DEF Sound, FocusRecord
<1>2. /\ used \in Nat /\ used <= r.remaining /\ used <= t - r.accountedAt
      /\ used = r.remaining \/ used = t - r.accountedAt
  BY <1>1 DEF Used, Lower
<1>3. TickFocus(r, t) = Credit(r, t)
  BY <1>1 DEF TickFocus, Credits
<1> HIDE DEF used
<1>4. Credit(r, t) = [remaining |-> r.remaining - used,
     accountedAt |-> IF r.remaining = used THEN Never ELSE r.accountedAt + used,
     focusByDay |-> [d \in Days |-> r.focusByDay[d] + Overlap(r.accountedAt, r.accountedAt + used, d)],
     activity |-> [d \in Days |-> r.activity[d] +
                     (IF Overlap(r.accountedAt, r.accountedAt + used, d) > 0 /\ r.focusByDay[d] = 0 THEN 1 ELSE 0)],
     focusSeconds |-> r.focusSeconds + used]
  BY DEF Credit, used
<1> QED
  BY <1>2, <1>3, <1>4 DEF used

\* A paused timer does not move.
LEMMA PausedStays ==
    ASSUME NEW r, NEW t, r.accountedAt = Never PROVE TickFocus(r, t) = r
BY DEF TickFocus, Credits

\* A tick leaves a sound record, that has counted up to now if it runs.
LEMMA TickIsSound ==
    ASSUME NEW t \in 0 .. End, NEW r, Sound(r, t)
    PROVE  LET credited == TickFocus(r, t) IN
           Sound(credited, t) /\ credited.accountedAt \in {Never, t}
<1> DEFINE credited == TickFocus(r, t)
<1>1. t \in Nat /\ Session \in Nat /\ End \in Nat
  BY FocusAssumption DEF End
<1>2. CASE r.accountedAt = Never
  BY <1>2, PausedStays
<1>3. CASE r.accountedAt # Never
  <2>1. credited \in FocusRecord
    <3>1. AdvanceFocus(r, "tick", t) \in FocusRecord
      BY AdvanceType DEF Sound
    <3> QED
      BY <3>1 DEF AdvanceFocus
  <2>2. r.accountedAt \in Nat /\ r.remaining \in Nat /\ r.accountedAt <= t
    BY <1>1, <1>3 DEF Sound, FocusRecord
  <2>3. PICK used \in Nat : /\ used <= r.remaining /\ (used = r.remaining \/ used = t - r.accountedAt)
                            /\ credited.remaining = r.remaining - used
                            /\ credited.accountedAt = IF r.remaining = used THEN Never ELSE r.accountedAt + used
    <3> DEFINE u == Used(r, t)
    <3>1. /\ u \in Nat /\ u <= r.remaining /\ (u = r.remaining \/ u = t - r.accountedAt)
          /\ credited.remaining = r.remaining - u
          /\ credited.accountedAt = IF r.remaining = u THEN Never ELSE r.accountedAt + u
      BY <1>1, <1>3, CreditOf
    <3> HIDE DEF u, credited
    <3> QED
      BY <3>1
  <2> HIDE DEF credited
  <2>4. CASE r.remaining = used
    <3>1. credited.accountedAt = Never /\ Never <= t
      BY <1>1, <2>3, <2>4 DEF Never
    <3> QED
      BY <2>1, <3>1 DEF Sound, credited
  <2>5. CASE r.remaining # used
    <3>1. credited.accountedAt = t /\ t <= t /\ credited.remaining > 0
      BY <1>1, <2>2, <2>3, <2>5
    <3> QED
      BY <2>1, <3>1 DEF Sound, credited
  <2> QED
    BY <2>4, <2>5
<1> QED
  BY <1>2, <1>3

\* So does every transaction.
LEMMA AdvanceIsSound ==
    ASSUME NEW t \in 0 .. End, NEW r, Sound(r, t), NEW action \in {"tick", "start", "pause", "reset"}
    PROVE  Sound(AdvanceFocus(r, action, t), t)
<1> DEFINE credited == TickFocus(r, t)
           after == AdvanceFocus(r, action, t)
<1>1. after \in FocusRecord
  BY AdvanceType DEF Sound
<1>2. Sound(credited, t)
  BY TickIsSound
<1>3. t \in Nat /\ Session > 0 /\ Session \in Nat /\ Never <= t /\ t # Never
  BY FocusAssumption DEF Never, End
<1>4. credited \in FocusRecord /\ credited.remaining \in Nat
  BY <1>2, <1>3 DEF Sound, FocusRecord
<1>5. \/ after = [credited EXCEPT !.accountedAt = t, !.remaining = IF @ = 0 THEN Session ELSE @]
      \/ after = [credited EXCEPT !.accountedAt = Never]
      \/ after = [credited EXCEPT !.accountedAt = Never, !.remaining = Session]
      \/ after = credited
  BY DEF AdvanceFocus
<1> HIDE DEF credited, after
<1>6. CASE after = [credited EXCEPT !.accountedAt = t, !.remaining = IF @ = 0 THEN Session ELSE @]
  <2>1. after.accountedAt = t /\ after.remaining = IF credited.remaining = 0 THEN Session ELSE credited.remaining
    BY <1>4, <1>6 DEF FocusRecord
  <2>2. after.remaining > 0 /\ t <= t
    BY <1>3, <1>4, <2>1
  <2> QED
    BY <1>1, <2>1, <2>2 DEF Sound, after
<1>7. CASE after.accountedAt = Never
  BY <1>1, <1>3, <1>7 DEF Sound, after
<1>8. ASSUME after = [credited EXCEPT !.accountedAt = Never] \/ after = [credited EXCEPT !.accountedAt = Never, !.remaining = Session]
      PROVE  after.accountedAt = Never
  BY <1>4, <1>8 DEF FocusRecord
<1> QED
  BY <1>2, <1>5, <1>6, <1>7, <1>8 DEF after

\* Nor does one that was called before the record was last accounted for do harm.
LEMMA AdvanceStaysSound ==
    ASSUME NEW t \in 0 .. End, NEW now \in 0 .. End, now <= t, NEW r, Sound(r, t),
           NEW action \in {"tick", "start", "pause", "reset"}
    PROVE  Sound(AdvanceFocus(r, action, now), t)
<1> DEFINE after == AdvanceFocus(r, action, now)
<1>1. End \in Nat /\ r \in FocusRecord /\ after \in FocusRecord
  BY AdvanceType, FocusAssumption DEF Sound, End
<1>2. r.accountedAt \in Int /\ after.accountedAt \in Int /\ Never \in Int /\ Never < 0
  BY <1>1 DEF FocusRecord, Never
<1>3. CASE r.accountedAt <= now
  <2>1. Sound(r, now)
    BY <1>3 DEF Sound
  <2>2. Sound(after, now)
    BY <2>1, AdvanceIsSound
  <2> HIDE DEF after
  <2>3. after.accountedAt <= t
    BY <1>1, <1>2, <2>2 DEF Sound
  <2> QED
    BY <2>2, <2>3 DEF Sound, after
<1>4. CASE ~(r.accountedAt <= now)
  <2>1. TickFocus(r, now) = r /\ r.accountedAt # Never
    BY <1>1, <1>2, <1>4 DEF TickFocus, Credits
  <2>2. \/ after = r
        \/ after = [r EXCEPT !.accountedAt = Never]
        \/ after = [r EXCEPT !.accountedAt = Never, !.remaining = Session]
    BY <2>1 DEF AdvanceFocus
  <2> HIDE DEF after
  <2>3. after = r \/ after.accountedAt = Never
    BY <1>1, <2>2 DEF FocusRecord
  <2>4. CASE after = r
    BY <2>4 DEF after
  <2>5. CASE after.accountedAt = Never
    <3>1. after.accountedAt <= t
      BY <1>1, <1>2, <2>5
    <3> QED
      BY <1>1, <2>5, <3>1 DEF Sound, after
  <2> QED
    BY <2>3, <2>4, <2>5
<1> QED
  BY <1>3, <1>4

\* A transaction granted is one less to wait for.
LEMMA GrantOne ==
    ASSUME NEW r \in FocusRecord, NEW calls \in Seq(FocusCall), calls # << >>
    PROVE  Granted(r, calls) = Granted(AdvanceFocus(r, Head(calls).action, Head(calls).at), Tail(calls))
<1> DEFINE q == AdvanceFocus(r, Head(calls).action, Head(calls).at)
           rest == Tail(calls)
<1>1. /\ Len(calls) \in Nat /\ Len(calls) # 0 /\ Head(calls) = calls[1] /\ Head(calls) \in FocusCall
      /\ rest \in Seq(FocusCall) /\ Len(rest) = Len(calls) - 1
      /\ \A m \in 1 .. Len(rest) : rest[m] = calls[m + 1]
  BY HeadTailProperties, EmptySeq, ElementOfSeq
<1>2. q \in FocusRecord
  BY <1>1, AdvanceType DEF FocusCall
<1> HIDE DEF rest, q
<1>3. PICK f : GrantedInTurn(f, q, rest) /\ Granted(q, rest) = {f[Len(rest)]}
  BY <1>1, <1>2, GrantedIsInTurn
<1>4. PICK g : GrantedInTurn(g, r, calls) /\ Granted(r, calls) = {g[Len(calls)]}
  BY GrantedIsInTurn
<1>5. g[1] = q
  <2>1. 1 \in 1 .. Len(calls) /\ 1 - 1 = 0
    BY <1>1
  <2>2. g[1] = AdvanceFocus(g[0], calls[1].action, calls[1].at) /\ g[0] = r
    BY <1>4, <2>1 DEF GrantedInTurn
  <2> QED
    BY <1>1, <2>2 DEF q
<1>6. f[Len(rest)] = g[Len(rest) + 1]
  <2>1. 1 \in Nat /\ Len(rest) + 1 <= Len(calls)
    BY <1>1
  <2> QED
    BY <1>1, <1>2, <1>3, <1>4, <1>5, <2>1, SameStepsSameEnd
<1>7. Len(rest) + 1 = Len(calls)
  BY <1>1
<1> QED
  BY <1>3, <1>4, <1>6, <1>7 DEF q, rest

\* A transaction asked for is one more to come.
LEMMA AskOne ==
    ASSUME NEW r \in FocusRecord, NEW calls \in Seq(FocusCall), NEW c \in FocusCall
    PROVE  Granted(r, Append(calls, c)) = Done(Granted(r, calls), c)
<1> DEFINE longer == Append(calls, c)
<1>1. /\ Len(calls) \in Nat /\ longer \in Seq(FocusCall) /\ Len(longer) = Len(calls) + 1
      /\ longer[Len(calls) + 1] = c /\ \A m \in 1 .. Len(calls) : longer[m] = calls[m]
  BY AppendProperties
<1> HIDE DEF longer
<1>2. PICK f : GrantedInTurn(f, r, calls) /\ Granted(r, calls) = {f[Len(calls)]}
  BY GrantedIsInTurn
<1>3. PICK g : GrantedInTurn(g, r, longer) /\ Granted(r, longer) = {g[Len(longer)]}
  BY <1>1, GrantedIsInTurn
<1>4. f[Len(calls)] = g[Len(calls)]
  <2>1. /\ 0 \in Nat /\ Len(calls) + 0 <= Len(longer) /\ Len(calls) + 0 = Len(calls)
        /\ \A m \in 1 .. Len(calls) : m + 0 = m
    BY <1>1
  <2>2. g[0] = r
    BY <1>3 DEF GrantedInTurn
  <2>3. \A m \in 1 .. Len(calls) : longer[m + 0] = calls[m]
    BY <1>1, <2>1
  <2>4. f[Len(calls)] = g[Len(calls) + 0]
    BY <1>1, <1>2, <1>3, <2>1, <2>2, <2>3, SameStepsSameEnd
  <2> QED
    BY <2>1, <2>4
<1>5. g[Len(longer)] = AdvanceFocus(g[Len(calls)], c.action, c.at)
  <2>1. Len(longer) \in 1 .. Len(longer) /\ Len(longer) - 1 = Len(calls)
    BY <1>1
  <2> QED
    BY <1>1, <1>3, <2>1 DEF GrantedInTurn
<1> QED
  BY <1>2, <1>3, <1>4, <1>5 DEF longer, Done

\* No call and nothing accounted for lies ahead of the clock.
NothingIsAhead == Sound(record, clock) /\ \A i \in 1 .. Len(asked) : asked[i].at <= clock

FocusSteady == FocusInv /\ NothingIsAhead

\* A call that waits was made at a second on the clock.
LEMMA CallIsTyped ==
    ASSUME FocusInv, NEW i \in 1 .. Len(asked)
    PROVE  asked[i] \in FocusCall /\ asked[i].at \in 0 .. End
           /\ asked[i].action \in {"tick", "start", "pause", "reset"}
<1>1. asked \in Seq(FocusCall)
  BY DEF FocusInv, FocusTypeOK
<1>2. asked[i] \in FocusCall
  BY <1>1, ElementOfSeq
<1> QED
  BY <1>2 DEF FocusCall

\* What the record comes to is one sound record.
LEMMA OneOutcome ==
    ASSUME FocusSteady
    PROVE  \E q : Granted(record, asked) = {q} /\ Sound(q, clock)
<1> DEFINE n == Len(asked)
<1>1. /\ n \in Nat /\ record \in FocusRecord /\ asked \in Seq(FocusCall) /\ clock \in 0 .. End
      /\ End \in Nat
  BY FocusAssumption DEF FocusSteady, FocusInv, FocusTypeOK, End
<1>2. PICK f : GrantedInTurn(f, record, asked) /\ Granted(record, asked) = {f[n]}
  BY <1>1, GrantedIsInTurn
<1> DEFINE P == {k \in Nat : k <= n => Sound(f[k], clock)}
<1>3. 0 \in P
  <2>1. f[0] = record
    BY <1>2 DEF GrantedInTurn
  <2> QED
    BY <2>1 DEF FocusSteady, NothingIsAhead
<1>4. ASSUME NEW k \in P PROVE k + 1 \in P
  <2> DEFINE i == k + 1
  <2>1. SUFFICES ASSUME i <= n PROVE Sound(f[i], clock)
    OBVIOUS
  <2>2. k \in Nat /\ i \in 1 .. n /\ k <= n /\ i - 1 = k
    BY <1>1, <2>1
  <2>3. Sound(f[k], clock)
    BY <2>2
  <2>4. f[i] = AdvanceFocus(f[k], asked[i].action, asked[i].at)
    BY <1>2, <2>2 DEF GrantedInTurn
  <2> HIDE DEF i
  <2>5. /\ asked[i].at \in 0 .. End /\ asked[i].action \in {"tick", "start", "pause", "reset"}
        /\ asked[i].at <= clock
    BY <2>2, CallIsTyped DEF FocusSteady, NothingIsAhead
  <2> QED
    BY <1>1, <2>3, <2>4, <2>5, AdvanceStaysSound
<1>5. P = Nat
  <2>1. P \in SUBSET Nat
    OBVIOUS
  <2> HIDE DEF P
  <2> QED
    BY <1>3, <1>4, <2>1, NatInductionOnASet
<1>6. n \in P
  <2> HIDE DEF P
  <2> QED
    BY <1>1, <1>5
<1> QED
  BY <1>1, <1>2, <1>6

\* Nothing is counted before it happened, in every reachable state, whatever order
\* the lock is granted in.
THEOREM FocusStaysSteady == FocusSpec => []FocusSteady
<1>1. ASSUME FocusInit, FocusInv PROVE FocusSteady
  <2>1. Sound(record, clock) /\ Len(asked) = 0
    BY <1>1 DEF FocusInit, FocusInv, FocusTypeOK, Sound, Never
  <2> QED
    BY <1>1, <2>1 DEF FocusSteady, NothingIsAhead
<1>2. ASSUME FocusSteady, FocusInv', [FocusNext]_focusVars PROVE FocusSteady'
  <2>1. /\ clock \in 0 .. End /\ record \in FocusRecord /\ asked \in Seq(FocusCall) /\ End \in Nat
        /\ Sound(record, clock) /\ record.accountedAt \in Int
    BY <1>2, FocusAssumption DEF FocusSteady, FocusInv, FocusTypeOK, NothingIsAhead, End, FocusRecord, Never
  <2>2. \A i \in 1 .. Len(asked) : asked[i].at \in 0 .. End /\ asked[i].at <= clock
    BY <1>2, CallIsTyped DEF FocusSteady, NothingIsAhead
  <2>3. CASE UNCHANGED focusVars
    BY <1>2, <2>3 DEF focusVars, FocusSteady, NothingIsAhead
  <2>4. CASE FocusClock
    <3>1. clock' = clock + 1 /\ record' = record /\ asked' = asked
      BY <2>4 DEF FocusClock
    <3>2. Sound(record, clock + 1)
      BY <2>1 DEF Sound
    <3>3. \A i \in 1 .. Len(asked) : asked[i].at <= clock + 1
      BY <2>1, <2>2
    <3> QED
      BY <1>2, <3>1, <3>2, <3>3 DEF FocusSteady, NothingIsAhead
  <2>5. ASSUME NEW t \in FocusTabs, CheckpointFocus(t) PROVE FocusSteady'
    <3>1. PICK action \in {"tick", "start", "pause", "reset"} :
             asked' = Append(asked, [tab |-> t, action |-> action, at |-> clock])
      BY <2>5 DEF CheckpointFocus
    <3> DEFINE c == [tab |-> t, action |-> action, at |-> clock]
               n == Len(asked)
    <3>2. c \in FocusCall /\ c.at = clock
      BY <2>1 DEF FocusCall
    <3> HIDE DEF c
    <3>3. /\ n \in Nat /\ Len(asked') = n + 1 /\ asked'[n + 1] = c
          /\ \A i \in 1 .. n : asked'[i] = asked[i]
      BY <2>1, <3>1, <3>2, AppendProperties DEF c
    <3>4. clock' = clock /\ record' = record
      BY <2>5 DEF CheckpointFocus
    <3>5. ASSUME NEW i \in 1 .. n + 1 PROVE asked'[i].at <= clock
      <4>1. i \in 1 .. n \/ i = n + 1
        BY <3>3
      <4>2. clock <= clock
        BY <2>1
      <4> QED
        BY <2>2, <3>2, <3>3, <4>1, <4>2
    <3> QED
      BY <1>2, <2>1, <3>3, <3>4, <3>5 DEF FocusSteady, NothingIsAhead
  <2>6. ASSUME NEW i \in 1 .. Len(asked), asked' = RemoveAt(asked, i), clock' = clock
        PROVE  \A j \in 1 .. Len(asked') : asked'[j].at <= clock'
    <3>1. /\ Len(asked') = Len(asked) - 1 /\ Len(asked) \in Nat /\ i \in Nat
          /\ \A j \in 1 .. Len(asked) - 1 : asked'[j] = asked[IF j < i THEN j ELSE j + 1]
      BY <2>1, <2>6, OneIsRemoved
    <3>2. \A j \in 1 .. Len(asked) - 1 : (IF j < i THEN j ELSE j + 1) \in 1 .. Len(asked)
      BY <3>1
    <3> QED
      BY <2>2, <2>6, <3>1, <3>2
  <2>7. ASSUME NEW i \in 1 .. Len(asked), GrantFocus(i) PROVE FocusSteady'
    <3>1. /\ clock' = clock /\ asked' = RemoveAt(asked, i)
          /\ record' = AdvanceFocus(record, asked[i].action, asked[i].at)
      BY <2>7 DEF GrantFocus
    <3>2. asked[i].at \in 0 .. End /\ asked[i].action \in {"tick", "start", "pause", "reset"}
      BY <1>2, CallIsTyped DEF FocusSteady
    <3>3. Sound(record', clock)
      BY <2>1, <2>2, <3>1, <3>2, AdvanceStaysSound
    <3> QED
      BY <1>2, <2>6, <3>1, <3>3 DEF FocusSteady, NothingIsAhead
  <2>8. ASSUME NEW i \in 1 .. Len(asked), FailFocus(i) PROVE FocusSteady'
    <3>1. clock' = clock /\ asked' = RemoveAt(asked, i) /\ record' = record
      BY <2>8 DEF FailFocus
    <3> QED
      BY <1>2, <2>1, <2>6, <3>1 DEF FocusSteady, NothingIsAhead
  <2> QED
    BY <1>2, <2>3, <2>4, <2>5, <2>7, <2>8 DEF FocusNext
<1>3. FocusSteady => FocusInv
  BY DEF FocusSteady
<1> QED
  BY <1>1, <1>2, <1>3, FocusInvariant, PTL DEF FocusSpec

-----------------------------------------------------------------------------
\* No second counts twice, in any order of the lock.

\* Of what has passed of a day, what was counted up to u and what is counted from a
\* later time on are two parts.
LEMMA SharesAddUp ==
    ASSUME NEW u \in Nat, NEW a \in Nat, u <= a, NEW used \in Nat, NEW d \in Nat
    PROVE  /\ Overlap(0, u, d) \in Nat /\ Overlap(a, a + used, d) \in Nat
           /\ Overlap(0, u, d) + Overlap(a, a + used, d) <= Overlap(0, a + used, d)
<1>1. PICK b \in Nat, e \in Nat : b = d * DayLength /\ e = (d + 1) * DayLength /\ b <= e
  BY FocusAssumption
<1>2. /\ Overlap(0, u, d) = Higher(0, Lower(u, e) - Higher(0, b))
      /\ Overlap(a, a + used, d) = Higher(0, Lower(a + used, e) - Higher(a, b))
      /\ Overlap(0, a + used, d) = Higher(0, Lower(a + used, e) - Higher(0, b))
  BY <1>1 DEF Overlap
<1>3. /\ Higher(0, Lower(u, e) - Higher(0, b)) \in Nat
      /\ Higher(0, Lower(a + used, e) - Higher(a, b)) \in Nat
      /\ Higher(0, Lower(u, e) - Higher(0, b)) + Higher(0, Lower(a + used, e) - Higher(a, b))
            <= Higher(0, Lower(a + used, e) - Higher(0, b))
  BY <1>1 DEF Higher, Lower
<1> QED
  BY <1>2, <1>3

\* What a transaction does to the counts is what its tick does.
LEMMA ButtonsCountNothing ==
    ASSUME NEW r \in FocusRecord, NEW action \in {"tick", "start", "pause", "reset"}, NEW now \in 0 .. End
    PROVE  LET onTick == TickFocus(r, now)
               after == AdvanceFocus(r, action, now) IN
           /\ after.focusSeconds = onTick.focusSeconds /\ after.focusByDay = onTick.focusByDay
           /\ after.activity = onTick.activity
<1> DEFINE onTick == TickFocus(r, now)
           after == AdvanceFocus(r, action, now)
<1>1. onTick \in FocusRecord
  <2>1. AdvanceFocus(r, "tick", now) \in FocusRecord
    BY AdvanceType
  <2> QED
    BY <2>1 DEF AdvanceFocus
<1>2. \/ after = [onTick EXCEPT !.accountedAt = now, !.remaining = IF @ = 0 THEN Session ELSE @]
      \/ after = [onTick EXCEPT !.accountedAt = Never]
      \/ after = [onTick EXCEPT !.accountedAt = Never, !.remaining = Session]
      \/ after = onTick
  BY DEF AdvanceFocus
<1> HIDE DEF onTick, after
<1>3. /\ after.focusSeconds = onTick.focusSeconds /\ after.focusByDay = onTick.focusByDay
      /\ after.activity = onTick.activity
  BY <1>1, <1>2 DEF FocusRecord
<1> QED
  BY <1>3 DEF onTick, after

\* Unless it was set back, the timer counts on from where it counted last.
CountedOnce ==
    /\ SecondsCountOnce
    /\ ~rewound /\ record.accountedAt # Never => upTo <= record.accountedAt

\* A grant credits only what has not been counted yet, or sets the timer back.
LEMMA GrantCountsOnce ==
    ASSUME FocusSteady, FocusInv', CountedOnce, NEW i \in 1 .. Len(asked), GrantFocus(i)
    PROVE  CountedOnce'
<1> DEFINE now == asked[i].at
           used == Used(record, now)
           share(d) == Overlap(record.accountedAt, record.accountedAt + used, d)
<1>1. /\ record' = AdvanceFocus(record, asked[i].action, now) /\ clock' = clock
      /\ upTo' = IF Credits(record, now) THEN record.accountedAt + used ELSE upTo
      /\ rewound' = (rewound \/ (record'.accountedAt # Never /\ record'.accountedAt < upTo'))
  BY DEF GrantFocus
<1>2. /\ now \in 0 .. End /\ asked[i].action \in {"tick", "start", "pause", "reset"} /\ now <= clock
      /\ record \in FocusRecord /\ clock \in 0 .. End /\ upTo \in 0 .. End /\ End \in Nat
  BY CallIsTyped, FocusAssumption DEF FocusSteady, FocusInv, FocusTypeOK, NothingIsAhead, End
<1>3. /\ record'.accountedAt \in Int /\ upTo' \in Int
  BY <1>2 DEF FocusInv, FocusTypeOK, FocusRecord, Never
<1>4. /\ record.focusSeconds \in Nat /\ record.focusByDay \in [Days -> Nat] /\ record.activity \in [Days -> Nat]
  BY <1>2 DEF FocusRecord
<1>5. \A d \in Days : d \in Nat
  BY FocusAssumption DEF Days
<1> DEFINE onTick == TickFocus(record, now)
<1>6. /\ record'.focusSeconds = onTick.focusSeconds /\ record'.focusByDay = onTick.focusByDay
      /\ record'.activity = onTick.activity
  BY <1>1, <1>2, ButtonsCountNothing
<1> HIDE DEF now
<1>7. ~rewound' /\ record'.accountedAt # Never => upTo' <= record'.accountedAt
  <2> DEFINE Back == record'.accountedAt # Never /\ record'.accountedAt < upTo'
  <2>1. ~Back => (record'.accountedAt # Never => upTo' <= record'.accountedAt)
    BY <1>3
  <2>2. rewound' = (rewound \/ Back)
    BY <1>1
  <2> HIDE DEF Back
  <2> QED
    BY <2>1, <2>2, Zenon
<1>8. CASE ~Credits(record, now)
  <2>1. onTick = record /\ upTo' = upTo
    BY <1>1, <1>8 DEF TickFocus
  <2>2. ~rewound' => ~rewound
    BY <1>1
  <2> HIDE DEF onTick
  <2>3. SecondsCountOnce'
    BY <1>1, <1>6, <2>1, <2>2 DEF CountedOnce, SecondsCountOnce
  <2> QED
    BY <1>7, <2>3 DEF CountedOnce
<1>9. CASE Credits(record, now)
  <2>1. /\ record.accountedAt \in Nat /\ used \in Nat /\ record.accountedAt + used <= now
        /\ upTo' = record.accountedAt + used
    BY <1>1, <1>2, <1>9, CreditsEnd
  <2>2. /\ onTick.focusSeconds = record.focusSeconds + used
        /\ onTick.focusByDay = [d \in Days |-> record.focusByDay[d] + share(d)]
        /\ onTick.activity = [d \in Days |-> record.activity[d] +
              (IF share(d) > 0 /\ record.focusByDay[d] = 0 THEN 1 ELSE 0)]
    BY <1>9 DEF TickFocus, Credit
  <2> HIDE DEF used, onTick
  <2>3. \A d \in Days : share(d) \in Nat
    BY <1>5, <2>1, SharesAddUp
  <2>4. upTo' <= clock'
    BY <1>1, <1>2, <2>1
  <2>5. ASSUME NEW d \in Days
        PROVE  record'.activity[d] = (IF record'.focusByDay[d] > 0 THEN 1 ELSE 0)
    <3>1. record.activity[d] = (IF record.focusByDay[d] > 0 THEN 1 ELSE 0)
      BY DEF CountedOnce, SecondsCountOnce
    <3>2. /\ record'.focusByDay[d] = record.focusByDay[d] + share(d)
          /\ record'.activity[d] = record.activity[d] + (IF share(d) > 0 /\ record.focusByDay[d] = 0 THEN 1 ELSE 0)
      BY <1>6, <2>2
    <3>3. record.focusByDay[d] \in Nat /\ share(d) \in Nat
      BY <1>4, <2>3
    <3> HIDE DEF share
    <3> QED
      BY <3>1, <3>2, <3>3
  <2>6. ASSUME ~rewound'
        PROVE  /\ record'.focusSeconds <= upTo'
               /\ \A d \in Days : record'.focusByDay[d] <= Overlap(0, upTo', d)
    <3>1. record.accountedAt # Never /\ ~rewound
      BY <1>1, <1>9, <2>6 DEF Credits
    <3>2. /\ upTo <= record.accountedAt /\ record.focusSeconds <= upTo
          /\ \A d \in Days : record.focusByDay[d] <= Overlap(0, upTo, d)
      BY <3>1 DEF CountedOnce, SecondsCountOnce
    <3>3. record'.focusSeconds <= upTo'
      BY <1>2, <1>4, <1>6, <2>1, <2>2, <3>2
    <3>4. ASSUME NEW d \in Days PROVE record'.focusByDay[d] <= Overlap(0, upTo', d)
      <4>1. /\ Overlap(0, upTo, d) \in Nat /\ share(d) \in Nat
            /\ Overlap(0, upTo, d) + share(d) <= Overlap(0, record.accountedAt + used, d)
        <5>1. upTo \in Nat /\ d \in Nat /\ record.accountedAt \in Nat /\ used \in Nat
          BY <1>2, <1>5, <2>1
        <5> QED
          BY <3>2, <5>1, SharesAddUp
      <4>2. record'.focusByDay[d] = record.focusByDay[d] + share(d) /\ record.focusByDay[d] \in Nat
        BY <1>4, <1>6, <2>2
      <4>3. Overlap(0, upTo', d) \in Int /\ Overlap(0, upTo', d) = Overlap(0, record.accountedAt + used, d)
        <5>1. record.accountedAt + used \in Nat /\ record.accountedAt + used <= record.accountedAt + used
              /\ 0 \in Nat
          BY <2>1
        <5>2. Overlap(0, record.accountedAt + used, d) \in Nat
          BY <1>5, <5>1, SharesAddUp
        <5> QED
          BY <2>1, <5>2
      <4> HIDE DEF share
      <4> QED
        BY <3>2, <4>1, <4>2, <4>3
    <3> QED
      BY <3>3, <3>4
  <2>7. SecondsCountOnce'
    BY <2>4, <2>5, <2>6 DEF SecondsCountOnce
  <2> QED
    BY <1>7, <2>7 DEF CountedOnce
<1> QED
  BY <1>8, <1>9

\* No more is counted for a day than has passed of it and its first second is practice
\* once, in whatever order the lock is granted, for any tabs, session and day, unless
\* an overtaken start sets the timer back.
THEOREM TimerCountsOnce == FocusSpec => []SecondsCountOnce
<1>1. ASSUME FocusInit, FocusInv PROVE CountedOnce
  <2>1. /\ clock = 0 /\ upTo = 0 /\ record.accountedAt = Never /\ record.focusSeconds = 0
        /\ record.focusByDay = [d \in Days |-> 0] /\ record.activity = [d \in Days |-> 0]
    BY <1>1 DEF FocusInit
  <2>2. \A d \in Days : d \in Nat
    BY FocusAssumption DEF Days
  <2>3. \A d \in Days : Overlap(0, 0, d) = 0
    <3>1. 0 \in Nat /\ 0 <= 0
      OBVIOUS
    <3> QED
      BY <2>2, <3>1, OverlapGrows
  <2> QED
    BY <2>1, <2>3 DEF CountedOnce, SecondsCountOnce
<1>2. ASSUME FocusSteady, FocusInv', CountedOnce, [FocusNext]_focusVars PROVE CountedOnce'
  <2>1. ASSUME clock <= clock', record' = record, upTo' = upTo, rewound' = rewound PROVE CountedOnce'
    <3>1. clock \in Int /\ clock' \in Int /\ upTo \in Int
      BY <1>2, FocusAssumption DEF FocusSteady, FocusInv, FocusTypeOK, End
    <3>2. upTo <= clock'
      BY <1>2, <2>1, <3>1 DEF CountedOnce, SecondsCountOnce
    <3> QED
      BY <1>2, <2>1, <3>2 DEF CountedOnce, SecondsCountOnce
  <2>2. clock \in Int
    BY <1>2, FocusAssumption DEF FocusSteady, FocusInv, FocusTypeOK, End
  <2>3. CASE UNCHANGED focusVars
    BY <2>1, <2>2, <2>3 DEF focusVars, historyVars
  <2>4. CASE FocusClock
    <3>1. clock <= clock'
      BY <2>2, <2>4 DEF FocusClock
    <3> QED
      BY <2>1, <2>4, <3>1 DEF FocusClock, historyVars
  <2>5. ASSUME NEW t \in FocusTabs, CheckpointFocus(t) PROVE CountedOnce'
    BY <2>1, <2>2, <2>5 DEF CheckpointFocus, historyVars
  <2>6. ASSUME NEW i \in 1 .. Len(asked), GrantFocus(i) PROVE CountedOnce'
    BY <1>2, <2>6, GrantCountsOnce
  <2>7. ASSUME NEW i \in 1 .. Len(asked), FailFocus(i) PROVE CountedOnce'
    BY <2>1, <2>2, <2>7 DEF FailFocus
  <2> QED
    BY <1>2, <2>3, <2>4, <2>5, <2>6, <2>7 DEF FocusNext
<1>3. CountedOnce => SecondsCountOnce
  BY DEF CountedOnce
<1> QED
  BY <1>1, <1>2, <1>3, FocusInvariant, FocusStaysSteady, PTL DEF FocusSpec

\* What the watch tells of two records is the same.
SameTime(r, s) ==
    /\ (r.accountedAt # Never) = (s.accountedAt # Never) /\ r.remaining = s.remaining
    /\ r.focusByDay = s.focusByDay /\ r.activity = s.activity /\ r.focusSeconds = s.focusSeconds

\* To count again at once counts nothing.
LEMMA CountedUpToNow ==
    ASSUME NEW t \in 0 .. End, NEW r, Sound(r, t), r.accountedAt \in {Never, t}
    PROVE  SameTime(TickFocus(r, t), r)
<1>1. t \in Nat /\ Session \in Nat /\ End \in Nat
  BY FocusAssumption DEF End
<1>2. CASE r.accountedAt = Never
  BY <1>2, PausedStays DEF SameTime
<1>3. CASE r.accountedAt # Never
  <2> DEFINE s == TickFocus(r, t)
  <2>1. /\ r.accountedAt = t /\ r.remaining \in Nat /\ r.remaining > 0 /\ r.focusSeconds \in Nat
        /\ r.focusByDay \in [Days -> Nat] /\ r.activity \in [Days -> Nat]
    BY <1>1, <1>3 DEF Sound, FocusRecord
  <2>2. Used(r, t) = 0
    BY <1>1, <2>1 DEF Used, Lower
  <2>3. /\ s.remaining = r.remaining - 0 /\ s.focusSeconds = r.focusSeconds + 0
        /\ s.accountedAt = IF r.remaining = 0 THEN Never ELSE t + 0
        /\ s.focusByDay = [d \in Days |-> r.focusByDay[d] + Overlap(t, t + 0, d)]
        /\ s.activity = [d \in Days |-> r.activity[d] +
              (IF Overlap(t, t + 0, d) > 0 /\ r.focusByDay[d] = 0 THEN 1 ELSE 0)]
    BY <1>1, <1>3, <2>1, <2>2, CreditOf
  <2>4. \A d \in Days : Overlap(t, t + 0, d) = 0
    <3>1. t + 0 = t /\ \A d \in Days : d \in Nat
      BY <1>1, FocusAssumption DEF Days
    <3> QED
      BY <1>1, <3>1, OverlapGrows
  <2> HIDE DEF s
  <2>5. s.focusByDay = r.focusByDay /\ s.activity = r.activity
    <3>1. \A d \in Days : r.focusByDay[d] + 0 = r.focusByDay[d] /\ r.activity[d] + 0 = r.activity[d]
      BY <2>1
    <3>2. s.focusByDay = [d \in Days |-> r.focusByDay[d]]
      BY <2>3, <2>4, <3>1
    <3>3. s.activity = [d \in Days |-> r.activity[d]]
      BY <2>3, <2>4, <3>1
    <3> QED
      BY <2>1, <3>2, <3>3
  <2>6. s.remaining = r.remaining /\ s.focusSeconds = r.focusSeconds /\ s.accountedAt = t /\ t # Never
    BY <1>1, <2>1, <2>3 DEF Never
  <2> QED
    BY <1>3, <2>5, <2>6 DEF SameTime, s
<1> QED
  BY <1>2, <1>3

\* A second that passes is counted if the session runs.
LEMMA SecondIsCounted ==
    ASSUME NEW t \in Nat, t + 1 <= End, NEW r, Sound(r, t), TickFocus(r, t).accountedAt # Never
    PROVE  LET now == TickFocus(r, t)
               next == TickFocus(r, t + 1) IN
           /\ next.remaining = now.remaining - 1
           /\ (next.accountedAt # Never) = (now.remaining > 1)
           /\ next.focusSeconds = now.focusSeconds + 1
           /\ next.focusByDay = [d \in Days |-> now.focusByDay[d] +
                 (IF d * DayLength <= t /\ t < (d + 1) * DayLength THEN 1 ELSE 0)]
           /\ next.activity = [d \in Days |-> now.activity[d] +
                 (IF (d * DayLength <= t /\ t < (d + 1) * DayLength) /\ now.focusByDay[d] = 0 THEN 1 ELSE 0)]
<1> DEFINE now == TickFocus(r, t)
           next == TickFocus(r, t + 1)
           a == r.accountedAt
           sofar(d) == Overlap(a, t, d)
           inDay(d) == d * DayLength <= t /\ t < (d + 1) * DayLength
<1>1. t + 1 \in Nat /\ Session \in Nat /\ End \in Nat
  BY FocusAssumption DEF End
<1>2. a # Never
  BY PausedStays
<1>3. /\ a \in Nat /\ a <= t /\ r.remaining \in Nat /\ r.remaining > 0 /\ r.focusSeconds \in Nat
      /\ r.focusByDay \in [Days -> Nat] /\ r.activity \in [Days -> Nat]
  BY <1>1, <1>2 DEF Sound, FocusRecord
<1>4. Sound(r, t + 1)
  BY <1>3 DEF Sound
<1>5. Used(r, t) = t - a /\ t - a < r.remaining /\ a + Used(r, t) = t
  <2>1. Used(r, t) # r.remaining
    BY <1>2, CreditOf
  <2> QED
    BY <1>3, <2>1 DEF Used, Lower
<1>6. Used(r, t + 1) = t + 1 - a /\ a + Used(r, t + 1) = t + 1
  BY <1>3, <1>5 DEF Used, Lower
<1>7. /\ now.remaining = r.remaining - (t - a) /\ now.focusSeconds = r.focusSeconds + (t - a)
      /\ now.focusByDay = [d \in Days |-> r.focusByDay[d] + Overlap(a, t, d)]
      /\ now.activity = [d \in Days |-> r.activity[d] +
              (IF Overlap(a, t, d) > 0 /\ r.focusByDay[d] = 0 THEN 1 ELSE 0)]
  BY <1>2, <1>5, CreditOf
<1>8. /\ next.remaining = r.remaining - (t + 1 - a) /\ next.focusSeconds = r.focusSeconds + (t + 1 - a)
      /\ next.accountedAt = IF r.remaining = t + 1 - a THEN Never ELSE t + 1
      /\ next.focusByDay = [d \in Days |-> r.focusByDay[d] + Overlap(a, t + 1, d)]
      /\ next.activity = [d \in Days |-> r.activity[d] +
              (IF Overlap(a, t + 1, d) > 0 /\ r.focusByDay[d] = 0 THEN 1 ELSE 0)]
  BY <1>1, <1>2, <1>4, <1>6, CreditOf
<1>9. ASSUME NEW d \in Days
      PROVE  sofar(d) \in Nat /\ Overlap(a, t + 1, d) = sofar(d) + (IF inDay(d) THEN 1 ELSE 0)
  <2>1. d \in Nat
    BY FocusAssumption DEF Days
  <2> QED
    BY <1>3, <2>1, OverlapGrows
<1> HIDE DEF now, next, a
<1>10. /\ next.remaining = now.remaining - 1 /\ next.focusSeconds = now.focusSeconds + 1
       /\ (next.accountedAt # Never) = (now.remaining > 1)
  BY <1>1, <1>3, <1>5, <1>7, <1>8 DEF Never
<1>11. ASSUME NEW d \in Days
       PROVE  /\ r.focusByDay[d] + Overlap(a, t + 1, d) = now.focusByDay[d] + (IF inDay(d) THEN 1 ELSE 0)
              /\ r.activity[d] + (IF Overlap(a, t + 1, d) > 0 /\ r.focusByDay[d] = 0 THEN 1 ELSE 0)
                   = now.activity[d] + (IF inDay(d) /\ now.focusByDay[d] = 0 THEN 1 ELSE 0)
  <2>1. /\ now.focusByDay[d] = r.focusByDay[d] + sofar(d)
        /\ now.activity[d] = r.activity[d] + (IF sofar(d) > 0 /\ r.focusByDay[d] = 0 THEN 1 ELSE 0)
    BY <1>7
  <2>2. r.focusByDay[d] \in Nat /\ r.activity[d] \in Nat
    BY <1>3
  <2>3. sofar(d) \in Nat /\ Overlap(a, t + 1, d) = sofar(d) + (IF inDay(d) THEN 1 ELSE 0)
    BY <1>9
  <2> HIDE DEF sofar, inDay
  <2>4. CASE inDay(d)
    BY <2>1, <2>2, <2>3, <2>4
  <2>5. CASE ~inDay(d)
    BY <2>1, <2>2, <2>3, <2>5
  <2> QED
    BY <2>4, <2>5
<1>12. next.focusByDay = [d \in Days |-> now.focusByDay[d] + (IF inDay(d) THEN 1 ELSE 0)]
  <2> HIDE DEF inDay
  <2> QED
    BY <1>8, <1>11
<1>13. next.activity = [d \in Days |-> now.activity[d] + (IF inDay(d) /\ now.focusByDay[d] = 0 THEN 1 ELSE 0)]
  <2> HIDE DEF inDay
  <2> QED
    BY <1>8, <1>11
<1> QED
  BY <1>10, <1>12, <1>13 DEF now, next

\* A second that passes while no session runs changes nothing.
LEMMA SecondIsIdle ==
    ASSUME NEW t \in Nat, NEW r, Sound(r, t), TickFocus(r, t).accountedAt = Never
    PROVE  TickFocus(r, t + 1) = TickFocus(r, t)
<1>1. CASE r.accountedAt = Never
  BY <1>1, PausedStays
<1>2. CASE r.accountedAt # Never
  <2>1. r.accountedAt \in Nat /\ r.remaining \in Nat /\ r.accountedAt <= t
    <3>1. Session \in Nat /\ End \in Nat
      BY FocusAssumption DEF End
    <3> QED
      BY <1>2, <3>1 DEF Sound, FocusRecord
  <2>2. Used(r, t) = r.remaining
    <3>1. r.remaining = Used(r, t) \/ r.accountedAt + Used(r, t) = Never
      BY <1>2, CreditOf
    <3>2. Used(r, t) \in Nat
      BY <1>2, CreditOf
    <3> QED
      BY <2>1, <3>1, <3>2 DEF Never
  <2>3. Used(r, t + 1) = Used(r, t)
    BY <2>1, <2>2 DEF Used, Lower
  <2>4. Credit(r, t + 1) = Credit(r, t)
    BY <2>3 DEF Credit
  <2>5. r.accountedAt <= t + 1
    BY <2>1
  <2> QED
    BY <1>2, <2>1, <2>4, <2>5 DEF TickFocus, Credits
<1> QED
  BY <1>1, <1>2

\* What the page shows is what is granted, up to now.
LEMMA ShownIs == ASSUME NEW q, Granted(record, asked) = {q} PROVE Shown = TickFocus(q, clock)
<1>1. {TickFocus(p, clock) : p \in Granted(record, asked)} = {TickFocus(q, clock)}
  OBVIOUS
<1> QED
  BY <1>1 DEF Shown

\* The same after a step.
LEMMA ShownIsNext ==
    ASSUME NEW q, Granted(record', asked') = {q} PROVE Shown' = TickFocus(q, clock')
<1>1. {TickFocus(p, clock') : p \in Granted(record', asked')} = {TickFocus(q, clock')}
  OBVIOUS
<1>2. Shown' = CHOOSE r \in {TickFocus(p, clock') : p \in Granted(record', asked')} : TRUE
  BY DEF Shown
<1> QED
  BY <1>1, <1>2

\* To take the first of the waiting calls is to leave the others.
LEMMA FirstIsRemoved ==
    ASSUME asked \in Seq(FocusCall), 1 \in 1 .. Len(asked)
    PROVE  asked # << >> /\ Head(asked) = asked[1] /\ Tail(asked) = RemoveAt(asked, 1)
<1>1. asked # << >> /\ Len(asked) \in Nat /\ 1 <= Len(asked)
  OBVIOUS
<1>2. /\ RemoveAt(asked, 1) \in Seq(FocusCall) /\ Len(RemoveAt(asked, 1)) = Len(asked) - 1
      /\ \A j \in 1 .. Len(asked) - 1 : RemoveAt(asked, 1)[j] = asked[IF j < 1 THEN j ELSE j + 1]
  BY OneIsRemoved
<1>3. /\ Head(asked) = asked[1] /\ Tail(asked) \in Seq(FocusCall) /\ Len(Tail(asked)) = Len(asked) - 1
      /\ \A j \in 1 .. Len(asked) - 1 : Tail(asked)[j] = asked[j + 1]
  BY <1>1, HeadTailProperties
<1>4. \A j \in 1 .. Len(asked) - 1 : RemoveAt(asked, 1)[j] = Tail(asked)[j]
  BY <1>1, <1>2, <1>3
<1>5. Tail(asked) = RemoveAt(asked, 1)
  <2> DEFINE one == RemoveAt(asked, 1)
             rest == Tail(asked)
  <2>1. one \in Seq(FocusCall) /\ rest \in Seq(FocusCall) /\ Len(one) = Len(rest)
        /\ \A j \in 1 .. Len(one) : one[j] = rest[j]
    BY <1>2, <1>3, <1>4
  <2> HIDE DEF one, rest
  <2>2. one = rest
    BY <2>1, SeqEqual
  <2> QED
    BY <2>2 DEF one, rest
<1> QED
  BY <1>1, <1>3, <1>5

\* The watch stands still when what is shown is the same.
LEMMA WatchStands ==
    ASSUME SameTime(Shown', Shown), clock' = clock PROVE UNCHANGED Watch!watchVars
BY DEF SameTime, Watch!watchVars

\* A button of the timer is the same button of the watch.
LEMMA ButtonsAgree ==
    ASSUME NEW q, NEW action \in {"tick", "start", "pause", "reset"}, clock \in 0 .. End, Sound(q, clock),
           clock' = clock, Shown = TickFocus(q, clock),
           Shown' = TickFocus(AdvanceFocus(q, action, clock), clock)
    PROVE  [Watch!WatchNext]_(Watch!watchVars)
<1> DEFINE before == TickFocus(q, clock)
           after == AdvanceFocus(q, action, clock)
<1>1. Sound(before, clock) /\ before.accountedAt \in {Never, clock} /\ Sound(after, clock)
  BY TickIsSound, AdvanceIsSound
<1>2. clock \in Nat /\ clock # Never /\ Session \in Nat /\ End \in Nat
  BY FocusAssumption DEF End, Never
<1>3. before \in FocusRecord /\ before.remaining \in 0 .. Session
  BY <1>1, <1>2 DEF Sound, FocusRecord
<1>4. \/ action = "start" /\ before.accountedAt = Never
           /\ after = [before EXCEPT !.accountedAt = clock, !.remaining = IF @ = 0 THEN Session ELSE @]
      \/ action = "pause" /\ after = [before EXCEPT !.accountedAt = Never]
      \/ action = "reset" /\ after = [before EXCEPT !.accountedAt = Never, !.remaining = Session]
      \/ after = before
  BY DEF AdvanceFocus
<1>5. Shown = before /\ Shown' = TickFocus(after, clock)
  OBVIOUS
<1> HIDE DEF before, after
<1>6. SameTime(TickFocus(after, clock), after)
  <2>1. after.accountedAt \in {Never, clock}
    <3>1. CASE after = [before EXCEPT !.accountedAt = clock, !.remaining = IF @ = 0 THEN Session ELSE @]
      BY <1>3, <3>1 DEF FocusRecord
    <3>2. CASE \/ after = [before EXCEPT !.accountedAt = Never]
               \/ after = [before EXCEPT !.accountedAt = Never, !.remaining = Session]
      BY <1>3, <3>2 DEF FocusRecord
    <3>3. CASE after = before
      BY <1>1, <3>3
    <3> QED
      BY <1>4, <3>1, <3>2, <3>3
  <2> QED
    BY <1>1, <2>1, CountedUpToNow
<1>7. SameTime(Shown', after)
  BY <1>5, <1>6
<1> DEFINE Stands == [Watch!WatchNext]_(Watch!watchVars)
<1>8. ASSUME SameTime(after, before) PROVE Stands
  <2>1. SameTime(Shown', Shown)
    BY <1>5, <1>7, <1>8 DEF SameTime
  <2> QED
    BY <2>1, WatchStands
<1>9. ASSUME before.accountedAt = Never,
             after = [before EXCEPT !.accountedAt = clock, !.remaining = IF @ = 0 THEN Session ELSE @]
      PROVE  Stands
  <2>1. /\ after.accountedAt = clock /\ after.remaining = IF before.remaining = 0 THEN Session ELSE before.remaining
        /\ after.focusByDay = before.focusByDay /\ after.activity = before.activity
        /\ after.focusSeconds = before.focusSeconds
    BY <1>3, <1>9 DEF FocusRecord
  <2>2. /\ ~(Shown.accountedAt # Never) /\ (Shown'.accountedAt # Never) = TRUE
        /\ Shown'.remaining = (IF Shown.remaining = 0 THEN Session ELSE Shown.remaining)
        /\ Shown'.focusByDay = Shown.focusByDay /\ Shown'.activity = Shown.activity
        /\ Shown'.focusSeconds = Shown.focusSeconds
    BY <1>2, <1>5, <1>7, <1>9, <2>1 DEF SameTime
  <2>3. Watch!Start
    BY <2>2 DEF Watch!Start
  <2> QED
    BY <2>3 DEF Watch!WatchNext
<1>10. ASSUME after = [before EXCEPT !.accountedAt = Never] PROVE Stands
  <2>1. /\ after.accountedAt = Never /\ after.remaining = before.remaining
        /\ after.focusByDay = before.focusByDay /\ after.activity = before.activity
        /\ after.focusSeconds = before.focusSeconds
    BY <1>3, <1>10 DEF FocusRecord
  <2>2. CASE before.accountedAt = Never
    <3>1. SameTime(after, before)
      BY <2>1, <2>2 DEF SameTime
    <3> QED
      BY <1>8, <3>1
  <2>3. CASE before.accountedAt # Never
    <3>1. /\ Shown.accountedAt # Never /\ (Shown'.accountedAt # Never) = FALSE
          /\ Shown'.remaining = Shown.remaining
          /\ Shown'.focusByDay = Shown.focusByDay /\ Shown'.activity = Shown.activity
          /\ Shown'.focusSeconds = Shown.focusSeconds
      BY <1>5, <1>7, <2>1, <2>3 DEF SameTime
    <3>2. Watch!Pause
      BY <3>1 DEF Watch!Pause
    <3> QED
      BY <3>2 DEF Watch!WatchNext
  <2> QED
    BY <2>2, <2>3
<1>11. ASSUME after = [before EXCEPT !.accountedAt = Never, !.remaining = Session] PROVE Stands
  <2>1. /\ after.accountedAt = Never /\ after.remaining = Session
        /\ after.focusByDay = before.focusByDay /\ after.activity = before.activity
        /\ after.focusSeconds = before.focusSeconds
    BY <1>3, <1>11 DEF FocusRecord
  <2>2. /\ (Shown'.accountedAt # Never) = FALSE /\ Shown'.remaining = Session
        /\ Shown'.focusByDay = Shown.focusByDay /\ Shown'.activity = Shown.activity
        /\ Shown'.focusSeconds = Shown.focusSeconds
    BY <1>5, <1>7, <2>1 DEF SameTime
  <2>3. Watch!Reset
    BY <2>2 DEF Watch!Reset
  <2> QED
    BY <2>3 DEF Watch!WatchNext
<1>12. ASSUME after = before PROVE Stands
  BY <1>8, <1>12 DEF SameTime
<1> HIDE DEF Stands
<1>13. Stands
  BY <1>4, <1>9, <1>10, <1>11, <1>12
<1> QED
  BY <1>13 DEF Stands

\* A second on the clock is a second of the watch.
LEMMA SecondsAgree ==
    ASSUME NEW q, clock \in 0 .. End, Sound(q, clock), clock < End, clock' = clock + 1,
           Shown = TickFocus(q, clock), Shown' = TickFocus(q, clock + 1)
    PROVE  Watch!Second
<1>1. clock \in Nat /\ clock + 1 <= End /\ End = Watch!LastSecond
  BY FocusAssumption DEF End, Watch!LastSecond
<1>2. CASE Shown.accountedAt # Never
  <2>1. /\ Shown'.remaining = Shown.remaining - 1
        /\ (Shown'.accountedAt # Never) = (Shown.remaining > 1)
        /\ Shown'.focusSeconds = Shown.focusSeconds + 1
        /\ Shown'.focusByDay = [d \in Days |-> Shown.focusByDay[d] +
              (IF d * DayLength <= clock /\ clock < (d + 1) * DayLength THEN 1 ELSE 0)]
        /\ Shown'.activity = [d \in Days |-> Shown.activity[d] +
              (IF (d * DayLength <= clock /\ clock < (d + 1) * DayLength) /\ Shown.focusByDay[d] = 0 THEN 1 ELSE 0)]
    BY <1>1, <1>2, SecondIsCounted
  <2> QED
    BY <1>1, <1>2, <2>1 DEF Watch!Second, Watch!Within, Watch!WatchDays, Days
<1>3. CASE Shown.accountedAt = Never
  <2>1. Shown' = Shown
    BY <1>1, <1>3, SecondIsIdle
  <2> QED
    BY <1>1, <1>3, <2>1 DEF Watch!Second
<1> QED
  BY <1>2, <1>3

\* The timer is a stop watch, whichever tabs ask, whenever they do and however long
\* they wait for the lock, until a call fails or overtakes an older one; and seconds
\* count once after that too: for any tabs, session and day.
THEOREM TimerIsAStopWatch == FocusSpec => CountsLikeAStopWatch
<1>1. ASSUME FocusInit, FocusSteady PROVE Watch!WatchInit
  <2>1. PICK q : Granted(record, asked) = {q} /\ Sound(q, clock)
    BY <1>1, OneOutcome
  <2>2. asked = << >> /\ record.accountedAt = Never /\ record.remaining = Session
        /\ record.focusByDay = [d \in Days |-> 0] /\ record.activity = [d \in Days |-> 0]
        /\ record.focusSeconds = 0 /\ clock = 0
    BY <1>1 DEF FocusInit
  <2>3. Granted(record, << >>) = {record}
    <3>1. record \in FocusRecord /\ << >> \in Seq(FocusCall) /\ Len(<< >>) = 0
      BY <1>1 DEF FocusSteady, FocusInv, FocusTypeOK
    <3>2. PICK f : GrantedInTurn(f, record, << >>) /\ Granted(record, << >>) = {f[0]}
      BY <3>1, GrantedIsInTurn
    <3> QED
      BY <3>2 DEF GrantedInTurn
  <2>4. Shown = record
    <3>1. Granted(record, asked) = {record}
      BY <2>2, <2>3
    <3> QED
      BY <2>2, <3>1, ShownIs, PausedStays
  <2>5. (Shown.accountedAt # Never) = FALSE
    BY <2>2, <2>4
  <2> QED
    BY <2>2, <2>4, <2>5 DEF Watch!WatchInit, Watch!WatchDays, Days
<1>2. ASSUME FocusSteady, FocusSteady', [FocusNext]_focusVars
      PROVE  [astray' \/ Watch!WatchNext]_(Watch!watchVars)
  <2>1. PICK q : Granted(record, asked) = {q} /\ Sound(q, clock)
    BY <1>2, OneOutcome
  <2>2. Shown = TickFocus(q, clock)
    BY <2>1, ShownIs
  <2>3. /\ clock \in 0 .. End /\ record \in FocusRecord /\ asked \in Seq(FocusCall)
    BY <1>2 DEF FocusSteady, FocusInv, FocusTypeOK
  <2>4. CASE UNCHANGED focusVars
    <3>1. Shown' = Shown /\ clock' = clock
      BY <2>4 DEF focusVars, Shown
    <3> QED
      BY <3>1, WatchStands DEF SameTime
  <2>5. CASE FocusClock
    <3>1. clock < End /\ clock' = clock + 1 /\ record' = record /\ asked' = asked
      BY <2>5 DEF FocusClock
    <3>2. Granted(record', asked') = {q}
      BY <2>1, <3>1
    <3>3. Shown' = TickFocus(q, clock + 1)
      BY <3>1, <3>2, ShownIsNext
    <3>4. Watch!Second
      BY <2>1, <2>2, <2>3, <3>1, <3>3, SecondsAgree
    <3> QED
      BY <3>4 DEF Watch!WatchNext
  <2>6. ASSUME NEW i \in 1 .. Len(asked), GrantFocus(i) PROVE astray' \/ UNCHANGED Watch!watchVars
    <3>1. CASE i # 1
      BY <2>6, <3>1 DEF GrantFocus
    <3>2. CASE i = 1
      <4>1. /\ asked # << >> /\ Head(asked) = asked[1] /\ Tail(asked) = RemoveAt(asked, 1)
        BY <2>3, <3>2, FirstIsRemoved
      <4>2. /\ clock' = clock /\ asked' = Tail(asked)
            /\ record' = AdvanceFocus(record, Head(asked).action, Head(asked).at)
        BY <2>6, <3>2, <4>1 DEF GrantFocus
      <4>3. Granted(record', asked') = {q}
        BY <2>1, <2>3, <4>1, <4>2, GrantOne
      <4>4. Shown' = Shown
        BY <2>2, <4>2, <4>3, ShownIsNext
      <4> QED
        BY <4>2, <4>4, WatchStands DEF SameTime
    <3> QED
      BY <3>1, <3>2
  <2>8. ASSUME NEW i \in 1 .. Len(asked), FailFocus(i) PROVE astray'
    BY <2>8 DEF FailFocus
  <2>7. ASSUME NEW t \in FocusTabs, CheckpointFocus(t) PROVE [Watch!WatchNext]_(Watch!watchVars)
    <3>1. PICK action \in {"tick", "start", "pause", "reset"} :
             asked' = Append(asked, [tab |-> t, action |-> action, at |-> clock])
      BY <2>7 DEF CheckpointFocus
    <3> DEFINE c == [tab |-> t, action |-> action, at |-> clock]
    <3>2. c \in FocusCall /\ c.at = clock /\ c.action = action
      BY <2>3 DEF FocusCall
    <3>3. clock' = clock /\ record' = record /\ asked' = Append(asked, c)
      BY <2>7, <3>1 DEF CheckpointFocus
    <3> HIDE DEF c
    <3>4. Granted(record', asked') = {AdvanceFocus(q, action, clock)}
      <4>1. PICK call \in FocusCall : call = c
        BY <3>2
      <4>2. Granted(record, Append(asked, call)) = Done(Granted(record, asked), call)
        BY <2>3, AskOne
      <4> QED
        BY <2>1, <3>2, <3>3, <4>1, <4>2 DEF Done
    <3>5. Shown' = TickFocus(AdvanceFocus(q, action, clock), clock)
      BY <3>3, <3>4, ShownIsNext
    <3> QED
      BY <2>1, <2>2, <2>3, <3>3, <3>5, ButtonsAgree
  <2> QED
    BY <1>2, <2>4, <2>5, <2>6, <2>7, <2>8 DEF FocusNext
<1> QED
  BY <1>1, <1>2, FocusStaysSteady, TimerCountsOnce, PTL DEF FocusSpec, CountsLikeAStopWatch

-----------------------------------------------------------------------------

\* Whichever part a behaviour follows, it is a behaviour of each.
LEMMA PartsStartSound ==
    ASSUME PartsInit
    PROVE  /\ Init /\ AccountsInit /\ FocusInit /\ StudioInit /\ PagesInit /\ HabitsInit
           /\ CheckoutInit /\ AccessInit /\ ShellInit /\ CompanionInit /\ WorkbenchInit
BY DEF PartsInit

\* A step of one part leaves the others where they are.
LEMMA PartsTakeOneStep ==
    ASSUME [PartsNext]_partsVars
    PROVE  /\ [Next]_vars /\ [AccountsNext]_accountVars /\ [FocusNext]_focusVars
           /\ [StudioNext]_studioVars /\ [PagesNext]_pageVars /\ [HabitsNext]_habitVars
           /\ [CheckoutNext]_checkoutVars /\ [AccessNext]_accessVars
           /\ [ShellNext]_shellVars /\ [CompanionNext]_companionVars /\ [WorkbenchNext]_workbenchVars
           /\ part' = part
<1>1. CASE UNCHANGED partsVars
  BY <1>1 DEF partsVars, studyingVars, servingVars, staticVars
<1>2. CASE PartsNext
  <2>1. CASE Studying /\ UNCHANGED servingVars
    BY <1>2, <2>1 DEF PartsNext, Studying, servingVars, staticVars
  <2>2. CASE Serving /\ UNCHANGED studyingVars
    BY <1>2, <2>2 DEF PartsNext, Serving, studyingVars, staticVars
  <2> QED
    BY <1>2, <2>1, <2>2 DEF PartsNext
<1> QED
  BY <1>1, <1>2

\* Side by side, every part follows its own specification.
THEOREM PartsFollowTheirSpecs ==
    PartsSpec => /\ Spec /\ AccountsSpec /\ FocusSpec /\ StudioSpec /\ PagesSpec /\ HabitsSpec
                 /\ CheckoutSpec /\ AccessSpec /\ ShellSpec /\ CompanionSpec /\ WorkbenchSpec
BY PartsStartSound, PartsTakeOneStep, PTL
   DEF PartsSpec, Spec, AccountsSpec, FocusSpec, StudioSpec, PagesSpec, HabitsSpec,
       CheckoutSpec, AccessSpec, ShellSpec, CompanionSpec, WorkbenchSpec

\* Whichever part a behaviour follows, the part keeps its type.
THEOREM PartsKeepTheirTypes == PartsSpec => []PartsTypeOK
<1> DEFINE Named == part \in {"writers", "accounts", "focus", "studio", "web", "habits",
                             "checkout", "access", "shell", "companion", "bench"}
<1>1. PartsInit => Named
  BY DEF PartsInit
<1>2. Named /\ [PartsNext]_partsVars => Named'
  BY PartsTakeOneStep
<1>3. WritersInv => TypeOK
  BY DEF WritersInv
<1>4. AccountsInv => AccountsTypeOK
  BY DEF AccountsInv
<1>5. FocusInv => FocusTypeOK
  BY DEF FocusInv
<1>6. StudioInv => StudioTypeOK
  BY DEF StudioInv
<1>7. LessonsInv => WebStudioTypeOK
  BY DEF LessonsInv
<1>8. CheckoutInv => CheckoutTypeOK
  BY DEF CheckoutInv
<1>9. AccessInv => AccessTypeOK
  BY DEF AccessInv
<1>10. ASSUME ShellInv PROVE ShellTypeOK
  <2>1. \A i \in DOMAIN dialogs : dialogs[i] \in Dialog
    BY <1>10, StackFacts DEF ShellInv
  <2> QED
    BY <1>10, <2>1 DEF ShellInv, ShellTypes, ShellTypeOK
<1>11. CompanionInv => CompanionTypeOK
  BY DEF CompanionInv
<1>12. WorkbenchInv => WorkbenchTypeOK
  BY DEF WorkbenchInv
<1>13. /\ Named /\ TypeOK /\ AccountsTypeOK /\ FocusTypeOK /\ StudioTypeOK /\ WebStudioTypeOK
       /\ HabitsTypeOK /\ CheckoutTypeOK /\ AccessTypeOK /\ ShellTypeOK /\ CompanionTypeOK
       /\ WorkbenchTypeOK
       => PartsTypeOK
  BY DEF PartsTypeOK
<1> HIDE DEF Named
<1> QED
  BY <1>1, <1>2, <1>3, <1>4, <1>5, <1>6, <1>7, <1>8, <1>9, <1>10, <1>11, <1>12, <1>13,
     PartsFollowTheirSpecs, WritersInvariant, AccountsInvariant, FocusInvariant, StudioInvariant,
     LessonsInvariant, HabitsInvariant, CheckoutInvariant, AccessInvariant, ShellInvariant,
     CompanionInvariant, WorkbenchInvariant, PTL DEF PartsSpec

\* The composed changes a tab keeps say of the stored record what its list says of it,
\* for any records, texts and numbers of edits.
THEOREM ChangesStayFaithful == PartsSpec => []ChangesAreFaithful
<1>1. WritersInv /\ SaysWhatTheListSays(pending, log) => ChangesAreFaithful
  BY DEF WritersInv, TypeOK, SaysWhatTheListSays, ChangesAreFaithful, Merged
<1> QED
  BY <1>1, PartsFollowTheirSpecs, WritersInvariant, ComposedIsTheList, PTL

\* The streak, the review intervals and the ranks mean what they are said to mean,
\* for any days, shield and board.
THEOREM HabitsStayMeant == PartsSpec => []HabitsMeanWhatTheySay
<1>1. HabitsTypeOK => HabitsMeanWhatTheySay
  BY HabitsAreMeant
<1> QED
  BY <1>1, PartsFollowTheirSpecs, HabitsInvariant, PTL

\* Side by side as alone: every property of the run holds for all constants.
THEOREM PartsStaySound ==
    PartsSpec => [](/\ MergingIsSafe /\ AccountsAreWhole /\ StudioIsTrue
                    /\ PageIsHonest /\ LessonsAreTrue /\ PaymentIsFair)
BY PartsFollowTheirSpecs, MergingStaysSafe, AccountsStayWhole, StudioStaysTrue, PagesStayHonest,
   LessonsStayTrue, PayingStaysFair, PTL DEF StaticPagesSpec, PayingSpec

\* And so it is beside the other parts.
THEOREM PartsCountLikeAStopWatch == PartsSpec => CountsLikeAStopWatch
BY PartsFollowTheirSpecs, TimerIsAStopWatch
=============================================================================
