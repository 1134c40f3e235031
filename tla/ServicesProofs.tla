---------------------------- MODULE ServicesProofs ----------------------------
(***************************************************************************)
(* What TLAPS proves of three services: the daily quota of the web         *)
(* edition's tutor, for any number of calls side by side, any limit and    *)
(* any bounds; the local C# runner, for any number of tabs and gestures    *)
(* and a server that restarts as often as it likes; and the hosted tutor   *)
(* of the static edition, for any number of clients and requests, any      *)
(* limits and any times.                                                   *)
(***************************************************************************)
EXTENDS TutorQuota, CSharpRunner, TutorProxy, FiniteSetTheorems, TLAPS

\* The hints counted on a day, split by what became of them.
Accounted(d) == count[d] = served[d] + wasted[d] + Cardinality(Holding(d))
QuotaInv == QuotaTypeOK /\ EveryHintIsAccountedFor

-----------------------------------------------------------------------------
\* Which calls hold a hint.

\* There are finitely many, since there are finitely many calls.
LEMMA HoldingIsFinite ==
    ASSUME NEW d
    PROVE  IsFiniteSet(Holding(d)) /\ Cardinality(Holding(d)) \in Nat
<1>1. Holding(d) \subseteq Calls
  BY DEF Holding
<1> QED
  BY <1>1, QuotaAssumption, FS_Subset, FS_CardinalityType

\* A reservation makes one more of its day, and leaves the other days alone.
LEMMA ReservingHolds ==
    ASSUME QuotaTypeOK, NEW c \in Calls, call[c].phase = "asked", To(c, "calling"),
           NEW d \in QuotaDays
    PROVE  Cardinality(Holding(d)') = Cardinality(Holding(d)) + (IF d = call[c].day THEN 1 ELSE 0)
<1>1. c \notin Holding(d)
  BY DEF Holding
<1>2. Holding(d)' = IF d = call[c].day THEN Holding(d) \cup {c} ELSE Holding(d)
  BY DEF Holding, To, QuotaTypeOK, QuotaCall
<1>3. Cardinality(Holding(d) \cup {c}) = Cardinality(Holding(d)) + 1
  BY <1>1, HoldingIsFinite, FS_AddElement
<1> QED
  BY <1>2, <1>3, HoldingIsFinite

\* A call that ends gives up the hint it held.
LEMMA EndingGivesUp ==
    ASSUME QuotaTypeOK, NEW c \in Calls, call[c].phase \in {"calling", "failed"}, Ends(c),
           NEW d \in QuotaDays
    PROVE  Cardinality(Holding(d)) = Cardinality(Holding(d)') + (IF d = call[c].day THEN 1 ELSE 0)
<1>1. Holding(d)' = IF d = call[c].day THEN Holding(d) \ {c} ELSE Holding(d)
  BY DEF Holding, Ends, Resting, QuotaTypeOK, QuotaCall
<1>2. CASE d = call[c].day
  <2>1. c \in Holding(d)
    BY <1>2 DEF Holding
  <2>2. Cardinality(Holding(d) \ {c}) = Cardinality(Holding(d)) - 1
    BY <2>1, HoldingIsFinite, FS_RemoveElement
  <2> QED
    BY <1>1, <1>2, <2>2, HoldingIsFinite
<1> QED
  BY <1>1, <1>2, HoldingIsFinite

\* The other steps of a call leave the holders as they are.
LEMMA HoldersStay ==
    ASSUME QuotaTypeOK, NEW d,
           \/ call' = call
           \/ \E c \in Calls : \/ Ask(c) \/ Deny(c) \/ UpstreamFails(c) \/ ReserveUnheard(c)
    PROVE  Holding(d)' = Holding(d)
  BY DEF Holding, Ask, Deny, UpstreamFails, ReserveUnheard, To, Ends, Resting, QuotaTypeOK,
         QuotaCall

-----------------------------------------------------------------------------
\* The invariant.

\* No hint is counted before a call.
LEMMA QuotaStarts == QuotaInit => QuotaInv
<1> SUFFICES ASSUME QuotaInit PROVE QuotaInv
  OBVIOUS
<1>1. QuotaTypeOK
  BY QuotaAssumption DEF QuotaInit, QuotaTypeOK, QuotaDays, QuotaCall, Resting
<1>2. \A d \in QuotaDays : Holding(d) = {}
  BY DEF QuotaInit, Holding, Resting
<1> QED
  BY <1>1, <1>2, FS_EmptySet, QuotaAssumption DEF QuotaInv, EveryHintIsAccountedFor, QuotaInit

\* One more on a day, and a call that goes on or ends, keep their types.
LEMMA OneMoreIsCounted ==
    ASSUME NEW f \in [QuotaDays -> Nat], NEW d \in QuotaDays
    PROVE  [f EXCEPT ![d] = @ + 1] \in [QuotaDays -> Nat]
  OBVIOUS

\* Ending a call, or going on with it, keeps the calls' type.
LEMMA CallsStayCalls ==
    ASSUME QuotaTypeOK, NEW c \in Calls,
           Ends(c) \/ \E phase \in {"calling", "failed"} : To(c, phase)
    PROVE  call' \in [Calls -> QuotaCall]
<1>1. CASE Ends(c)
  <2>1. Resting \in QuotaCall
    BY QuotaAssumption DEF Resting, QuotaCall, QuotaDays
  <2> QED
    BY <1>1, <2>1 DEF QuotaTypeOK, Ends
<1>2. ASSUME NEW phase \in {"calling", "failed"}, To(c, phase)
      PROVE  call' \in [Calls -> QuotaCall]
  <2>1. [call[c] EXCEPT !.phase = phase] \in QuotaCall
    BY DEF QuotaTypeOK, QuotaCall
  <2> QED
    BY <1>2, <2>1 DEF QuotaTypeOK, To
<1> QED
  BY <1>1, <1>2

\* A step keeps the types.
LEMMA QuotaTypesStay == QuotaTypeOK /\ [QuotaNext]_quotaVars => QuotaTypeOK'
<1> SUFFICES ASSUME QuotaTypeOK, [QuotaNext]_quotaVars PROVE QuotaTypeOK'
  OBVIOUS
<1>d. \A c \in Calls : call[c].day \in QuotaDays
  BY DEF QuotaTypeOK, QuotaCall
<1>1. CASE Midnight
  <2>1. today \in QuotaDays
    BY DEF QuotaTypeOK
  <2>2. today' \in QuotaDays
    BY <1>1, <2>1, QuotaAssumption DEF Midnight, QuotaDays
  <2> QED
    BY <1>1, <2>2 DEF Midnight, QuotaTypeOK
<1>2. ASSUME NEW c \in Calls, Ask(c) PROVE QuotaTypeOK'
  BY <1>2 DEF Ask, QuotaTypeOK, QuotaCall
<1>3. ASSUME NEW c \in Calls, Reserve(c) PROVE QuotaTypeOK'
  <2>1. count' \in [QuotaDays -> Nat]
    BY <1>d, <1>3, OneMoreIsCounted DEF Reserve, QuotaTypeOK
  <2>2. call' \in [Calls -> QuotaCall]
    BY <1>3, CallsStayCalls DEF Reserve
  <2> QED
    BY <1>3, <2>1, <2>2 DEF Reserve, QuotaTypeOK
<1>4. ASSUME NEW c \in Calls, ReserveUnheard(c) PROVE QuotaTypeOK'
  <2>1. count' \in [QuotaDays -> Nat] /\ wasted' \in [QuotaDays -> Nat]
    BY <1>d, <1>4, OneMoreIsCounted DEF ReserveUnheard, QuotaTypeOK
  <2>2. call' \in [Calls -> QuotaCall]
    BY <1>4, CallsStayCalls DEF ReserveUnheard
  <2> QED
    BY <1>4, <2>1, <2>2 DEF ReserveUnheard, QuotaTypeOK
<1>5. ASSUME NEW c \in Calls, Deny(c) PROVE QuotaTypeOK'
  BY <1>5, CallsStayCalls DEF Deny, QuotaTypeOK
<1>6. ASSUME NEW c \in Calls, Serve(c) PROVE QuotaTypeOK'
  <2>1. served' \in [QuotaDays -> Nat]
    BY <1>d, <1>6, OneMoreIsCounted DEF Serve, QuotaTypeOK
  <2> QED
    BY <1>6, <2>1, CallsStayCalls DEF Serve, QuotaTypeOK
<1>7. ASSUME NEW c \in Calls, UpstreamFails(c) PROVE QuotaTypeOK'
  BY <1>7, CallsStayCalls DEF UpstreamFails, QuotaTypeOK
<1>8. ASSUME NEW c \in Calls, Refund(c) PROVE QuotaTypeOK'
  <2>1. count' \in [QuotaDays -> Nat]
    BY <1>d, <1>8 DEF Refund, QuotaTypeOK
  <2> QED
    BY <1>8, <2>1, CallsStayCalls DEF Refund, QuotaTypeOK
<1>9. ASSUME NEW c \in Calls, Waste(c) PROVE QuotaTypeOK'
  <2>1. wasted' \in [QuotaDays -> Nat]
    BY <1>d, <1>9, OneMoreIsCounted DEF Waste, QuotaTypeOK
  <2> QED
    BY <1>9, <2>1, CallsStayCalls DEF Waste, QuotaTypeOK
<1>10. CASE UNCHANGED quotaVars
  BY <1>10 DEF quotaVars, QuotaTypeOK
<1> QED
  BY <1>1, <1>2, <1>3, <1>4, <1>5, <1>6, <1>7, <1>8, <1>9, <1>10 DEF QuotaNext

\* A step keeps the account: a hint counted is reserved, shown, lost or given
\* back, one at a time and each on the day it was counted on.
LEMMA AccountStays == QuotaInv /\ [QuotaNext]_quotaVars => EveryHintIsAccountedFor'
<1> SUFFICES ASSUME QuotaInv, [QuotaNext]_quotaVars, NEW d \in QuotaDays
             PROVE  Accounted(d)' /\ count'[d] <= Limit
  BY DEF EveryHintIsAccountedFor, Accounted
<1>0. QuotaTypeOK /\ Accounted(d) /\ count[d] <= Limit
  BY DEF QuotaInv, EveryHintIsAccountedFor, Accounted
<1>t. count[d] \in Nat /\ served[d] \in Nat /\ wasted[d] \in Nat /\ Limit \in Nat
  BY <1>0, QuotaAssumption DEF QuotaTypeOK
<1>h. Cardinality(Holding(d)) \in Nat /\ Cardinality(Holding(d)') \in Nat
  <2>1. IsFiniteSet(Holding(d)')
    <3>1. Holding(d)' \subseteq Calls
      BY DEF Holding
    <3> QED
      BY <3>1, QuotaAssumption, FS_Subset
  <2> QED
    BY <2>1, HoldingIsFinite, FS_CardinalityType
<1>1. CASE Midnight \/ UNCHANGED quotaVars
  <2>1. Holding(d)' = Holding(d)
    BY <1>0, <1>1, HoldersStay DEF Midnight, quotaVars
  <2> QED
    BY <1>0, <1>1, <2>1 DEF Midnight, quotaVars, Accounted
<1>2. ASSUME NEW c \in Calls, Ask(c) \/ Deny(c) \/ UpstreamFails(c)
      PROVE  Accounted(d)' /\ count'[d] <= Limit
  <2>1. Holding(d)' = Holding(d)
    BY <1>0, <1>2, HoldersStay
  <2> QED
    BY <1>0, <1>2, <2>1 DEF Ask, Deny, UpstreamFails, Accounted
<1>3. ASSUME NEW c \in Calls, Reserve(c) PROVE Accounted(d)' /\ count'[d] <= Limit
  <2>1. Cardinality(Holding(d)') = Cardinality(Holding(d)) + (IF d = call[c].day THEN 1 ELSE 0)
    BY <1>0, <1>3, ReservingHolds DEF Reserve
  <2>2. count'[d] = count[d] + (IF d = call[c].day THEN 1 ELSE 0) /\ count'[d] <= Limit
    BY <1>0, <1>t, <1>3 DEF Reserve, QuotaTypeOK
  <2>3. served' = served /\ wasted' = wasted
    BY <1>3 DEF Reserve
  <2> QED
    BY <1>0, <1>t, <1>h, <2>1, <2>2, <2>3 DEF Accounted
<1>4. ASSUME NEW c \in Calls, ReserveUnheard(c) PROVE Accounted(d)' /\ count'[d] <= Limit
  <2>1. Holding(d)' = Holding(d)
    BY <1>0, <1>4, HoldersStay
  <2>2. /\ count'[d] = count[d] + (IF d = call[c].day THEN 1 ELSE 0) /\ count'[d] <= Limit
        /\ wasted'[d] = wasted[d] + (IF d = call[c].day THEN 1 ELSE 0)
        /\ served' = served
    BY <1>0, <1>t, <1>4 DEF ReserveUnheard, QuotaTypeOK
  <2> QED
    BY <1>0, <1>t, <1>h, <2>1, <2>2 DEF Accounted
<1>5. ASSUME NEW c \in Calls, Serve(c) PROVE Accounted(d)' /\ count'[d] <= Limit
  <2>1. Cardinality(Holding(d)) = Cardinality(Holding(d)') + (IF d = call[c].day THEN 1 ELSE 0)
    BY <1>0, <1>5, EndingGivesUp DEF Serve
  <2>2. /\ served'[d] = served[d] + (IF d = call[c].day THEN 1 ELSE 0)
        /\ count' = count /\ wasted' = wasted
    BY <1>0, <1>t, <1>5 DEF Serve, QuotaTypeOK
  <2> QED
    BY <1>0, <1>t, <1>h, <2>1, <2>2 DEF Accounted
<1>6. ASSUME NEW c \in Calls, Refund(c) PROVE Accounted(d)' /\ count'[d] <= Limit
  <2>1. Cardinality(Holding(d)) = Cardinality(Holding(d)') + (IF d = call[c].day THEN 1 ELSE 0)
    BY <1>0, <1>6, EndingGivesUp DEF Refund
  <2>2. d = call[c].day => count[d] > 0
    BY <1>0, <1>t, <1>h, <2>1 DEF Accounted
  <2>3. /\ count'[d] = count[d] - (IF d = call[c].day THEN 1 ELSE 0)
        /\ served' = served /\ wasted' = wasted
    BY <1>0, <1>t, <1>6, <2>2 DEF Refund, QuotaTypeOK
  <2> QED
    BY <1>0, <1>t, <1>h, <2>1, <2>3 DEF Accounted
<1>7. ASSUME NEW c \in Calls, Waste(c) PROVE Accounted(d)' /\ count'[d] <= Limit
  <2>1. Cardinality(Holding(d)) = Cardinality(Holding(d)') + (IF d = call[c].day THEN 1 ELSE 0)
    BY <1>0, <1>7, EndingGivesUp DEF Waste
  <2>2. /\ wasted'[d] = wasted[d] + (IF d = call[c].day THEN 1 ELSE 0)
        /\ count' = count /\ served' = served
    BY <1>0, <1>t, <1>7 DEF Waste, QuotaTypeOK
  <2> QED
    BY <1>0, <1>t, <1>h, <2>1, <2>2 DEF Accounted
<1> QED
  BY <1>1, <1>2, <1>3, <1>4, <1>5, <1>6, <1>7 DEF QuotaNext

-----------------------------------------------------------------------------

\* Types and the account of hints hold together: a refund subtracts only because
\* the call that asks for it is one of those the count holds.
THEOREM QuotaInvariant == QuotaSpec => []QuotaInv
<1>1. QuotaInv /\ [QuotaNext]_quotaVars => QuotaInv'
  BY QuotaTypesStay, AccountStays DEF QuotaInv
<1> QED
  BY QuotaStarts, <1>1, PTL DEF QuotaSpec

\* Every variable of the quota keeps its type (TutorQuota's QuotaTypeOK).
THEOREM QuotaTypes == QuotaSpec => []QuotaTypeOK
<1>1. QuotaInv => QuotaTypeOK
  BY DEF QuotaInv
<1> QED
  BY QuotaInvariant, <1>1, PTL

\* Each hint counted on a day was shown, is held by a call or was lost, and no day
\* counts more than the limit, however many requests of api/tutor/route.ts run
\* side by side.
THEOREM HintsAreAccountedFor == QuotaSpec => []EveryHintIsAccountedFor
<1>1. QuotaInv => EveryHintIsAccountedFor
  BY DEF QuotaInv
<1> QED
  BY QuotaInvariant, <1>1, PTL

-----------------------------------------------------------------------------
\* The local runner.

\* The program of the gesture a tab is at has not been started: the tab has not sent
\* it yet, or it knows that it was refused.
Unrun(b) == b.phase \in {"worker", "status"} \/ b.ending \in {"refused", "unreached"}

\* A call whose program has not been started.
NotStarted(p) ==
    \/ p.phase \in {"sent", "reading", "compiling"}
    \/ p.phase = "answered" /\ p.status \notin {200, 500}

\* A tab and the starts of its gestures.
TabOk(b, starts) ==
    /\ b.phase # "idle" => b.gesture >= 1 /\ b.ending = "none"
    /\ Unrun(b) => b.gesture >= 1 /\ starts[b.gesture] = 0
    /\ \A g \in Gestures : starts[g] <= 1
    /\ \A g \in Gestures : g > b.gesture => starts[g] = 0

\* A call, the tab it is from and the starts of that tab's gestures.
PostOk(p, b, starts) ==
    /\ p.gesture <= b.gesture
    /\ Unrun(b) => p.gesture < b.gesture
    /\ NotStarted(p) => starts[p.gesture] = 0

\* A gesture has one call at a time.
OneEach(ps) == \A p, q \in ps : p.tab = q.tab /\ p.gesture = q.gesture => p = q

StartsAreTold ==
    /\ \A t \in Tabs : TabOk(tab[t], started[t])
    /\ \A p \in posts : PostOk(p, tab[p.tab], started[p.tab])
    /\ OneEach(posts)

RunnerIsHeldByOne ==
    /\ \A p, q \in Busy : p = q
    /\ active <=> Busy # {}

RunnerInv == RunnerTypeOK /\ StartsAreTold /\ RunnerIsHeldByOne

-----------------------------------------------------------------------------
\* Steps of the server leave the tabs alone.

\* A call that is replaced by a later state of itself, or dropped, keeps its promise
\* as long as it does not claim that a started program was not.
LEMMA ServerStepTells ==
    ASSUME RunnerTypeOK, StartsAreTold, NEW p \in posts, NEW q \in Post,
           q.tab = p.tab, q.gesture = p.gesture,
           NotStarted(q) => started[p.tab][p.gesture] = 0,
           posts' \subseteq (posts \ {p}) \cup {q}, UNCHANGED <<tab, started>>
    PROVE  posts' \subseteq Post /\ StartsAreTold'
<1>1. posts' \subseteq Post
  BY DEF RunnerTypeOK
<1>2. \A r \in posts' : PostOk(r, tab[r.tab], started[r.tab])
  BY DEF StartsAreTold, PostOk
<1>3. OneEach(posts')
  BY DEF StartsAreTold, OneEach
<1> QED
  BY <1>1, <1>2, <1>3 DEF StartsAreTold

\* The call of a request moves on.
LEMMA Moved ==
    ASSUME NEW p \in Post, NEW phase \in {"sent", "reading", "compiling", "running", "answered"},
           Moves(p, phase)
    PROVE  \E q \in Post : /\ q.tab = p.tab /\ q.gesture = p.gesture /\ q.phase = phase
                           /\ posts' = (posts \ {p}) \cup {q}
<1> DEFINE q == [p EXCEPT !.phase = phase]
<1>1. q \in Post
  BY DEF Post
<1>2. q.tab = p.tab /\ q.gesture = p.gesture /\ q.phase = phase
  BY DEF Post
<1>3. posts' = (posts \ {p}) \cup {q}
  BY DEF Moves
<1> HIDE DEF q
<1> QED
  BY <1>1, <1>2, <1>3

\* The call of a request is answered, to a tab that waits for it or to nobody.
LEMMA Answered ==
    ASSUME NEW p \in Post, NEW status \in {200, 403, 429, 400, 500}, Answers(p, status)
    PROVE  \E q \in Post : /\ q.tab = p.tab /\ q.gesture = p.gesture
                           /\ q.phase = "answered" /\ q.status = status
                           /\ posts' \subseteq (posts \ {p}) \cup {q}
                           /\ posts \ {p} \subseteq posts'
<1> DEFINE q == [p EXCEPT !.phase = "answered", !.status = status]
<1>1. q \in Post
  <2> DEFINE r == [p EXCEPT !.phase = "answered"]
  <2>1. r \in Post
    BY DEF Post
  <2>2. q = [r EXCEPT !.status = status]
    OBVIOUS
  <2> HIDE DEF r, q
  <2> QED
    BY <2>1, <2>2 DEF Post
<1>2. q.tab = p.tab /\ q.gesture = p.gesture /\ q.phase = "answered" /\ q.status = status
  BY DEF Post
<1>3. posts' \subseteq (posts \ {p}) \cup {q} /\ posts \ {p} \subseteq posts'
  <2>1. posts' = (posts \ {p}) \cup IF Expected(p.tab, p) THEN {q} ELSE {}
    BY DEF Answers
  <2> HIDE DEF q
  <2> QED
    BY <2>1
<1> HIDE DEF q
<1> QED
  BY <1>1, <1>2, <1>3

\* A request arrives: it does not have the runner before, nor after.
LEMMA ArriveTells ==
    ASSUME RunnerInv, NEW p \in posts, Arrive(p)
    PROVE  RunnerInv'
<1>t. p \in Post /\ p.phase = "sent" /\ UNCHANGED <<token, active, tab, started>>
  BY DEF RunnerInv, RunnerTypeOK, Arrive
<1>0. started[p.tab][p.gesture] = 0
  BY <1>t DEF RunnerInv, StartsAreTold, PostOk, NotStarted
<1>1. PICK q \in Post : /\ q.tab = p.tab /\ q.gesture = p.gesture
                        /\ q.phase \in {"reading", "answered"}
                        /\ posts' \subseteq (posts \ {p}) \cup {q}
                        /\ posts \ {p} \subseteq posts'
  <2>1. CASE p.token = token
    BY <1>t, <2>1, Moved DEF Arrive
  <2>2. CASE p.token # token
    BY <1>t, <2>2, Answered DEF Arrive
  <2> QED
    BY <2>1, <2>2
<1>2. posts' \subseteq Post /\ StartsAreTold'
  BY <1>t, <1>0, <1>1, ServerStepTells DEF RunnerInv
<1>3. Busy' = Busy
  BY <1>t, <1>1 DEF Busy
<1> QED
  BY <1>t, <1>2, <1>3 DEF RunnerInv, RunnerTypeOK, RunnerIsHeldByOne

\* A request is let in only when nobody has the runner, and then it has it.
LEMMA AdmitTells ==
    ASSUME RunnerInv, NEW p \in posts, Admit(p)
    PROVE  RunnerInv'
<1>t. /\ p \in Post /\ p.phase = "reading" /\ ~active
      /\ active' = TRUE /\ UNCHANGED <<token, tab, started>>
  BY DEF RunnerInv, RunnerTypeOK, Admit
<1>0. started[p.tab][p.gesture] = 0
  BY <1>t DEF RunnerInv, StartsAreTold, PostOk, NotStarted
<1>1. PICK q \in Post : /\ q.tab = p.tab /\ q.gesture = p.gesture /\ q.phase = "compiling"
                        /\ posts' = (posts \ {p}) \cup {q}
  BY <1>t, Moved DEF Admit
<1>2. posts' \subseteq Post /\ StartsAreTold'
  BY <1>t, <1>0, <1>1, ServerStepTells DEF RunnerInv
<1>3. Busy = {}
  BY <1>t DEF RunnerInv, RunnerIsHeldByOne
<1>4. Busy' = {q}
  BY <1>t, <1>1, <1>3 DEF Busy
<1> QED
  BY <1>t, <1>2, <1>4 DEF RunnerInv, RunnerTypeOK, RunnerIsHeldByOne

\* A request that is refused never had the runner.
LEMMA RefuseTells ==
    ASSUME RunnerInv, NEW p \in posts, RefuseRun(p)
    PROVE  RunnerInv'
<1>t. p \in Post /\ p.phase = "reading" /\ UNCHANGED <<token, active, tab, started>>
  BY DEF RunnerInv, RunnerTypeOK, RefuseRun
<1>0. started[p.tab][p.gesture] = 0
  BY <1>t DEF RunnerInv, StartsAreTold, PostOk, NotStarted
<1>1. PICK status \in {400, 429} : Answers(p, status)
  BY DEF RefuseRun
<1>2. PICK q \in Post : /\ q.tab = p.tab /\ q.gesture = p.gesture /\ q.phase = "answered"
                        /\ posts' \subseteq (posts \ {p}) \cup {q}
                        /\ posts \ {p} \subseteq posts'
  BY <1>t, <1>1, Answered
<1>3. posts' \subseteq Post /\ StartsAreTold'
  BY <1>t, <1>0, <1>2, ServerStepTells DEF RunnerInv
<1>4. Busy' = Busy
  BY <1>t, <1>2 DEF Busy
<1> QED
  BY <1>t, <1>3, <1>4 DEF RunnerInv, RunnerTypeOK, RunnerIsHeldByOne

\* The one call that has the runner is answered, and the runner is free.
LEMMA GivingBackTells ==
    ASSUME RunnerInv, NEW p \in posts, p.phase \in {"compiling", "running"},
           NEW status \in {200, 500}, Answers(p, status),
           active' = FALSE, UNCHANGED <<token, tab, started>>
    PROVE  RunnerInv'
<1>t. p \in Post
  BY DEF RunnerInv, RunnerTypeOK
<1>1. PICK q \in Post : /\ q.tab = p.tab /\ q.gesture = p.gesture /\ q.phase = "answered"
                        /\ q.status = status
                        /\ posts' \subseteq (posts \ {p}) \cup {q}
  BY <1>t, Answered
<1>2. ~NotStarted(q)
  BY <1>1 DEF NotStarted
<1>3. posts' \subseteq Post /\ StartsAreTold'
  BY <1>t, <1>1, <1>2, ServerStepTells DEF RunnerInv
<1>4. p \in Busy
  BY DEF Busy
<1>5. Busy' = {}
  BY <1>1, <1>4 DEF Busy, RunnerInv, RunnerIsHeldByOne
<1> QED
  BY <1>3, <1>5 DEF RunnerInv, RunnerTypeOK, RunnerIsHeldByOne

\* One more start of a program, and of no other.
LEMMA Counting ==
    ASSUME RunnerTypeOK, NEW t \in Tabs, NEW g \in Gestures,
           started' = [started EXCEPT ![t][g] = @ + 1]
    PROVE  /\ started' \in [Tabs -> [Gestures -> Nat]]
           /\ \A u \in Tabs, h \in Gestures :
                 started'[u][h] = IF u = t /\ h = g THEN started[t][g] + 1 ELSE started[u][h]
BY DEF RunnerTypeOK

\* The compiler is done and the program starts: no other call is of its gesture, and
\* its tab is not one that believes it unsent.
LEMMA StartTells ==
    ASSUME RunnerInv, NEW p \in posts, p.phase = "compiling", Moves(p, "running"),
           active' = active, started' = [started EXCEPT ![p.tab][p.gesture] = @ + 1],
           UNCHANGED <<token, tab>>
    PROVE  RunnerInv'
<1>t. /\ p \in Post /\ p.tab \in Tabs /\ p.gesture \in Gestures
      /\ RunnerTypeOK /\ StartsAreTold /\ RunnerIsHeldByOne
  BY DEF RunnerInv, RunnerTypeOK, Post
<1>0. started[p.tab][p.gesture] = 0
  BY <1>t DEF StartsAreTold, PostOk, NotStarted
<1>1. PICK q \in Post : /\ q.tab = p.tab /\ q.gesture = p.gesture /\ q.phase = "running"
                        /\ posts' = (posts \ {p}) \cup {q}
  BY <1>t, Moved
<1>2. /\ started' \in [Tabs -> [Gestures -> Nat]]
      /\ \A u \in Tabs, h \in Gestures :
            started'[u][h] = IF u = p.tab /\ h = p.gesture THEN 1 ELSE started[u][h]
  <2> DEFINE t == p.tab
             g == p.gesture
  <2>1. t \in Tabs /\ g \in Gestures /\ started[t][g] = 0
    BY <1>t, <1>0
  <2>2. started' = [started EXCEPT ![t][g] = @ + 1]
    OBVIOUS
  <2> HIDE DEF t, g
  <2>3. /\ started' \in [Tabs -> [Gestures -> Nat]]
        /\ \A u \in Tabs, h \in Gestures :
              started'[u][h] = IF u = t /\ h = g THEN started[t][g] + 1 ELSE started[u][h]
    BY <1>t, <2>1, <2>2, Counting
  <2>4. \A u \in Tabs, h \in Gestures :
           started'[u][h] = IF u = t /\ h = g THEN 1 ELSE started[u][h]
    BY <2>1, <2>3
  <2> QED
    BY <2>3, <2>4 DEF t, g
<1>3. RunnerTypeOK'
  BY <1>t, <1>1, <1>2 DEF RunnerTypeOK
<1>4. ASSUME NEW u \in Tabs PROVE TabOk(tab[u], started'[u])
  <2>1. tab[u] \in RunnerTab /\ TabOk(tab[u], started[u])
    BY <1>t DEF RunnerTypeOK, StartsAreTold
  <2>2. u = p.tab => p.gesture <= tab[u].gesture /\ (Unrun(tab[u]) => p.gesture < tab[u].gesture)
    BY <1>t DEF StartsAreTold, PostOk
  <2>3. tab[u].gesture >= 1 => tab[u].gesture \in Gestures
    BY <2>1 DEF RunnerTab, Gestures
  <2>4. tab[u].gesture \in Int /\ Gestures \subseteq Int
    BY <2>1, RunnerAssumption DEF RunnerTab, Gestures
  <2> QED
    BY <1>t, <1>2, <2>1, <2>2, <2>3, <2>4 DEF TabOk
<1>5. ASSUME NEW r \in posts' PROVE PostOk(r, tab[r.tab], started'[r.tab])
  <2>1. CASE r = q
    BY <1>t, <1>1, <2>1 DEF StartsAreTold, PostOk, NotStarted
  <2>2. CASE r # q
    <3>1. r \in posts /\ r # p /\ r \in Post
      BY <1>1, <1>t, <2>2 DEF RunnerTypeOK
    <3>2. ~(r.tab = p.tab /\ r.gesture = p.gesture)
      BY <1>t, <3>1 DEF StartsAreTold, OneEach
    <3>3. started'[r.tab][r.gesture] = started[r.tab][r.gesture]
      BY <1>2, <3>1, <3>2 DEF Post
    <3> QED
      BY <1>t, <3>1, <3>3 DEF StartsAreTold, PostOk
  <2> QED
    BY <2>1, <2>2
<1>6. OneEach(posts')
  BY <1>t, <1>1 DEF StartsAreTold, OneEach
<1>7. Busy = {p} /\ Busy' = {q}
  BY <1>t, <1>1 DEF Busy, RunnerIsHeldByOne
<1>8. RunnerIsHeldByOne'
  BY <1>t, <1>7 DEF RunnerIsHeldByOne
<1> QED
  BY <1>3, <1>4, <1>5, <1>6, <1>8 DEF RunnerInv, StartsAreTold

\* A new server has none of the old one's work: nothing holds the runner.
LEMMA RestartTells ==
    ASSUME RunnerInv, RestartServer
    PROVE  RunnerInv'
<1>1. /\ token' \in Nat /\ active' = FALSE /\ UNCHANGED <<tab, started>>
      /\ posts' \subseteq posts
      /\ \A p \in posts' : p.phase \in {"sent", "answered"}
  BY DEF RestartServer, RunnerInv, RunnerTypeOK
<1>2. RunnerTypeOK'
  BY <1>1 DEF RunnerInv, RunnerTypeOK
<1>3. StartsAreTold'
  BY <1>1 DEF RunnerInv, StartsAreTold, OneEach
<1>4. Busy' = {}
  BY <1>1 DEF Busy
<1> QED
  BY <1>1, <1>2, <1>3, <1>4 DEF RunnerInv, RunnerIsHeldByOne

-----------------------------------------------------------------------------
\* Steps of a tab.

\* What a tab shows changes neither the gesture it is at nor any other tab.
LEMMA Shown ==
    ASSUME RunnerTypeOK, NEW t \in Tabs, NEW e \in Ending, Shows(t, e)
    PROVE  /\ tab' \in [Tabs -> RunnerTab]
           /\ tab'[t].phase = "idle" /\ tab'[t].ending = e
           /\ tab'[t].gesture = tab[t].gesture
           /\ \A u \in Tabs \ {t} : tab'[u] = tab[u]
<1>1. tab \in [Tabs -> RunnerTab] /\ tab[t] \in RunnerTab
  BY DEF RunnerTypeOK
<1>2. tab' = [tab EXCEPT ![t] = [[tab[t] EXCEPT !.phase = "idle"] EXCEPT !.ending = e]]
  BY <1>1 DEF Shows
<1> DEFINE b == [tab[t] EXCEPT !.phase = "idle"]
           c == [b EXCEPT !.ending = e]
<1>3. b \in RunnerTab /\ b.phase = "idle" /\ b.gesture = tab[t].gesture
  BY <1>1 DEF RunnerTab
<1>4. c = [b EXCEPT !.ending = e] /\ tab' = [tab EXCEPT ![t] = c]
  BY <1>2
<1> HIDE DEF b
<1>5. c \in RunnerTab /\ c.phase = "idle" /\ c.gesture = tab[t].gesture /\ c.ending = e
  BY <1>3 DEF RunnerTab
<1> HIDE DEF c
<1> QED
  BY <1>1, <1>4, <1>5

\* A step of a tab leaves the others, and the calls of the others, as they were.
LEMMA TabStepTells ==
    ASSUME RunnerInv, NEW t \in Tabs,
           token' = token, active' = active, Busy' = Busy,
           posts' \subseteq Post,
           tab' \in [Tabs -> RunnerTab], started' \in [Tabs -> [Gestures -> Nat]],
           \A u \in Tabs \ {t} : tab'[u] = tab[u] /\ started'[u] = started[u],
           \A p \in posts' : p.tab # t => p \in posts,
           TabOk(tab'[t], started'[t]),
           \A p \in posts' : p.tab = t => PostOk(p, tab'[t], started'[t]),
           \A p, q \in posts' : p.tab = t /\ q.tab = t /\ p.gesture = q.gesture => p = q
    PROVE  RunnerInv'
<1>1. RunnerTypeOK'
  BY DEF RunnerInv, RunnerTypeOK
<1>2. \A u \in Tabs : TabOk(tab'[u], started'[u])
  BY DEF RunnerInv, StartsAreTold
<1>3. \A p \in posts' : PostOk(p, tab'[p.tab], started'[p.tab])
  BY DEF RunnerInv, StartsAreTold, Post
<1>4. OneEach(posts')
  BY DEF RunnerInv, StartsAreTold, OneEach
<1>5. RunnerIsHeldByOne'
  BY DEF RunnerInv, RunnerIsHeldByOne
<1> QED
  BY <1>1, <1>2, <1>3, <1>4, <1>5 DEF RunnerInv, StartsAreTold

\* The facts of a tab that every one of its steps starts from.
LEMMA OfTab ==
    ASSUME RunnerInv, NEW t \in Tabs
    PROVE  /\ RunnerTypeOK /\ StartsAreTold
           /\ tab[t] \in RunnerTab /\ started[t] \in [Gestures -> Nat]
           /\ tab[t].gesture \in 0 .. MaxRuns /\ MaxRuns \in Nat /\ Gestures \subseteq Nat
           /\ tab[t].gesture >= 1 => tab[t].gesture \in Gestures
           /\ TabOk(tab[t], started[t])
           /\ posts \subseteq Post
           /\ \A p \in posts : p.gesture \in Gestures
           /\ \A p \in posts : p.tab = t => PostOk(p, tab[t], started[t])
           /\ \A p, q \in posts : p.tab = t /\ q.tab = t /\ p.gesture = q.gesture => p = q
<1>1. RunnerTypeOK /\ StartsAreTold
  BY DEF RunnerInv
<1>2. /\ tab[t] \in RunnerTab /\ started[t] \in [Gestures -> Nat] /\ posts \subseteq Post
      /\ \A p \in posts : p.gesture \in Gestures
  BY <1>1 DEF RunnerTypeOK, Post
<1>3. tab[t].gesture \in 0 .. MaxRuns /\ MaxRuns \in Nat /\ Gestures \subseteq Nat
  BY <1>2, RunnerAssumption DEF RunnerTab, Gestures
<1>4. tab[t].gesture >= 1 => tab[t].gesture \in Gestures
  BY <1>3 DEF Gestures
<1>5. /\ TabOk(tab[t], started[t])
      /\ \A p \in posts : p.tab = t => PostOk(p, tab[t], started[t])
      /\ \A p, q \in posts : p.tab = t /\ q.tab = t /\ p.gesture = q.gesture => p = q
  BY <1>1 DEF StartsAreTold, OneEach
<1> QED
  BY <1>1, <1>2, <1>3, <1>4, <1>5

\* A click on Run: the gesture is a new one, so nothing of it was sent or started.
LEMMA RunCodeTells ==
    ASSUME RunnerInv, NEW t \in Tabs, RunCode(t)
    PROVE  RunnerInv'
<1>t. UNCHANGED <<token, active, posts, started>> /\ tab[t].gesture < MaxRuns
  BY DEF RunCode
<1>1. PICK b \in RunnerTab : /\ tab' = [tab EXCEPT ![t] = b]
                             /\ b.phase \in {"worker", "status"} /\ b.ending = "none"
                             /\ b.gesture = tab[t].gesture + 1
  <2>1. PICK phase \in {"worker", "status"} :
           tab' = [tab EXCEPT ![t] = [phase |-> phase, gesture |-> @.gesture + 1,
                                      attempt |-> 0, ending |-> "none"]]
    BY DEF RunCode
  <2> DEFINE b == [phase |-> phase, gesture |-> tab[t].gesture + 1,
                   attempt |-> 0, ending |-> "none"]
  <2>2. tab[t].gesture + 1 \in 0 .. MaxRuns
    BY <1>t, OfTab
  <2>3. b \in RunnerTab
    BY <2>2 DEF RunnerTab, Ending
  <2>4. tab' = [tab EXCEPT ![t] = b]
    BY <2>1, OfTab DEF RunnerTypeOK
  <2> QED
    BY <2>3, <2>4
<1>2. /\ tab' \in [Tabs -> RunnerTab] /\ tab'[t] = b
      /\ \A u \in Tabs \ {t} : tab'[u] = tab[u]
  BY <1>1, OfTab DEF RunnerTypeOK
<1>3. b.gesture \in Gestures
  BY <1>1, <1>t, OfTab DEF Gestures
<1>4. TabOk(b, started[t])
  BY <1>1, <1>3, OfTab DEF TabOk, Unrun
<1>5. \A p \in posts : p.tab = t => PostOk(p, b, started[t])
  BY <1>1, OfTab DEF PostOk
<1>6. Busy' = Busy
  BY <1>t DEF Busy
<1> QED
  BY <1>t, <1>2, <1>4, <1>5, <1>6, OfTab, TabStepTells DEF RunnerTypeOK

\* The worker of the tab ran the program, or may have.
LEMMA WorkerEndsTells ==
    ASSUME RunnerInv, NEW t \in Tabs, WorkerEnds(t)
    PROVE  RunnerInv'
<1>t. UNCHANGED <<token, active, posts>> /\ tab[t].phase = "worker"
  BY DEF WorkerEnds
<1>1. PICK e \in {"result", "unsure"} :
         Shows(t, e) /\ started' = [started EXCEPT ![t][tab[t].gesture] = @ + 1]
  BY DEF WorkerEnds
<1>2. /\ tab' \in [Tabs -> RunnerTab]
      /\ tab'[t].phase = "idle" /\ tab'[t].ending = e /\ tab'[t].gesture = tab[t].gesture
      /\ \A u \in Tabs \ {t} : tab'[u] = tab[u]
  BY <1>1, OfTab, Shown DEF Ending
<1>3. PICK g \in Gestures : g = tab[t].gesture /\ started[t][g] = 0
  BY <1>t, OfTab DEF TabOk, Unrun
<1>4. /\ started' \in [Tabs -> [Gestures -> Nat]]
      /\ \A u \in Tabs, h \in Gestures :
            started'[u][h] = IF u = t /\ h = g THEN started[t][g] + 1 ELSE started[u][h]
  <2>1. started' = [started EXCEPT ![t][g] = @ + 1] /\ RunnerTypeOK
    BY <1>1, <1>3, OfTab
  <2> QED
    BY <2>1, Counting
<1>5. started'[t][g] = 1 /\ \A h \in Gestures \ {g} : started'[t][h] = started[t][h]
  BY <1>3, <1>4
<1>6. \A u \in Tabs \ {t} : started'[u] = started[u]
  BY <1>4, OfTab DEF RunnerTypeOK
<1>7. TabOk(tab'[t], started'[t])
  BY <1>2, <1>3, <1>5, OfTab DEF TabOk, Unrun
<1>8. ASSUME NEW p \in posts', p.tab = t PROVE PostOk(p, tab'[t], started'[t])
  <2>1. p.gesture < g /\ p.gesture \in Gestures /\ PostOk(p, tab[t], started[t])
    BY <1>t, <1>3, <1>8, OfTab DEF PostOk, Unrun
  <2>2. started'[t][p.gesture] = started[t][p.gesture]
    BY <1>3, <1>5, <2>1, OfTab
  <2> QED
    BY <1>2, <1>3, <2>1, <2>2 DEF PostOk, Unrun
<1>9. Busy' = Busy
  BY <1>t DEF Busy
<1> QED
  BY <1>t, <1>2, <1>4, <1>6, <1>7, <1>8, <1>9, OfTab, TabStepTells

\* The program is sent, the first of its gesture; or the server does not answer and
\* nothing is sent.
LEMMA GetStatusTells ==
    ASSUME RunnerInv, NEW t \in Tabs, GetStatus(t)
    PROVE  RunnerInv'
<1>t. UNCHANGED <<token, active, started>> /\ tab[t].phase = "status"
  BY DEF GetStatus
<1>g. /\ tab[t].gesture \in Gestures /\ tab[t].gesture >= 1 /\ tab[t].ending = "none"
      /\ started[t][tab[t].gesture] = 0
      /\ \A p \in posts : p.tab = t => p.gesture < tab[t].gesture
  BY <1>t, OfTab DEF TabOk, PostOk, Unrun
<1>1. CASE Shows(t, "unreached") /\ posts' = posts
  <2>1. /\ tab' \in [Tabs -> RunnerTab]
        /\ tab'[t].phase = "idle" /\ tab'[t].ending = "unreached"
        /\ tab'[t].gesture = tab[t].gesture
        /\ \A u \in Tabs \ {t} : tab'[u] = tab[u]
    BY <1>1, OfTab, Shown DEF Ending
  <2>2. TabOk(tab'[t], started[t])
    BY <1>g, <2>1, OfTab DEF TabOk
  <2>3. \A p \in posts : p.tab = t => PostOk(p, tab'[t], started[t])
    BY <1>g, <2>1, OfTab DEF PostOk
  <2>4. Busy' = Busy
    BY <1>1 DEF Busy
  <2> QED
    BY <1>t, <1>1, <2>1, <2>2, <2>3, <2>4, OfTab, TabStepTells DEF RunnerTypeOK
<1>2. CASE tab' = [tab EXCEPT ![t].phase = "waiting"] /\ posts' = posts \cup {Call(t)}
  <2>1. /\ tab' \in [Tabs -> RunnerTab]
        /\ tab'[t].phase = "waiting" /\ tab'[t].ending = "none"
        /\ tab'[t].gesture = tab[t].gesture
        /\ \A u \in Tabs \ {t} : tab'[u] = tab[u]
    BY <1>2, <1>g, OfTab DEF RunnerTypeOK, RunnerTab
  <2>2. PICK q \in Post : /\ q.tab = t /\ q.gesture = tab[t].gesture /\ q.phase = "sent"
                          /\ posts' = posts \cup {q}
    <3>1. Call(t) \in Post
      BY <1>g, OfTab DEF Call, Post, RunnerTypeOK, RunnerTab
    <3> QED
      BY <1>2, <3>1 DEF Call
  <2>3. TabOk(tab'[t], started[t])
    BY <1>g, <2>1, OfTab DEF TabOk, Unrun
  <2>4. \A p \in posts' : p.tab = t => PostOk(p, tab'[t], started[t])
    BY <1>g, <2>1, <2>2, OfTab DEF PostOk, Unrun
  <2>5. \A p, r \in posts' : p.tab = t /\ r.tab = t /\ p.gesture = r.gesture => p = r
    BY <1>g, <2>2, OfTab
  <2>6. Busy' = Busy
    BY <2>2 DEF Busy
  <2> QED
    BY <1>t, <2>1, <2>2, <2>3, <2>4, <2>5, <2>6, OfTab, TabStepTells DEF RunnerTypeOK
<1> QED
  BY <1>1, <1>2 DEF GetStatus

\* No answer: what the tab shows claims nothing about the program.
LEMMA GiveUpTells ==
    ASSUME RunnerInv, NEW t \in Tabs, GiveUp(t)
    PROVE  RunnerInv'
<1>t. /\ UNCHANGED <<token, active, started>> /\ tab[t].phase = "waiting"
      /\ Shows(t, "unsure") /\ posts' \subseteq posts
      /\ \A p \in posts : p.phase # "answered" => p \in posts'
  BY DEF GiveUp
<1>1. /\ tab' \in [Tabs -> RunnerTab]
      /\ tab'[t].phase = "idle" /\ tab'[t].ending = "unsure"
      /\ tab'[t].gesture = tab[t].gesture
      /\ \A u \in Tabs \ {t} : tab'[u] = tab[u]
  BY <1>t, OfTab, Shown DEF Ending
<1>2. TabOk(tab'[t], started[t])
  BY <1>1, OfTab DEF TabOk, Unrun
<1>3. \A p \in posts : p.tab = t => PostOk(p, tab'[t], started[t])
  BY <1>1, OfTab DEF PostOk, Unrun
<1>4. Busy' = Busy
  BY <1>t DEF Busy
<1> QED
  BY <1>t, <1>1, <1>2, <1>3, <1>4, OfTab, TabStepTells DEF RunnerTypeOK

\* An answer: a refusal is of a program that was not started, and the call it answers
\* was the only one of its gesture.
LEMMA HearRunTells ==
    ASSUME RunnerInv, NEW t \in Tabs, NEW p \in posts, HearRun(t, p)
    PROVE  RunnerInv'
<1>t. /\ UNCHANGED <<token, active, started>> /\ posts' = posts \ {p}
      /\ tab[t].phase = "waiting" /\ p.phase = "answered"
      /\ p.tab = t /\ p.gesture = tab[t].gesture
  BY DEF HearRun, Expected
<1>g. tab[t].gesture \in Gestures /\ tab[t].gesture >= 1 /\ tab[t].ending = "none"
  BY <1>t, OfTab DEF TabOk
<1>1. \A r \in posts' : r.tab = t => r.gesture < tab[t].gesture
  BY <1>t, OfTab DEF PostOk
<1>2. p.status \notin {200, 500} => started[t][tab[t].gesture] = 0
  BY <1>t, OfTab DEF PostOk, NotStarted
<1>3. Busy' = Busy
  BY <1>t DEF Busy
<1>4. /\ tab' \in [Tabs -> RunnerTab]
      /\ tab'[t].gesture = tab[t].gesture
      /\ tab'[t].phase # "idle" => tab'[t].ending = "none"
      /\ Unrun(tab'[t]) => p.status \notin {200, 500}
      /\ \A u \in Tabs \ {t} : tab'[u] = tab[u]
  <2>1. CASE p.status = 403 /\ tab[t].attempt = 0
    <3>1. tab' = [tab EXCEPT ![t].phase = "status", ![t].attempt = 1]
      BY <2>1 DEF HearRun
    <3> DEFINE b == [tab[t] EXCEPT !.phase = "status"]
               c == [b EXCEPT !.attempt = 1]
    <3>2. tab' = [tab EXCEPT ![t] = c]
      BY <3>1, OfTab DEF RunnerTypeOK
    <3>3. b \in RunnerTab /\ b.gesture = tab[t].gesture /\ b.ending = "none"
      BY <1>g, OfTab DEF RunnerTab
    <3>4. c = [b EXCEPT !.attempt = 1]
      OBVIOUS
    <3> HIDE DEF b
    <3>5. c \in RunnerTab /\ c.gesture = tab[t].gesture /\ c.ending = "none"
      BY <3>3 DEF RunnerTab
    <3> HIDE DEF c
    <3> QED
      BY <2>1, <3>2, <3>5, OfTab DEF RunnerTypeOK
  <2>2. CASE ~(p.status = 403 /\ tab[t].attempt = 0)
    <3>1. PICK e \in Ending : Shows(t, e) /\ (e = "refused" => p.status \notin {200, 500})
                              /\ e # "unreached"
      BY <2>2 DEF HearRun, Ending
    <3> QED
      BY <3>1, OfTab, Shown DEF Unrun
  <2> QED
    BY <2>1, <2>2
<1>5. TabOk(tab'[t], started[t])
  BY <1>g, <1>2, <1>4, OfTab DEF TabOk
<1>6. \A r \in posts' : r.tab = t => PostOk(r, tab'[t], started[t])
  BY <1>t, <1>1, <1>4, OfTab DEF PostOk
<1> QED
  BY <1>t, <1>3, <1>4, <1>5, <1>6, OfTab, TabStepTells DEF RunnerTypeOK

-----------------------------------------------------------------------------

\* At first nothing compiles or runs.
LEMMA RunnerStarts == RunnerInit => RunnerInv
<1> SUFFICES ASSUME RunnerInit PROVE RunnerInv
  OBVIOUS
<1>1. RunnerTypeOK
  <2>1. [phase |-> "idle", gesture |-> 0, attempt |-> 0, ending |-> "none"] \in RunnerTab
    BY RunnerAssumption DEF RunnerTab, Ending
  <2>2. tab \in [Tabs -> RunnerTab]
    BY <2>1 DEF RunnerInit
  <2>3. started \in [Tabs -> [Gestures -> Nat]]
    BY DEF RunnerInit
  <2>4. token \in Nat /\ active \in BOOLEAN /\ posts \subseteq Post
    BY DEF RunnerInit
  <2> QED
    BY <2>2, <2>3, <2>4 DEF RunnerTypeOK
<1>2. StartsAreTold
  BY DEF RunnerInit, StartsAreTold, TabOk, Unrun, OneEach
<1>3. RunnerIsHeldByOne
  BY DEF RunnerInit, RunnerIsHeldByOne, Busy
<1> QED
  BY <1>1, <1>2, <1>3 DEF RunnerInv

\* Every step of a page or of the server keeps the runner's invariant.
LEMMA RunnerStays == RunnerInv /\ [RunnerNext]_runnerVars => RunnerInv'
<1> SUFFICES ASSUME RunnerInv, [RunnerNext]_runnerVars PROVE RunnerInv'
  OBVIOUS
<1>1. CASE UNCHANGED runnerVars
  BY <1>1 DEF runnerVars, RunnerInv, RunnerTypeOK, StartsAreTold, RunnerIsHeldByOne, Busy
<1>2. CASE RestartServer
  BY <1>2, RestartTells
<1>3. ASSUME NEW t \in Tabs, RunCode(t) PROVE RunnerInv'
  BY <1>3, RunCodeTells
<1>4. ASSUME NEW t \in Tabs, Running(t) PROVE RunnerInv'
  BY <1>4, WorkerEndsTells, GetStatusTells, GiveUpTells, HearRunTells DEF Running
<1>5. ASSUME NEW p \in posts, Arrive(p) \/ Admit(p) \/ RefuseRun(p) PROVE RunnerInv'
  BY <1>5, ArriveTells, AdmitTells, RefuseTells
<1>6. ASSUME NEW p \in posts, CompileEnds(p) PROVE RunnerInv'
  <2>1. CASE \E status \in {200, 500} : Answers(p, status) /\ active' = FALSE /\ started' = started
    BY <1>6, <2>1, GivingBackTells DEF CompileEnds
  <2>2. CASE /\ Moves(p, "running") /\ active' = active
             /\ started' = [started EXCEPT ![p.tab][p.gesture] = @ + 1]
    BY <1>6, <2>2, StartTells DEF CompileEnds
  <2> QED
    BY <1>6, <2>1, <2>2 DEF CompileEnds
<1>7. ASSUME NEW p \in posts, RunEnds(p) PROVE RunnerInv'
  BY <1>7, GivingBackTells DEF RunEnds
<1> QED
  BY <1>1, <1>2, <1>3, <1>4, <1>5, <1>6, <1>7 DEF RunnerNext, Serving

\* What a tab knows of its gesture, what a call may still do and who holds the runner
\* are kept together: a refusal is believed because the call it answers was the only
\* one of its gesture and had not started.
THEOREM RunnerInvariant == RunnerSpec => []RunnerInv
BY RunnerStarts, RunnerStays, PTL DEF RunnerSpec

\* Every variable of the runner keeps its type (CSharpRunner's RunnerTypeOK).
THEOREM RunnerTypes == RunnerSpec => []RunnerTypeOK
<1>1. RunnerInv => RunnerTypeOK
  BY DEF RunnerInv
<1> QED
  BY RunnerInvariant, <1>1, PTL

\* server.mjs compiles and runs one program at a time, a gesture of runCode() starts
\* its program at most once, and after a refusal the program neither ran nor will:
\* whatever the restarts, the lost answers and the timeouts.
THEOREM RunnersStayTrue == RunnerSpec => []RunnersAreTrue
<1>1. ASSUME RunnerInv PROVE OneProgramAtATime
  <2>1. CASE Busy = {}
    BY <1>1, <2>1, FS_EmptySet DEF OneProgramAtATime, RunnerInv, RunnerIsHeldByOne
  <2>2. CASE Busy # {}
    <3>1. PICK p : Busy = {p}
      BY <1>1, <2>2 DEF RunnerInv, RunnerIsHeldByOne
    <3>2. Cardinality(Busy) = 1
      BY <3>1, FS_Singleton
    <3> QED
      BY <1>1, <3>2 DEF OneProgramAtATime, RunnerInv, RunnerIsHeldByOne
  <2> QED
    BY <2>1, <2>2
<1>2. ASSUME RunnerInv, NEW t \in Tabs
      PROVE  /\ \A g \in Gestures : started[t][g] <= 1
             /\ tab[t].ending \in {"refused", "unreached"} =>
                   /\ started[t][tab[t].gesture] = 0
                   /\ \A p \in posts : p.tab = t => p.gesture < tab[t].gesture
  BY <1>2, OfTab DEF TabOk, PostOk, Unrun
<1>3. RunnerInv => RunnersAreTrue
  BY <1>1, <1>2 DEF RunnersAreTrue, AnswerTellsWhatRan
<1> QED
  BY RunnerInvariant, <1>3, PTL

-----------------------------------------------------------------------------
\* The hosted tutor.

\* A list that was written up to t.
Booked(log, t) == IsFiniteSet(log) /\ \A u \in log : u.at <= t /\ u.nth <= Cardinality(log)

OfDay(d) == {u \in spent : ProxyDay(u.at) = d}

\* The counter is of the last day that has calls, and counts them all.
BudgetInv ==
    /\ Booked(spent, time)
    /\ budget.day <= ProxyDay(time)
    /\ \A u \in spent : ProxyDay(u.at) <= budget.day
    /\ Cardinality(OfDay(budget.day)) = budget.count
    /\ \A d \in Nat : Cardinality(OfDay(d)) <= DailyMax

\* The limiter's list lacks nothing that is in the window still.
LimitInv == \A c \in Clients :
    /\ Booked(admitted[c], time)
    /\ hits[c] \subseteq admitted[c]
    /\ \A u \in admitted[c] \ hits[c] : u.at <= time - Window
    /\ \A t \in 0 .. time : Cardinality(Recent(admitted[c], t)) <= MaxHits

Ended(c) == c \in Clients \ signedIn

\* What was asked before a session ended may be answered, and the answer trusted, for
\* so long and no longer.
TrustInv ==
    /\ \A c \in Clients : leftAt[c] <= time /\ trusted[c] <= time + CacheTime
    /\ \A c \in Clients : Ended(c) => trusted[c] <= leftAt[c] + CheckTime + CacheTime
    /\ \A r \in Requests : request[r].phase # "idle" => Caller(r) \in Clients /\ request[r].since <= time
    /\ \A r \in Requests : request[r].phase \in {"checking", "answered"} =>
          time <= request[r].since + CheckTime
    /\ \A r \in Requests : request[r].phase = "answered" /\ request[r].valid /\ Ended(Caller(r)) =>
          request[r].since <= leftAt[Caller(r)]
    /\ \A r \in Requests : request[r].phase \in {"body", "upstream"} /\ Ended(Caller(r)) =>
          request[r].since < leftAt[Caller(r)] + CheckTime + CacheTime

ProxyInv == ProxyTypeOK /\ BudgetInv /\ LimitInv /\ TrustInv

-----------------------------------------------------------------------------
\* Days and lists.

\* Days follow one another as the ticks do.
LEMMA DaysFollow ==
    ASSUME NEW t \in Nat, NEW u \in Nat, t <= u
    PROVE  /\ ProxyDay(t) \in Nat /\ ProxyDay(u) \in Nat
           /\ ProxyDay(t) <= ProxyDay(u)
<1> DEFINE n == DayTime
           a == t \div n
           b == u \div n
<1>1. n \in Nat /\ n > 0
  BY ProxyAssumption
<1> HIDE DEF n
<1>2. a \in Int /\ a * n <= t /\ t < (a + 1) * n
  BY <1>1
<1>3. b \in Int /\ b * n <= u /\ u < (b + 1) * n
  BY <1>1
<1> HIDE DEF a, b
<1>4. a >= 0 /\ b >= 0
  BY <1>1, <1>2, <1>3
<1>5. a <= b
  <2> SUFFICES ASSUME b + 1 <= a PROVE FALSE
    BY <1>2, <1>3
  <2>1. (b + 1) * n <= a * n
    BY <1>1, <1>2, <1>3
  <2> DEFINE x == (b + 1) * n
             y == a * n
  <2>2. x \in Int /\ y \in Int /\ u < x /\ x <= y /\ y <= t
    BY <1>1, <1>2, <1>3, <2>1
  <2> HIDE DEF x, y
  <2> QED
    BY <2>2
<1> QED
  BY <1>2, <1>3, <1>4, <1>5 DEF ProxyDay, a, b, n

\* A new entry is none of the old ones.
LEMMA LoggingIsNew ==
    ASSUME NEW log \in SUBSET Entry, NEW t \in Nat, Booked(log, t),
           NEW e, e = [at |-> t, nth |-> Cardinality(log) + 1]
    PROVE  /\ e \in Entry /\ e \notin log /\ e.at = t
           /\ Booked(log \cup {e}, t)
<1>1. IsFiniteSet(log) /\ Cardinality(log) \in Nat
  BY FS_CardinalityType DEF Booked
<1>2. e \in Entry /\ e.at = t /\ e.nth = Cardinality(log) + 1
  BY <1>1 DEF Entry
<1>3. e \notin log
  BY <1>1, <1>2 DEF Booked
<1>4. IsFiniteSet(log \cup {e}) /\ Cardinality(log \cup {e}) = Cardinality(log) + 1
  BY <1>1, <1>3, FS_AddElement
<1>5. \A u \in log : u.nth \in Nat
  BY DEF Entry
<1>6. \A u \in log \cup {e} : u.at <= t /\ u.nth <= Cardinality(log \cup {e})
  BY <1>1, <1>2, <1>4, <1>5 DEF Booked
<1> QED
  BY <1>2, <1>3, <1>4, <1>6 DEF Booked

\* A part of a finite set, and one more that is not in the set.
LEMMA PartGrows ==
    ASSUME NEW S, IsFiniteSet(S), NEW e, e \notin S, NEW A \in SUBSET S
    PROVE  /\ IsFiniteSet(A) /\ Cardinality(A) \in Nat
           /\ Cardinality(A \cup {e}) = Cardinality(A) + 1
<1>1. IsFiniteSet(A) /\ Cardinality(A) \in Nat /\ e \notin A
  BY FS_Subset, FS_CardinalityType
<1> QED
  BY <1>1, FS_AddElement

\* Time alone.
LEMMA BookedStays ==
    ASSUME NEW log \in SUBSET Entry, NEW t \in Nat, NEW u \in Nat, Booked(log, t), t <= u
    PROVE  Booked(log, u)
BY DEF Booked, Entry

-----------------------------------------------------------------------------
\* The budget.

\* With no call counted the budget stands, whatever day it has become.
LEMMA BudgetStays ==
    ASSUME ProxyTypeOK, ProxyTypeOK', BudgetInv, UNCHANGED <<budget, spent>>,
           time <= time'
    PROVE  BudgetInv'
<1>1. time \in Nat /\ time' \in Nat /\ spent \in SUBSET Entry /\ budget.day \in Nat \cup {-1}
  BY DEF ProxyTypeOK
<1>2. Booked(spent, time')
  BY <1>1, BookedStays DEF BudgetInv
<1>3. budget'.day <= ProxyDay(time')
  BY <1>1, DaysFollow DEF BudgetInv
<1>4. \A d : OfDay(d)' = OfDay(d)
  BY DEF OfDay, ProxyDay
<1> QED
  BY <1>2, <1>3, <1>4 DEF BudgetInv, ProxyDay, Booked

\* A call of the model: the counter that lets it through is of this day.
LEMMA SpendingIsCounted ==
    ASSUME ProxyTypeOK, BudgetInv, NEW r \in Requests, Spend(r)
    PROVE  BudgetInv'
<1>0. PICK now, log, n :
         /\ now = ProxyDay(time) /\ log = spent /\ n = Today
  OBVIOUS
<1>t. /\ time \in Nat /\ log \in SUBSET Entry /\ Booked(log, time) /\ IsFiniteSet(log)
      /\ budget.day \in Nat \cup {-1} /\ n \in Nat /\ DailyMax \in Nat
      /\ \A u \in log : u.at \in Nat /\ u.at <= time
  BY <1>0, ProxyAssumption DEF ProxyTypeOK, BudgetInv, Booked, Entry, Today
<1>s. /\ time' = time /\ n < DailyMax
      /\ budget'.day = now /\ budget'.count = n + 1
      /\ spent' = log \cup {[at |-> time, nth |-> Cardinality(log) + 1]}
  BY <1>0 DEF Spend, Logged
<1>d. now \in Nat /\ \A u \in log : ProxyDay(u.at) \in Nat /\ ProxyDay(u.at) <= now
  BY <1>0, <1>t, DaysFollow
<1>1. PICK e : /\ e \in Entry /\ e \notin log /\ e.at = time /\ Booked(log \cup {e}, time)
               /\ spent' = log \cup {e}
  <2>1. PICK e : e = [at |-> time, nth |-> Cardinality(log) + 1]
    OBVIOUS
  <2>2. log \in SUBSET Entry /\ time \in Nat /\ Booked(log, time)
    BY <1>t
  <2>3. e \in Entry /\ e \notin log /\ e.at = time /\ Booked(log \cup {e}, time)
    BY <2>1, <2>2, LoggingIsNew
  <2> QED
    BY <1>s, <2>1, <2>3
<1>2. Booked(spent', time') /\ ProxyDay(e.at) = now
  BY <1>0, <1>1, <1>s
<1>3. \A d : OfDay(d) \in SUBSET log
  BY <1>0 DEF OfDay
<1>4. Cardinality(OfDay(now)) = n
  <2>1. CASE budget.day = now
    BY <1>0, <2>1 DEF BudgetInv, Today
  <2>2. CASE budget.day # now
    <3>1. budget.day < now
      BY <1>0, <1>t, <1>d, <2>2 DEF BudgetInv
    <3>2. OfDay(now) = {}
      BY <1>0, <1>t, <1>d, <3>1 DEF BudgetInv, OfDay
    <3> QED
      BY <1>0, <2>2, <3>2, FS_EmptySet DEF Today
  <2> QED
    BY <2>1, <2>2
<1>5. OfDay(now)' = OfDay(now) \cup {e}
  BY <1>0, <1>1, <1>2 DEF OfDay, ProxyDay
<1>6. Cardinality(OfDay(now)') = n + 1
  <2>1. PICK today_ : today_ = OfDay(now)
    OBVIOUS
  <2>2. Cardinality(today_ \cup {e}) = Cardinality(today_) + 1
    BY <1>t, <1>1, <1>3, <2>1, PartGrows
  <2> QED
    BY <1>4, <1>5, <2>1, <2>2
<1>7. ASSUME NEW d, d # now PROVE OfDay(d)' = OfDay(d)
  BY <1>0, <1>1, <1>2, <1>7 DEF OfDay, ProxyDay
<1>8. \A d \in Nat : Cardinality(OfDay(d)') <= DailyMax
  <2> TAKE d \in Nat
  <2>1. CASE d = now
    BY <1>6, <1>t, <1>s, <2>1
  <2>2. CASE d # now
    BY <1>7, <2>2 DEF BudgetInv
  <2> QED
    BY <2>1, <2>2
<1>9. \A u \in spent' : ProxyDay(u.at) <= now
  BY <1>1, <1>2, <1>d
<1>10. now <= ProxyDay(time')
  BY <1>0, <1>s, <1>d
<1>11. /\ Cardinality(OfDay(budget.day)') = budget'.count
       /\ \A u \in spent' : ProxyDay(u.at)' <= budget'.day
  BY <1>s, <1>6, <1>9 DEF ProxyDay, OfDay
<1> QED
  BY <1>2, <1>s, <1>8, <1>10, <1>11 DEF BudgetInv, OfDay, ProxyDay

-----------------------------------------------------------------------------
\* The limit of a caller.

\* With no call let in the limit stands.
LEMMA LimitStays ==
    ASSUME ProxyTypeOK, LimitInv, UNCHANGED <<time, hits, admitted>>
    PROVE  LimitInv'
BY DEF LimitInv, Booked, Recent

\* As time passes, what was not in the window does not enter it.
LEMMA LimitWithTime ==
    ASSUME ProxyTypeOK, LimitInv, TimePasses
    PROVE  LimitInv'
<1>t. /\ time \in Nat /\ time' = time + 1 /\ UNCHANGED <<hits, admitted>>
      /\ Window \in Nat /\ MaxHits \in Nat
  BY ProxyAssumption DEF ProxyTypeOK, TimePasses
<1> SUFFICES ASSUME NEW c \in Clients
             PROVE  /\ Booked(admitted[c], time')
                    /\ \A u \in admitted[c] \ hits[c] : u.at <= time' - Window
                    /\ \A t \in 0 .. time' : Cardinality(Recent(admitted[c], t)) <= MaxHits
  BY <1>t DEF LimitInv, Booked, Recent
<1>0. PICK log : /\ log = admitted[c] /\ log \in SUBSET Entry /\ Booked(log, time)
                 /\ \A u \in log : u.at \in Nat /\ u.at <= time
  BY DEF LimitInv, Booked, Entry, ProxyTypeOK
<1>1. Booked(log, time')
  <2>1. time' \in Nat /\ time <= time'
    BY <1>t
  <2> QED
    BY <1>t, <1>0, <2>1, BookedStays
<1>2. \A u \in log \ hits[c] : u.at <= time' - Window
  BY <1>t, <1>0 DEF LimitInv
<1>3. Cardinality(Recent(log, time + 1)) <= MaxHits
  <2>1. PICK A, B : A = Recent(log, time) /\ B = Recent(log, time + 1)
    OBVIOUS
  <2>2. B \subseteq A
    BY <1>t, <1>0, <2>1 DEF Recent
  <2>3. IsFiniteSet(A)
    BY <1>0, <2>1, FS_Subset DEF Booked, Recent
  <2>4. Cardinality(A) <= MaxHits
    BY <1>t, <1>0, <2>1 DEF LimitInv
  <2>5. Cardinality(B) \in Nat /\ Cardinality(A) \in Nat /\ Cardinality(B) <= Cardinality(A)
    BY <2>2, <2>3, FS_Subset, FS_CardinalityType
  <2> QED
    BY <1>t, <2>1, <2>4, <2>5
<1>4. \A t \in 0 .. time' : t \in 0 .. time \/ t = time + 1
  BY <1>t
<1>5. \A t \in 0 .. time' : Cardinality(Recent(log, t)) <= MaxHits
  BY <1>0, <1>3, <1>4 DEF LimitInv
<1> QED
  BY <1>0, <1>1, <1>2, <1>5

\* A request that is let in is one more of this moment, and of no earlier one.
LEMMA AskingIsLimited ==
    ASSUME ProxyTypeOK, LimitInv, NEW r \in Requests, NEW c \in Clients, AskTutorProxy(r, c)
    PROVE  LimitInv'
<1>0. PICK old, live : old = admitted[c] /\ live = Recent(hits[c], time)
  OBVIOUS
<1>t. /\ time \in Nat /\ time' = time /\ old \in SUBSET Entry /\ Booked(old, time)
      /\ IsFiniteSet(old) /\ hits[c] \subseteq old
      /\ \A u \in old : u.at \in Nat /\ u.at <= time
      /\ \A u \in old \ hits[c] : u.at <= time - Window
      /\ \A t \in 0 .. time : Cardinality(Recent(old, t)) <= MaxHits
      /\ Window \in Nat /\ Window > 0 /\ MaxHits \in Nat
  BY <1>0, ProxyAssumption DEF ProxyTypeOK, LimitInv, Booked, Entry, AskTutorProxy
<1>1. PICK e : /\ e \in Entry /\ e \notin old /\ e.at = time /\ Booked(old \cup {e}, time)
               /\ e = [at |-> time, nth |-> Cardinality(old) + 1]
  <2>1. PICK e : e = [at |-> time, nth |-> Cardinality(old) + 1]
    OBVIOUS
  <2>2. old \in SUBSET Entry /\ time \in Nat /\ Booked(old, time)
    BY <1>t
  <2>3. e \in Entry /\ e \notin old /\ e.at = time /\ Booked(old \cup {e}, time)
    BY <2>1, <2>2, LoggingIsNew
  <2> QED
    BY <2>1, <2>3
<1>2. /\ admitted' = [admitted EXCEPT ![c] = old \cup {e}]
      /\ hits' = [hits EXCEPT ![c] = live \cup {e}]
      /\ Cardinality(live) < MaxHits
  BY <1>0, <1>1 DEF AskTutorProxy, ProxyTypeOK, Logged
<1>3. Recent(old, time) = live
  BY <1>0, <1>t DEF Recent
<1>4. \A t \in 0 .. time : t # time => Recent(old \cup {e}, t) = Recent(old, t)
  BY <1>1, <1>t DEF Recent
<1>5. Recent(old \cup {e}, time) = live \cup {e}
  BY <1>1, <1>3, <1>t DEF Recent
<1>6. Cardinality(live \cup {e}) <= MaxHits
  <2>1. live \in SUBSET old /\ IsFiniteSet(old) /\ e \notin old
    BY <1>t, <1>1, <1>3 DEF Recent
  <2>2. Cardinality(live) \in Nat /\ Cardinality(live \cup {e}) = Cardinality(live) + 1
    BY <2>1, PartGrows
  <2> QED
    BY <1>2, <1>t, <2>2
<1>7. \A t \in 0 .. time : Cardinality(Recent(old \cup {e}, t)) <= MaxHits
  BY <1>4, <1>5, <1>6, <1>t
<1>8. \A u \in (old \cup {e}) \ (live \cup {e}) : u.at <= time - Window
  BY <1>0, <1>t DEF Recent
<1>9. live \cup {e} \subseteq old \cup {e}
  BY <1>3 DEF Recent
<1>10. /\ admitted'[c] = old \cup {e} /\ hits'[c] = live \cup {e}
       /\ \A d \in Clients \ {c} : admitted'[d] = admitted[d] /\ hits'[d] = hits[d]
  BY <1>2 DEF ProxyTypeOK
<1>11. ASSUME NEW d \in Clients
       PROVE  /\ Booked(admitted'[d], time)
              /\ hits'[d] \subseteq admitted'[d]
              /\ \A u \in admitted'[d] \ hits'[d] : u.at <= time - Window
              /\ \A t \in 0 .. time : Cardinality(Recent(admitted'[d], t)) <= MaxHits
  <2>1. CASE d = c
    BY <1>1, <1>7, <1>8, <1>9, <1>10, <2>1
  <2>2. CASE d # c
    BY <1>10, <2>2 DEF LimitInv
  <2> QED
    BY <2>1, <2>2
<1> QED
  BY <1>t, <1>11 DEF LimitInv, Booked, Recent

-----------------------------------------------------------------------------
\* Types.

\* Before the first call nothing is spent, listed or trusted.
LEMMA ProxyStarts == ProxyInit => ProxyInv
<1> SUFFICES ASSUME ProxyInit PROVE ProxyInv
  OBVIOUS
<1>c. IsFiniteSet({}) /\ Cardinality({}) = 0
  BY FS_EmptySet
<1>1. ProxyTypeOK
  BY DEF ProxyInit, ProxyTypeOK, NoAsk, ProxyRequest, NotTrusted
<1>2. BudgetInv
  <2>1. ProxyDay(0) \in Nat
    BY DaysFollow
  <2>2. \A d : OfDay(d) = {}
    BY DEF ProxyInit, OfDay
  <2> QED
    BY <1>c, <2>1, <2>2, ProxyAssumption DEF ProxyInit, BudgetInv, Booked
<1>3. LimitInv
  <2>1. \A c \in Clients : admitted[c] = {} /\ hits[c] = {}
    BY DEF ProxyInit
  <2>2. \A t : Recent({}, t) = {}
    BY DEF Recent
  <2> QED
    BY <1>c, <2>1, <2>2, ProxyAssumption DEF LimitInv, Booked
<1>4. TrustInv
  BY ProxyAssumption DEF ProxyInit, TrustInv, Ended, NoAsk, NotTrusted
<1> QED
  BY <1>1, <1>2, <1>3, <1>4 DEF ProxyInv

\* What a request becomes, for each of its handler's steps.
LEMMA RequestChanges ==
    ASSUME ProxyTypeOK, NEW r \in Requests
    PROVE  /\ request[r] \in ProxyRequest
           /\ SyncAnswers(r) => \E q \in ProxyRequest :
                 /\ request' = [request EXCEPT ![r] = q]
                 /\ q.phase = "answered" /\ q.valid = (Caller(r) \in signedIn)
                 /\ q.client = Caller(r) /\ q.since = request[r].since
           /\ SessionHolds(r) => \E q \in ProxyRequest :
                 /\ request' = [request EXCEPT ![r] = q]
                 /\ q.phase = "body" /\ q.since = time /\ q.client = Caller(r)
           /\ Spend(r) => \E q \in ProxyRequest :
                 /\ request' = [request EXCEPT ![r] = q]
                 /\ q.phase = "upstream" /\ q.since = request[r].since /\ q.client = Caller(r)
<1>1. request[r] \in ProxyRequest /\ request \in [Requests -> ProxyRequest] /\ time \in Nat
  BY DEF ProxyTypeOK
<1> DEFINE a == [request[r] EXCEPT !.phase = "answered"]
           b == [request[r] EXCEPT !.phase = "body"]
           u == [request[r] EXCEPT !.phase = "upstream"]
           v == Caller(r) \in signedIn
           av == [a EXCEPT !.valid = v]
           bs == [b EXCEPT !.since = time]
<1>2. /\ a \in ProxyRequest /\ b \in ProxyRequest /\ u \in ProxyRequest
      /\ a.phase = "answered" /\ a.client = Caller(r) /\ a.since = request[r].since
      /\ b.phase = "body" /\ b.client = Caller(r)
      /\ u.phase = "upstream" /\ u.client = Caller(r) /\ u.since = request[r].since
  BY <1>1 DEF ProxyRequest, Caller
<1>3. /\ SyncAnswers(r) => request' = [request EXCEPT ![r] = av]
      /\ SessionHolds(r) => request' = [request EXCEPT ![r] = bs]
      /\ Spend(r) => request' = [request EXCEPT ![r] = u]
  BY <1>1 DEF SyncAnswers, SessionHolds, Spend
<1> HIDE DEF a, b, u
<1>4. v \in BOOLEAN /\ v = (Caller(r) \in signedIn)
  OBVIOUS
<1>5. av = [a EXCEPT !.valid = v]
  OBVIOUS
<1> HIDE DEF av, v
<1>6. /\ av \in ProxyRequest /\ av.phase = "answered" /\ av.client = Caller(r)
      /\ av.since = request[r].since /\ av.valid = v
  BY <1>2, <1>4, <1>5 DEF ProxyRequest
<1>7. bs \in ProxyRequest /\ bs.phase = "body" /\ bs.client = Caller(r) /\ bs.since = time
  BY <1>1, <1>2 DEF ProxyRequest
<1> HIDE DEF bs
<1>8. SyncAnswers(r) => \E q \in ProxyRequest :
         /\ request' = [request EXCEPT ![r] = q]
         /\ q.phase = "answered" /\ q.valid = (Caller(r) \in signedIn)
         /\ q.client = Caller(r) /\ q.since = request[r].since
  BY <1>3, <1>4, <1>6
<1> QED
  BY <1>1, <1>2, <1>3, <1>7, <1>8

\* Every step keeps the types of the tutor service.
LEMMA ProxyTypesStay ==
    ASSUME ProxyInv, [ProxyNext]_proxyVars
    PROVE  ProxyTypeOK'
<1>t. ProxyTypeOK
  BY DEF ProxyInv
<1>1. CASE UNCHANGED proxyVars
  BY <1>t, <1>1 DEF proxyVars, ProxyTypeOK
<1>2. ASSUME NEW r \in Requests, NEW c \in Clients, AskTutorProxy(r, c) PROVE ProxyTypeOK'
  <2>1. PICK e : e = [at |-> time, nth |-> Cardinality(admitted[c]) + 1]
    OBVIOUS
  <2>2. e \in Entry
    <3>1. Cardinality(admitted[c]) \in Nat /\ time \in Nat
      BY <1>t, FS_CardinalityType DEF ProxyInv, LimitInv, Booked, ProxyTypeOK
    <3> QED
      BY <2>1, <3>1 DEF Entry
  <2>3. /\ admitted' = [admitted EXCEPT ![c] = admitted[c] \cup {e}]
        /\ hits' = [hits EXCEPT ![c] = Recent(hits[c], time) \cup {e}]
    BY <1>t, <1>2, <2>1 DEF AskTutorProxy, Logged, ProxyTypeOK
  <2>4. Recent(hits[c], time) \subseteq Entry
    BY <1>t DEF Recent, ProxyTypeOK
  <2>5. hits' \in [Clients -> SUBSET Entry] /\ admitted' \in [Clients -> SUBSET Entry]
    BY <1>t, <2>2, <2>3, <2>4 DEF ProxyTypeOK
  <2>6. request' \in [Requests -> ProxyRequest]
    <3> DEFINE phase == IF trusted[c] > time THEN "body" ELSE "checking"
               q == [phase |-> phase, client |-> c, since |-> time, valid |-> FALSE]
    <3>1. phase \in {"body", "checking"}
      OBVIOUS
    <3>2. request' = [request EXCEPT ![r] = q]
      BY <1>2 DEF AskTutorProxy
    <3> HIDE DEF phase
    <3>3. q \in ProxyRequest
      BY <1>t, <3>1 DEF ProxyRequest, ProxyTypeOK
    <3> HIDE DEF q
    <3> QED
      BY <1>t, <3>2, <3>3 DEF ProxyTypeOK
  <2> QED
    BY <1>t, <1>2, <2>5, <2>6 DEF AskTutorProxy, ProxyTypeOK
<1>3. ASSUME NEW r \in Requests, SyncAnswers(r) PROVE ProxyTypeOK'
  <2>1. request' \in [Requests -> ProxyRequest]
    BY <1>t, <1>3, RequestChanges DEF ProxyTypeOK
  <2> QED
    BY <1>t, <1>3, <2>1 DEF SyncAnswers, ProxyTypeOK
<1>4. ASSUME NEW r \in Requests, SessionHolds(r) PROVE ProxyTypeOK'
  <2>1. request' \in [Requests -> ProxyRequest]
    BY <1>t, <1>4, RequestChanges DEF ProxyTypeOK
  <2>2. trusted' \in [Clients -> Nat \cup {NotTrusted}]
    <3>1. time + CacheTime \in Nat
      BY <1>t, ProxyAssumption DEF ProxyTypeOK
    <3> QED
      BY <1>t, <1>4, <3>1 DEF SessionHolds, ProxyTypeOK
  <2> QED
    BY <1>t, <1>4, <2>1, <2>2 DEF SessionHolds, ProxyTypeOK
<1>5. ASSUME NEW r \in Requests, Spend(r) PROVE ProxyTypeOK'
  <2>1. request' \in [Requests -> ProxyRequest]
    BY <1>t, <1>5, RequestChanges DEF ProxyTypeOK
  <2>2. Cardinality(spent) \in Nat /\ time \in Nat
    BY <1>t, FS_CardinalityType DEF ProxyInv, BudgetInv, Booked, ProxyTypeOK
  <2>3. spent' \subseteq Entry
    BY <1>t, <1>5, <2>2 DEF Spend, Logged, Entry, ProxyTypeOK
  <2>4. budget' \in [day: Nat \cup {-1}, count: Nat]
    <3>1. ProxyDay(time) \in Nat /\ Today \in Nat
      BY <1>t, <2>2, DaysFollow DEF Today, ProxyTypeOK
    <3> QED
      BY <1>5, <3>1 DEF Spend
  <2> QED
    BY <1>t, <1>5, <2>1, <2>3, <2>4 DEF Spend, ProxyTypeOK
<1>6. ASSUME NEW r \in Requests, ProxyEnds(r) PROVE ProxyTypeOK'
  <2>1. NoAsk \in ProxyRequest
    BY DEF NoAsk, ProxyRequest
  <2> QED
    BY <1>t, <1>6, <2>1 DEF ProxyEnds, ProxyTypeOK
<1>7. ASSUME NEW c \in Clients, SessionEnds(c) PROVE ProxyTypeOK'
  BY <1>t, <1>7 DEF SessionEnds, ProxyTypeOK
<1>8. CASE TimePasses
  BY <1>t, <1>8 DEF TimePasses, ProxyTypeOK
<1> QED
  BY <1>1, <1>2, <1>3, <1>4, <1>5, <1>6, <1>7, <1>8 DEF ProxyNext

-----------------------------------------------------------------------------
\* Trust.

\* The steps of a request: each keeps its promise to the sessions that ended, and
\* those of the other requests are not touched.
LEMMA TrustOfRequest ==
    ASSUME ProxyTypeOK, TrustInv, NEW r \in Requests, NEW q \in ProxyRequest,
           request' = [request EXCEPT ![r] = q], UNCHANGED <<time, signedIn, leftAt>>,
           \A c \in Clients : /\ trusted'[c] <= time + CacheTime
                              /\ Ended(c) => trusted'[c] <= leftAt[c] + CheckTime + CacheTime,
           q.phase # "idle" => q.client \in Clients /\ q.since <= time,
           q.phase \in {"checking", "answered"} => time <= q.since + CheckTime,
           q.phase = "answered" /\ q.valid /\ Ended(q.client) => q.since <= leftAt[q.client],
           q.phase \in {"body", "upstream"} /\ Ended(q.client) =>
              q.since < leftAt[q.client] + CheckTime + CacheTime
    PROVE  TrustInv'
<1>1. request'[r] = q /\ \A p \in Requests \ {r} : request'[p] = request[p]
  BY DEF ProxyTypeOK
<1>2. \A c : Ended(c)' <=> Ended(c)
  BY DEF Ended
<1> QED
  BY <1>1, <1>2 DEF TrustInv, Caller, Ended

\* No step trusts a session longer than its check allows.
LEMMA TrustStays ==
    ASSUME ProxyInv, [ProxyNext]_proxyVars
    PROVE  TrustInv'
<1>t. /\ ProxyTypeOK /\ TrustInv
      /\ time \in Nat /\ CheckTime \in Nat /\ CacheTime \in Nat /\ CacheTime > 0
      /\ \A c \in Clients : leftAt[c] \in Nat /\ trusted[c] \in Int
      /\ \A r \in Requests : request[r].since \in Nat
  BY ProxyAssumption DEF ProxyInv, ProxyTypeOK, ProxyRequest, NotTrusted
<1>1. CASE UNCHANGED proxyVars
  BY <1>t, <1>1 DEF proxyVars, TrustInv, Caller, Ended
<1>2. ASSUME NEW r \in Requests, NEW c \in Clients, AskTutorProxy(r, c) PROVE TrustInv'
  <2>1. PICK phase : phase = IF trusted[c] > time THEN "body" ELSE "checking"
    OBVIOUS
  <2> DEFINE q == [phase |-> phase, client |-> c, since |-> time, valid |-> FALSE]
  <2>2. q \in ProxyRequest
    BY <1>t, <2>1 DEF ProxyRequest
  <2>3. request' = [request EXCEPT ![r] = q] /\ UNCHANGED <<time, signedIn, leftAt, trusted>>
    BY <1>2, <2>1 DEF AskTutorProxy
  <2>4. q.client = c /\ q.since = time /\ ~q.valid /\ q.phase = phase
    OBVIOUS
  <2> HIDE DEF q
  <2>5. phase = "body" /\ Ended(c) => time < leftAt[c] + CheckTime + CacheTime
    BY <1>t, <2>1 DEF TrustInv
  <2>6. \A d \in Clients : /\ trusted'[d] <= time + CacheTime
                           /\ Ended(d) => trusted'[d] <= leftAt[d] + CheckTime + CacheTime
    BY <1>t, <2>3 DEF TrustInv
  <2>7. /\ q.phase # "idle" => q.client \in Clients /\ q.since <= time
        /\ q.phase \in {"checking", "answered"} => time <= q.since + CheckTime
        /\ ~(q.phase = "answered" /\ q.valid /\ Ended(q.client))
        /\ q.phase \in {"body", "upstream"} /\ Ended(q.client) =>
              q.since < leftAt[q.client] + CheckTime + CacheTime
    BY <1>t, <2>1, <2>4, <2>5
  <2> QED
    BY <1>t, <2>2, <2>3, <2>6, <2>7, TrustOfRequest
<1>3. ASSUME NEW r \in Requests, SyncAnswers(r) PROVE TrustInv'
  <2>1. PICK q \in ProxyRequest : /\ request' = [request EXCEPT ![r] = q]
                                  /\ q.phase = "answered" /\ q.valid = (Caller(r) \in signedIn)
                                  /\ q.client = Caller(r) /\ q.since = request[r].since
    BY <1>t, <1>3, RequestChanges
  <2>2. request[r].phase = "checking" /\ UNCHANGED <<time, signedIn, leftAt, trusted>>
    BY <1>3 DEF SyncAnswers
  <2>3. q.valid /\ Ended(q.client) => FALSE
    BY <2>1 DEF Ended
  <2> QED
    BY <1>t, <2>1, <2>2, <2>3, TrustOfRequest DEF TrustInv
<1>4. ASSUME NEW r \in Requests, SessionHolds(r) PROVE TrustInv'
  <2>1. PICK q \in ProxyRequest : /\ request' = [request EXCEPT ![r] = q]
                                  /\ q.phase = "body" /\ q.since = time /\ q.client = Caller(r)
    BY <1>t, <1>4, RequestChanges
  <2>2. /\ request[r].phase = "answered" /\ request[r].valid
        /\ UNCHANGED <<time, signedIn, leftAt>>
        /\ trusted' = [trusted EXCEPT ![Caller(r)] = time + CacheTime]
    BY <1>4 DEF SessionHolds
  <2>3. Caller(r) \in Clients /\ time <= request[r].since + CheckTime
    BY <1>t, <2>2 DEF TrustInv
  <2>4. Ended(Caller(r)) => time <= leftAt[Caller(r)] + CheckTime
    BY <1>t, <2>2, <2>3 DEF TrustInv
  <2>5. \A c \in Clients : trusted'[c] = IF c = Caller(r) THEN time + CacheTime ELSE trusted[c]
    BY <1>t, <2>2 DEF ProxyTypeOK
  <2>6. \A c \in Clients : /\ trusted'[c] <= time + CacheTime
                           /\ Ended(c) => trusted'[c] <= leftAt[c] + CheckTime + CacheTime
    BY <1>t, <2>3, <2>4, <2>5 DEF TrustInv
  <2>7. Ended(q.client) => q.since < leftAt[q.client] + CheckTime + CacheTime
    BY <1>t, <2>1, <2>3, <2>4
  <2>8. q.client \in Clients /\ q.since <= time /\ q.phase \notin {"checking", "answered"}
    BY <1>t, <2>1, <2>3
  <2> QED
    BY <1>t, <2>1, <2>2, <2>3, <2>6, <2>7, <2>8, TrustOfRequest
<1>5. ASSUME NEW r \in Requests, Spend(r) PROVE TrustInv'
  <2>1. PICK q \in ProxyRequest : /\ request' = [request EXCEPT ![r] = q]
                                  /\ q.phase = "upstream" /\ q.since = request[r].since
                                  /\ q.client = Caller(r)
    BY <1>t, <1>5, RequestChanges
  <2>2. request[r].phase = "body" /\ UNCHANGED <<time, signedIn, leftAt, trusted>>
    BY <1>5 DEF Spend
  <2> QED
    BY <1>t, <2>1, <2>2, TrustOfRequest DEF TrustInv
<1>6. ASSUME NEW r \in Requests, ProxyEnds(r) PROVE TrustInv'
  <2>1. NoAsk \in ProxyRequest /\ NoAsk.phase = "idle"
    BY DEF NoAsk, ProxyRequest
  <2>2. request' = [request EXCEPT ![r] = NoAsk] /\ UNCHANGED <<time, signedIn, leftAt, trusted>>
    BY <1>6 DEF ProxyEnds
  <2> QED
    BY <1>t, <2>1, <2>2, TrustOfRequest DEF TrustInv
<1>7. ASSUME NEW c \in Clients, SessionEnds(c) PROVE TrustInv'
  <2>1. /\ signedIn' = signedIn \ {c} /\ UNCHANGED <<time, trusted, request>>
        /\ leftAt'[c] = time /\ \A d \in Clients \ {c} : leftAt'[d] = leftAt[d]
    BY <1>t, <1>7 DEF SessionEnds, ProxyTypeOK
  <2>2. \A d : Ended(d)' => d \in Clients /\ (d = c \/ Ended(d))
    BY <2>1 DEF Ended
  <2>3. \A r \in Requests : Ended(Caller(r))' =>
           Caller(r) \in Clients /\ (Caller(r) = c \/ Ended(Caller(r)))
    BY <2>1 DEF Ended, Caller
  <2>4. \A d \in Clients : leftAt'[d] <= time
    BY <1>t, <2>1 DEF TrustInv
  <2>5. \A d \in Clients : Ended(d)' => trusted[d] <= leftAt'[d] + CheckTime + CacheTime
    BY <1>t, <2>1, <2>2 DEF TrustInv
  <2>6. \A r \in Requests : request[r].phase = "answered" /\ request[r].valid /\ Ended(Caller(r))' =>
           request[r].since <= leftAt'[Caller(r)]
    <3> TAKE r \in Requests
    <3>1. CASE Caller(r) = c
      BY <1>t, <2>1, <3>1 DEF TrustInv
    <3>2. CASE Caller(r) # c
      BY <1>t, <2>1, <2>3, <3>2 DEF TrustInv
    <3> QED
      BY <3>1, <3>2
  <2>7. \A r \in Requests : request[r].phase \in {"body", "upstream"} /\ Ended(Caller(r))' =>
           request[r].since < leftAt'[Caller(r)] + CheckTime + CacheTime
    <3> TAKE r \in Requests
    <3>1. CASE Caller(r) = c
      BY <1>t, <2>1, <3>1 DEF TrustInv
    <3>2. CASE Caller(r) # c
      BY <1>t, <2>1, <2>3, <3>2 DEF TrustInv
    <3> QED
      BY <3>1, <3>2
  <2> QED
    BY <1>t, <2>1, <2>4, <2>5, <2>6, <2>7 DEF TrustInv, Caller
<1>8. CASE TimePasses
  <2>1. /\ time' = time + 1 /\ UNCHANGED <<signedIn, leftAt, trusted, request>>
        /\ \A r \in Requests : request[r].phase \in {"checking", "answered"} =>
              time < request[r].since + CheckTime
    BY <1>8 DEF TimePasses
  <2>2. \A c : Ended(c)' <=> Ended(c)
    BY <2>1 DEF Ended
  <2> QED
    BY <1>t, <2>1, <2>2 DEF TrustInv, Caller
<1> QED
  BY <1>1, <1>2, <1>3, <1>4, <1>5, <1>6, <1>7, <1>8 DEF ProxyNext

-----------------------------------------------------------------------------

\* Every step keeps all three promises of the tutor service.
LEMMA ProxyStays == ProxyInv /\ [ProxyNext]_proxyVars => ProxyInv'
<1> SUFFICES ASSUME ProxyInv, [ProxyNext]_proxyVars PROVE ProxyInv'
  OBVIOUS
<1>t. ProxyTypeOK /\ ProxyTypeOK' /\ TrustInv' /\ BudgetInv /\ LimitInv /\ time \in Nat
  BY ProxyTypesStay, TrustStays DEF ProxyInv, ProxyTypeOK
<1>1. BudgetInv'
  <2>1. ASSUME NEW r \in Requests, Spend(r) PROVE BudgetInv'
    BY <1>t, <2>1, SpendingIsCounted
  <2>2. ASSUME ~\E r \in Requests : Spend(r) PROVE UNCHANGED <<budget, spent>> /\ time <= time'
    <3>1. ASSUME NEW r \in Requests, NEW c \in Clients, AskTutorProxy(r, c)
          PROVE  UNCHANGED <<budget, spent, time>>
      BY <3>1 DEF AskTutorProxy
    <3>2. ASSUME NEW r \in Requests, SyncAnswers(r) \/ SessionHolds(r) \/ ProxyEnds(r)
          PROVE  UNCHANGED <<budget, spent, time>>
      BY <3>2 DEF SyncAnswers, SessionHolds, ProxyEnds
    <3>3. ASSUME NEW c \in Clients, SessionEnds(c) PROVE UNCHANGED <<budget, spent, time>>
      BY <3>3 DEF SessionEnds
    <3>4. TimePasses => UNCHANGED <<budget, spent>> /\ time' = time + 1
      BY DEF TimePasses
    <3>5. UNCHANGED proxyVars => UNCHANGED <<budget, spent, time>>
      BY DEF proxyVars
    <3>6. UNCHANGED <<budget, spent>> /\ (time' = time \/ time' = time + 1)
      BY <2>2, <3>1, <3>2, <3>3, <3>4, <3>5 DEF ProxyNext
    <3> QED
      BY <1>t, <3>6
  <2> QED
    BY <1>t, <2>1, <2>2, BudgetStays
<1>2. LimitInv'
  <2>1. ASSUME NEW r \in Requests, NEW c \in Clients, AskTutorProxy(r, c) PROVE LimitInv'
    BY <1>t, <2>1, AskingIsLimited
  <2>2. CASE TimePasses
    BY <1>t, <2>2, LimitWithTime
  <2>3. ASSUME ~\E r \in Requests, c \in Clients : AskTutorProxy(r, c), ~TimePasses
        PROVE  UNCHANGED <<time, hits, admitted>>
    BY <2>3 DEF ProxyNext, proxyVars, SyncAnswers, SessionHolds, ProxyEnds, Spend, SessionEnds
  <2> QED
    BY <1>t, <2>1, <2>2, <2>3, LimitStays
<1> QED
  BY <1>t, <1>1, <1>2 DEF ProxyInv

\* The budget's counter, the lists of the limiter and the sessions trusted are what
\* the history of the process says, after any steps of any requests.
THEOREM ProxyInvariant == ProxySpec => []ProxyInv
BY ProxyStarts, ProxyStays, PTL DEF ProxySpec

\* tutor-server.mjs calls the model at most DailyMax times a day, lets a caller in at
\* most MaxHits times in any window, and serves no session later than a check and the
\* trust it won after its end: however many requests overlap.
THEOREM TutorStaysBounded == ProxySpec => []TutorIsBounded
<1>1. ASSUME ProxyInv PROVE DailyBudgetHolds
  <2>1. ProxyDay(time) \in Nat
    BY <1>1, DaysFollow DEF ProxyInv, ProxyTypeOK
  <2> QED
    BY <1>1, <2>1 DEF ProxyInv, BudgetInv, DailyBudgetHolds, OfDay
<1>2. ProxyInv => ClientIsLimited
  BY DEF ProxyInv, LimitInv, ClientIsLimited
<1>3. ProxyInv => EndedSessionIsRefused
  BY DEF ProxyInv, TrustInv, EndedSessionIsRefused, Ended
<1>4. ProxyInv => TutorIsBounded
  BY <1>1, <1>2, <1>3 DEF TutorIsBounded, ProxyInv
<1> QED
  BY ProxyInvariant, <1>4, PTL
=============================================================================
