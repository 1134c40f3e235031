------------------------------ MODULE FocusTimer ------------------------------
(***************************************************************************)
(* The focus timer of the static edition: advanceFocus() of                *)
(* public/focus.js, run by any tab in a transaction on the shared record   *)
(* (focus() of public/progress-store.js, checkpointFocus() of app.js).      *)
(* Nothing counts while the timer runs: a transaction credits the time     *)
(* since the last one, up to the moment it was called.  The lock of the    *)
(* record is asked for when the tab's own chain gets to the call, and is   *)
(* granted any time later: calls of two tabs may be granted in any order.  *)
(***************************************************************************)
EXTENDS Integers, FiniteSets, Sequences, SequencesExt

CONSTANTS FocusTabs,
          Session, DayLength,            \* in seconds
          LastDay                        \* bound

ASSUME FocusAssumption ==
    /\ IsFiniteSet(FocusTabs)
    /\ Session \in Nat \ {0} /\ DayLength \in Nat \ {0} /\ LastDay \in Nat

VARIABLES clock,
          record,                        \* of the saved record: the timer and what it earned
          asked,                         \* transactions that wait for the lock, oldest first
          upTo,                          \* history: the end of the time credited last
          astray,                        \* history: a call failed or overtook an older one
          rewound                        \* history: counting began at a time already credited

historyVars == <<upTo, astray, rewound>>
focusVars == <<clock, record, asked, historyVars>>

Days == 0 .. LastDay
End == (LastDay + 1) * DayLength
Never == -1

FocusRecord == [remaining: 0 .. Session, accountedAt: (0 .. End) \cup {Never},
                focusByDay: [Days -> Nat], activity: [Days -> Nat], focusSeconds: Nat]

FocusCall == [tab: FocusTabs, action: {"tick", "start", "pause", "reset"}, at: 0 .. End]

FocusInit ==
    /\ clock = 0
    /\ record = [remaining |-> Session, accountedAt |-> Never, focusSeconds |-> 0,
                 focusByDay |-> [d \in Days |-> 0], activity |-> [d \in Days |-> 0]]
    /\ asked = << >> /\ upTo = 0 /\ astray = FALSE /\ rewound = FALSE

-----------------------------------------------------------------------------
\* advanceFocus()

Lower(a, b) == IF a < b THEN a ELSE b
Higher(a, b) == IF a < b THEN b ELSE a

\* How much of the time from a to b falls on day d.
Overlap(a, b, d) == Higher(0, Lower(b, (d + 1) * DayLength) - Higher(a, d * DayLength))

Used(r, now) == Lower(r.remaining, now - r.accountedAt)

\* Mutant: all of the time goes to the day it is credited on.
CreditToday(r, now) ==
    LET used == Used(r, now)
        here(d) == d * DayLength < now /\ now <= (d + 1) * DayLength IN
    [remaining |-> r.remaining - used,
     accountedAt |-> IF r.remaining = used THEN Never ELSE r.accountedAt + used,
     focusByDay |-> [d \in Days |-> r.focusByDay[d] + (IF here(d) THEN used ELSE 0)],
     activity |-> [d \in Days |-> r.activity[d] +
                     (IF here(d) /\ used > 0 /\ r.focusByDay[d] = 0 THEN 1 ELSE 0)],
     focusSeconds |-> r.focusSeconds + used]

\* The time since the last transaction, up to the end of the session, is split
\* between the days; the first of a day is practice on it.
Credit(r, now) ==
    LET used == Used(r, now)
        share(d) == Overlap(r.accountedAt, r.accountedAt + used, d) IN
    [remaining |-> r.remaining - used,
     accountedAt |-> IF r.remaining = used THEN Never ELSE r.accountedAt + used,
     focusByDay |-> [d \in Days |-> r.focusByDay[d] + share(d)],
     activity |-> [d \in Days |-> r.activity[d] +
                     (IF share(d) > 0 /\ r.focusByDay[d] = 0 THEN 1 ELSE 0)],
     focusSeconds |-> r.focusSeconds + used]

\* Nothing is credited while paused, or for a moment already accounted for.
Credits(r, now) == r.accountedAt # Never /\ r.accountedAt <= now

TickFocus(r, now) == IF Credits(r, now) THEN Credit(r, now) ELSE r

AdvanceFocus(r, action, now) ==
    LET ticked == TickFocus(r, now) IN
    CASE action = "start" /\ ticked.accountedAt = Never ->
            [ticked EXCEPT !.accountedAt = now,
                           !.remaining = IF @ = 0 THEN Session ELSE @]
      [] action = "pause" -> [ticked EXCEPT !.accountedAt = Never]
      [] action = "reset" -> [ticked EXCEPT !.accountedAt = Never, !.remaining = Session]
      [] OTHER -> ticked

-----------------------------------------------------------------------------

FocusClock ==
    /\ clock < End /\ clock' = clock + 1
    /\ UNCHANGED <<record, asked, historyVars>>

\* checkpointFocus(): a button, or the timer of the page; one at a time.
CheckpointFocus(t) ==
    /\ \A i \in 1 .. Len(asked) : asked[i].tab # t
    /\ \E action \in {"tick", "start", "pause", "reset"} :
          asked' = Append(asked, [tab |-> t, action |-> action, at |-> clock])
    /\ UNCHANGED <<clock, record, historyVars>>

\* flush(): the lock is granted, and the record read and written.  What the call
\* waits behind in its own tab decides when it asks for the lock, not its time.
GrantFocus(i) ==
    LET call == asked[i] IN
    /\ record' = AdvanceFocus(record, call.action, call.at)
    /\ asked' = RemoveAt(asked, i)
    /\ upTo' = IF Credits(record, call.at) THEN record.accountedAt + Used(record, call.at) ELSE upTo
    /\ astray' = (astray \/ i # 1)
    /\ rewound' = (rewound \/ (record'.accountedAt # Never /\ record'.accountedAt < upTo'))
    /\ UNCHANGED clock

\* flush() throws: no lock, an import elsewhere, or storage that is full.
FailFocus(i) ==
    /\ asked' = RemoveAt(asked, i) /\ astray' = TRUE
    /\ UNCHANGED <<clock, record, upTo, rewound>>

FocusNext ==
    \/ FocusClock
    \/ \E t \in FocusTabs : CheckpointFocus(t)
    \/ \E i \in 1 .. Len(asked) : GrantFocus(i) \/ FailFocus(i)

FocusSpec == FocusInit /\ [][FocusNext]_focusVars

-----------------------------------------------------------------------------

FocusTypeOK ==
    /\ clock \in 0 .. End /\ record \in FocusRecord
    /\ asked \in Seq(FocusCall) /\ Len(asked) <= Cardinality(FocusTabs)
    /\ upTo \in 0 .. End /\ astray \in BOOLEAN /\ rewound \in BOOLEAN

\* What the page shows, dailyFocus(), once all that was asked is done.  (Sets of one
\* record, so that TLC works each out once.)
Done(records, call) == {AdvanceFocus(r, call.action, call.at) : r \in records}

Granted(r, calls) ==
    LET done[n \in 0 .. Len(calls)] == IF n = 0 THEN {r} ELSE Done(done[n - 1], calls[n]) IN
    done[Len(calls)]

Shown == CHOOSE r \in {TickFocus(q, clock) : q \in Granted(record, asked)} : TRUE

Watch == INSTANCE StopWatch WITH
    running <- Shown.accountedAt # Never, left <- Shown.remaining,
    spent <- Shown.focusByDay, practised <- Shown.activity, total <- Shown.focusSeconds

\* In whatever order the lock is granted, and whichever calls fail, no more is
\* counted for a day than has passed of it, and its first second is practice once:
\* unless a start that was overtaken sets the timer back to a time already counted.
SecondsCountOnce ==
    /\ upTo <= clock
    /\ \A d \in Days : record.activity[d] = (IF record.focusByDay[d] > 0 THEN 1 ELSE 0)
    /\ ~rewound => /\ record.focusSeconds <= upTo
                   /\ \A d \in Days : record.focusByDay[d] <= Overlap(0, upTo, d)

\* Crediting late is the same as counting every second as it passes: no second
\* is lost, counted twice or put on the wrong day, whichever tabs ask, whenever
\* they do and however long they wait, until a call fails or is granted before
\* an older one of another tab; after that, seconds still count once.  (README.md:
\* "Multiple tabs cannot count the same session twice", "sessions crossing local
\* midnight are split".)
CountsLikeAStopWatch ==
    /\ Watch!WatchInit
    /\ [][astray' \/ Watch!WatchNext]_(Watch!watchVars)
    /\ []SecondsCountOnce
=============================================================================
