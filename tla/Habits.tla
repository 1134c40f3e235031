-------------------------------- MODULE Habits --------------------------------
(***************************************************************************)
(* The pure rules both editions reward practice by: the streak and its     *)
(* shield (core.js, streak-shield.ts), the review intervals                *)
(* (scheduleReview), and the places of the leaderboard.  The learner       *)
(* practises on some days and rates one card; others gather XP.            *)
(***************************************************************************)
EXTENDS Integers, FiniteSets, Sequences, SequencesExt

CONSTANTS LastHabitDay,                  \* bound
          Shield,                        \* STREAK_SHIELD_DAYS
          Players, MaxXp                 \* the board; bound

ASSUME HabitsAssumption ==
    {LastHabitDay, Shield, MaxXp} \subseteq Nat /\ IsFiniteSet(Players)

VARIABLES day, active,                   \* today; the days with activity
          interval,                      \* of the card, in days
          xp                             \* per player

habitVars == <<day, active, interval, xp>>

HabitsInit ==
    /\ day = 0 /\ active = {}
    /\ interval = 0
    /\ xp = [p \in Players |-> 0]

-----------------------------------------------------------------------------

\* Today does not count against a streak before it is over.
From == IF day \in active THEN day ELSE day - 1

\* streak(): walks back to the first day without activity.
Streak ==
    LET walk[d \in -1 .. LastHabitDay] == IF d \in active THEN 1 + walk[d - 1] ELSE 0 IN
    walk[From]

\* Mutant: every gap may be as long as the whole budget.
ShieldPerGap(budget) ==
    LET walk[d \in -1 .. LastHabitDay, left \in 0 .. budget] ==
          CASE d \in active -> 1 + walk[d - 1, budget]
            [] d \notin active /\ d >= 0 /\ left > 0 -> walk[d - 1, left - 1]
            [] OTHER -> 0 IN
    walk[From, budget]

\* streakWithShield(): a missed day is bridged while the budget lasts.  Before the
\* first day nothing is active.
StreakWithShield(budget) ==
    LET walk[d \in -1 .. LastHabitDay] ==
          [left \in 0 .. budget |->
             CASE d \in active -> 1 + walk[d - 1][left]
               [] d \notin active /\ d >= 0 /\ left > 0 -> walk[d - 1][left - 1]
               [] OTHER -> 0] IN
    walk[From][budget]

\* Mutant: an interval has no ceiling.
AtLeastADay(n) == IF n < 1 THEN 1 ELSE n

\* An interval is between a day and sixty.
Bounded(n) == IF n < 1 THEN 1 ELSE IF n > 60 THEN 60 ELSE n

\* scheduleReview(): ceil(1.2 i), and round(2.5 i) from 0.4 of a day on.
ScheduleReview(i, rating) ==
    CASE rating = "again" -> 0
      [] rating = "hard" -> Bounded((6 * i + 4) \div 5)
      [] rating = "good" -> Bounded((5 * i + 1) \div 2)

\* rankLeaderboard(): down the sorted rows; equal XP shares a rank and the next
\* one skips.
RankRows(rows) ==
    LET rank[i \in 1 .. Len(rows)] ==
          IF i > 1 /\ xp[rows[i]] = xp[rows[i - 1]] THEN rank[i - 1] ELSE i IN
    rank

-----------------------------------------------------------------------------

Practise ==
    /\ day \notin active /\ active' = active \cup {day}
    /\ UNCHANGED <<day, interval, xp>>

NextDay ==
    /\ day < LastHabitDay /\ day' = day + 1
    /\ UNCHANGED <<active, interval, xp>>

RateIt ==
    /\ \E rating \in {"again", "hard", "good"} : interval' = ScheduleReview(interval, rating)
    /\ UNCHANGED <<day, active, xp>>

GainXp(p) ==
    /\ xp[p] < MaxXp /\ xp' = [xp EXCEPT ![p] = @ + 1]
    /\ UNCHANGED <<day, active, interval>>

HabitsNext == Practise \/ NextDay \/ RateIt \/ \E p \in Players : GainXp(p)

HabitsSpec == HabitsInit /\ [][HabitsNext]_habitVars

-----------------------------------------------------------------------------

HabitsTypeOK ==
    /\ day \in 0 .. LastHabitDay /\ active \subseteq 0 .. day
    /\ interval \in 0 .. 60 /\ xp \in [Players -> 0 .. MaxXp]

Missed(d) == (d .. From) \ active
Kept(d) == (d .. From) \cap active

\* A streak is the longest stretch up to now with no more missed days than are
\* forgiven, counted in days of practice; without a shield it is the plain one.
\* (streak-shield.ts: "the total budget (not a per-gap allowance) caps it, so
\* sparse activity can't sustain an endless streak".)
StreakIsForgivingOnce ==
    /\ Streak = StreakWithShield(0)
    /\ \A budget \in {0, Shield} :
          LET counts == {Cardinality(Kept(d)) : d \in {e \in 0 .. day : Cardinality(Missed(e)) <= budget}} IN
          StreakWithShield(budget) = CHOOSE n \in counts \cup {0} : \A m \in counts : m <= n

\* A remembered card comes back later than the time before until it has reached
\* the ceiling, however hard it was.  (core.js:314: "a card rated hard again and
\* again does not stay pinned at one day forever".)
IntervalsGrow ==
    /\ interval < 60 => interval < ScheduleReview(interval, "hard")
    /\ ScheduleReview(interval, "hard") <= ScheduleReview(interval, "good")

\* A player's rank is one more than the number of those ahead, however ties are
\* sorted.
RankIsPlace ==
    \A rows \in SetToSeqs(Players) :
        (\A i \in 1 .. Len(rows) - 1 : xp[rows[i]] >= xp[rows[i + 1]]) =>
            \A i \in 1 .. Len(rows) :
                RankRows(rows)[i] = 1 + Cardinality({p \in Players : xp[p] > xp[rows[i]]})
=============================================================================
