------------------------------- MODULE StopWatch -------------------------------
(***************************************************************************)
(* What the focus timer promises: while a session runs, every second that  *)
(* passes is taken from the session and counted once, for the day it       *)
(* belongs to, and the first of a day is practice on that day.             *)
(***************************************************************************)
EXTENDS Integers

CONSTANTS Session, DayLength, LastDay

VARIABLES clock, running, left,          \* left: seconds of the session to go
          spent, practised,              \* per day
          total                          \* in all

watchVars == <<clock, running, left, spent, practised, total>>

WatchDays == 0 .. LastDay
Within(t, d) == d * DayLength <= t /\ t < (d + 1) * DayLength
LastSecond == (LastDay + 1) * DayLength

WatchInit ==
    /\ clock = 0 /\ running = FALSE /\ left = Session /\ total = 0
    /\ spent = [d \in WatchDays |-> 0] /\ practised = [d \in WatchDays |-> 0]

Second ==
    /\ clock < LastSecond /\ clock' = clock + 1
    /\ IF running
       THEN /\ left' = left - 1 /\ running' = (left > 1) /\ total' = total + 1
            /\ spent' = [d \in WatchDays |-> spent[d] + (IF Within(clock, d) THEN 1 ELSE 0)]
            /\ practised' = [d \in WatchDays |->
                 practised[d] + (IF Within(clock, d) /\ spent[d] = 0 THEN 1 ELSE 0)]
       ELSE UNCHANGED <<running, left, spent, practised, total>>

Start ==
    /\ ~running /\ running' = TRUE
    /\ left' = IF left = 0 THEN Session ELSE left
    /\ UNCHANGED <<clock, spent, practised, total>>

Pause ==
    /\ running /\ running' = FALSE
    /\ UNCHANGED <<clock, left, spent, practised, total>>

Reset ==
    /\ running' = FALSE /\ left' = Session
    /\ UNCHANGED <<clock, spent, practised, total>>

WatchNext == Second \/ Start \/ Pause \/ Reset

WatchSpec == WatchInit /\ [][WatchNext]_watchVars
=============================================================================
