------------------------------ MODULE TutorQuota ------------------------------
(***************************************************************************)
(* The hosted tutor of the web edition, POST /api/tutor, for one learner:  *)
(* a hint of the day is reserved before the model is called and given back *)
(* if the call fails.  The reservation and the refund are each one         *)
(* statement of the database (migration 0009); calls run side by side,     *)
(* midnight may pass while one waits, and the process may be killed.       *)
(***************************************************************************)
EXTENDS Integers, FiniteSets

CONSTANTS Calls,                         \* requests that can be out at once
          Limit,                         \* TUTOR_DAILY_LIMIT
          LastQuotaDay, MaxKilled             \* bounds

ASSUME QuotaAssumption == IsFiniteSet(Calls) /\ Limit \in Nat /\ LastQuotaDay \in Nat

VARIABLES today,
          count,                         \* tutor_usage: hints counted, per day
          call,
          served, wasted,                \* history: hints shown, and counted for nothing
          killed                         \* how much of the bound is used

quotaVars == <<today, count, call, served, wasted, killed>>

QuotaDays == 0 .. LastQuotaDay

\* asked: the day is fixed and nothing reserved.  calling: the model is asked.
\* failed: the hint is to be given back.
QuotaCall == [phase: {"idle", "asked", "calling", "failed"}, day: QuotaDays]
Resting == [phase |-> "idle", day |-> 0]

QuotaInit ==
    /\ today = 0
    /\ count = [d \in QuotaDays |-> 0]
    /\ call = [c \in Calls |-> Resting]
    /\ served = [d \in QuotaDays |-> 0]
    /\ wasted = [d \in QuotaDays |-> 0]
    /\ killed = 0

To(c, phase) == call' = [call EXCEPT ![c].phase = phase]
Ends(c) == call' = [call EXCEPT ![c] = Resting]

\* A learner with Pro asks; without it, without a key or with a bad request the
\* route answers at once.
Ask(c) ==
    /\ call[c].phase = "idle"
    /\ call' = [call EXCEPT ![c] = [phase |-> "asked", day |-> today]]
    /\ UNCHANGED <<today, count, served, wasted, killed>>

\* Mutant: the count is read when the request arrives, not when it is raised.
ReserveUnchecked(c) ==
    /\ call[c].phase = "asked"
    /\ count' = [count EXCEPT ![call[c].day] = @ + 1]
    /\ To(c, "calling")
    /\ UNCHANGED <<today, served, wasted, killed>>

\* reserve_tutor_hint
Reserve(c) ==
    /\ call[c].phase = "asked"
    /\ count[call[c].day] < Limit
    /\ count' = [count EXCEPT ![call[c].day] = @ + 1]
    /\ To(c, "calling")
    /\ UNCHANGED <<today, served, wasted, killed>>

\* The reservation is made and its answer does not come back: 503 or 429, and
\* nothing is given back.
ReserveUnheard(c) ==
    /\ call[c].phase = "asked"
    /\ count[call[c].day] < Limit
    /\ killed < MaxKilled /\ killed' = killed + 1
    /\ count' = [count EXCEPT ![call[c].day] = @ + 1]
    /\ wasted' = [wasted EXCEPT ![call[c].day] = @ + 1]
    /\ Ends(c)
    /\ UNCHANGED <<today, served>>

\* The day's hints are used up, or the database does not answer.
Deny(c) ==
    /\ call[c].phase = "asked"
    /\ Ends(c)
    /\ UNCHANGED <<today, count, served, wasted, killed>>

Serve(c) ==
    /\ call[c].phase = "calling"
    /\ served' = [served EXCEPT ![call[c].day] = @ + 1]
    /\ Ends(c)
    /\ UNCHANGED <<today, count, wasted, killed>>

\* No answer in time, an error, or an answer without a message.
UpstreamFails(c) ==
    /\ call[c].phase = "calling"
    /\ To(c, "failed")
    /\ UNCHANGED <<today, count, served, wasted, killed>>

\* release_tutor_hint
Refund(c) ==
    /\ call[c].phase = "failed"
    /\ count' = [count EXCEPT ![call[c].day] = IF @ > 0 THEN @ - 1 ELSE 0]
    /\ Ends(c)
    /\ UNCHANGED <<today, served, wasted, killed>>

\* The process is killed during the call, or the refund fails: the hint is lost.
Waste(c) ==
    /\ call[c].phase \in {"calling", "failed"}
    /\ killed < MaxKilled /\ killed' = killed + 1
    /\ wasted' = [wasted EXCEPT ![call[c].day] = @ + 1]
    /\ Ends(c)
    /\ UNCHANGED <<today, count, served>>

Midnight ==
    /\ today < LastQuotaDay /\ today' = today + 1
    /\ UNCHANGED <<count, call, served, wasted, killed>>

QuotaNext ==
    \/ Midnight
    \/ \E c \in Calls : \/ Ask(c) \/ Reserve(c) \/ ReserveUnheard(c) \/ Deny(c)
                        \/ Serve(c) \/ UpstreamFails(c) \/ Refund(c) \/ Waste(c)

QuotaSpec == QuotaInit /\ [][QuotaNext]_quotaVars

-----------------------------------------------------------------------------

QuotaTypeOK ==
    /\ today \in QuotaDays
    /\ count \in [QuotaDays -> Nat] /\ call \in [Calls -> QuotaCall]
    /\ served \in [QuotaDays -> Nat] /\ wasted \in [QuotaDays -> Nat] /\ killed \in Nat

Holding(d) == {c \in Calls : call[c].phase \in {"calling", "failed"} /\ call[c].day = d}

\* Every hint counted on a day was shown, is being asked for or was lost to a
\* crash, so a failed hint is free and a refund never frees another one's place;
\* and a day never counts more than the limit, however many requests come at
\* once (route.ts, bug audit H3: "parallel requests can't blow the limit").
EveryHintIsAccountedFor ==
    \A d \in QuotaDays : /\ count[d] = served[d] + wasted[d] + Cardinality(Holding(d))
                    /\ count[d] <= Limit
=============================================================================
