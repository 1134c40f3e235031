------------------------------ MODULE TutorProxy ------------------------------
(***************************************************************************)
(* The hosted tutor of the static edition: tutor-server.mjs, which faces   *)
(* the internet and pays for each call of the model.                       *)
(*                                                                         *)
(* A request is let in by steps with awaits between them: the caller's     *)
(* limit, the session (asked of the sync service, then trusted for a       *)
(* while), the body, the budget of the day.  The page gives a hint of its  *)
(* own when the answer is late or there is none (public/tutor.js), which   *)
(* stops nothing here.  All of the state is the process's: it starts over  *)
(* with it.  Of a list of times only the times matter: it is the set of    *)
(* its entries, numbered so that two of one moment are two.                *)
(***************************************************************************)
EXTENDS Integers, FiniteSets, Functions

CONSTANTS Clients,                       \* each with one address and one session
          Requests,                      \* those that can be out at once
          Window, MaxHits,               \* the limit of a client
          CacheTime, CheckTime,          \* SESSION_CACHE_MS, SESSION_CHECK_MS
          DayTime, DailyMax,
          LastTime, MaxAsked             \* bounds

ASSUME ProxyAssumption ==
    /\ {Window, DayTime, CacheTime} \subseteq Nat \ {0}
    /\ {MaxHits, DailyMax, CheckTime, LastTime, MaxAsked} \subseteq Nat

VARIABLES time,
          signedIn, leftAt,              \* of the sync service: sessions, and their end
          hits, trusted, budget,         \* of the proxy: byClient, sessions, budget
          request,                       \* per request: how far it is
          admitted, spent                \* history: requests let in, calls of the model

proxyVars == <<time, signedIn, leftAt, hits, trusted, budget, request, admitted, spent>>

NotTrusted == -1
ProxyDay(t) == t \div DayTime

\* checking: sync is asked.  answered: it has answered, unheard so far.
\* since: when sync was asked, later when the session was accepted.
ProxyRequest == [phase: {"idle", "checking", "answered", "body", "upstream"},
                 client: Clients \cup {"nobody"}, since: Nat, valid: BOOLEAN]

NoAsk == [phase |-> "idle", client |-> "nobody", since |-> 0, valid |-> FALSE]

Entry == [at: Nat, nth: Nat \ {0}]

ProxyInit ==
    /\ time = 0
    /\ signedIn = Clients /\ leftAt = [c \in Clients |-> 0]
    /\ hits = [c \in Clients |-> {}]
    /\ trusted = [c \in Clients |-> NotTrusted]
    /\ budget = [day |-> -1, count |-> 0]
    /\ request = [r \in Requests |-> NoAsk]
    /\ admitted = [c \in Clients |-> {}]
    /\ spent = {}

Recent(times, t) == {u \in times : t - Window < u.at /\ u.at <= t}
Logged(times, log) == times \cup {[at |-> time, nth |-> Cardinality(log) + 1]}
Asked == FoldFunction(LAMBDA times, n : Cardinality(times) + n, 0, admitted)
Caller(r) == request[r].client

-----------------------------------------------------------------------------
\* Mutant: a session once accepted stays accepted.
AskTrustingForEver(r, c) ==
    /\ request[r].phase = "idle" /\ Asked < MaxAsked
    /\ Cardinality(Recent(hits[c], time)) < MaxHits
    /\ hits' = [hits EXCEPT ![c] = Logged(Recent(@, time), admitted[c])]
    /\ admitted' = [admitted EXCEPT ![c] = Logged(@, @)]
    /\ request' = [request EXCEPT ![r] =
          [phase |-> IF trusted[c] # NotTrusted THEN "body" ELSE "checking",
           client |-> c, since |-> time, valid |-> FALSE]]
    /\ UNCHANGED <<time, signedIn, leftAt, trusted, budget, spent>>

\* A request within the caller's limit; whoever is over it gets a 429.  A
\* trusted session needs no check.
AskTutorProxy(r, c) ==
    /\ request[r].phase = "idle" /\ Asked < MaxAsked
    /\ Cardinality(Recent(hits[c], time)) < MaxHits
    /\ hits' = [hits EXCEPT ![c] = Logged(Recent(@, time), admitted[c])]
    /\ admitted' = [admitted EXCEPT ![c] = Logged(@, @)]
    /\ request' = [request EXCEPT ![r] =
          [phase |-> IF trusted[c] > time THEN "body" ELSE "checking",
           client |-> c, since |-> time, valid |-> FALSE]]
    /\ UNCHANGED <<time, signedIn, leftAt, trusted, budget, spent>>

\* The sync service says whether the session holds.
SyncAnswers(r) ==
    /\ request[r].phase = "checking"
    /\ request' = [request EXCEPT ![r].phase = "answered", ![r].valid = Caller(r) \in signedIn]
    /\ UNCHANGED <<time, signedIn, leftAt, hits, trusted, budget, admitted, spent>>

\* validSession() is told that it does.
SessionHolds(r) ==
    /\ request[r].phase = "answered" /\ request[r].valid
    /\ trusted' = [trusted EXCEPT ![Caller(r)] = time + CacheTime]
    /\ request' = [request EXCEPT ![r].phase = "body", ![r].since = time]
    /\ UNCHANGED <<time, signedIn, leftAt, hits, budget, admitted, spent>>

\* 401: it does not, or there was no answer in time.  Later: the body is too
\* large, broken off or asks nothing, the budget is used up, or the call has
\* ended, whatever its answer.
ProxyEnds(r) ==
    /\ request[r].phase # "idle"
    /\ request' = [request EXCEPT ![r] = NoAsk]
    /\ UNCHANGED <<time, signedIn, leftAt, hits, trusted, budget, admitted, spent>>

Today == IF budget.day = ProxyDay(time) THEN budget.count ELSE 0

\* budgetAvailable(), and the model is called.
Spend(r) ==
    /\ request[r].phase = "body" /\ Today < DailyMax
    /\ budget' = [day |-> ProxyDay(time), count |-> Today + 1]
    /\ spent' = Logged(spent, spent)
    /\ request' = [request EXCEPT ![r].phase = "upstream"]
    /\ UNCHANGED <<time, signedIn, leftAt, hits, trusted, admitted>>

\* The learner signs out, on the sync service.
SessionEnds(c) ==
    /\ c \in signedIn /\ signedIn' = signedIn \ {c}
    /\ leftAt' = [leftAt EXCEPT ![c] = time]
    /\ UNCHANGED <<time, hits, trusted, budget, request, admitted, spent>>

\* No session is checked for longer than CheckTime.
TimePasses ==
    /\ time < LastTime /\ time' = time + 1
    /\ \A r \in Requests : request[r].phase \in {"checking", "answered"} =>
                              time < request[r].since + CheckTime
    /\ UNCHANGED <<signedIn, leftAt, hits, trusted, budget, request, admitted, spent>>

ProxyNext ==
    \/ \E r \in Requests : \/ \E c \in Clients : AskTutorProxy(r, c)
                           \/ SyncAnswers(r) \/ SessionHolds(r) \/ Spend(r) \/ ProxyEnds(r)
    \/ \E c \in Clients : SessionEnds(c)
    \/ TimePasses

ProxySpec == ProxyInit /\ [][ProxyNext]_proxyVars

-----------------------------------------------------------------------------

ProxyTypeOK ==
    /\ time \in Nat /\ signedIn \subseteq Clients /\ leftAt \in [Clients -> Nat]
    /\ hits \in [Clients -> SUBSET Entry] /\ trusted \in [Clients -> Nat \cup {NotTrusted}]
    /\ budget \in [day: Nat \cup {-1}, count: Nat]
    /\ request \in [Requests -> ProxyRequest]
    /\ admitted \in [Clients -> SUBSET Entry] /\ spent \subseteq Entry

DailyBudgetHolds ==
    \A d \in 0 .. ProxyDay(time) :
        Cardinality({u \in spent : ProxyDay(u.at) = d}) <= DailyMax

ClientIsLimited ==
    \A c \in Clients, t \in 0 .. time : Cardinality(Recent(admitted[c], t)) <= MaxHits

EndedSessionIsRefused ==
    \A r \in Requests : request[r].phase \in {"body", "upstream"} =>
        \/ Caller(r) \in signedIn
        \/ request[r].since < leftAt[Caller(r)] + CheckTime + CacheTime

\* What the proxy may cost is bounded however requests overlap: no day has more
\* calls than the ceiling, no caller gets more than its share of any window, and
\* a session that ended is refused once a check and the trust it won have run
\* out.  (tutor-server.mjs: "This global ceiling is the backstop on the daily
\* Anthropic bill"; "A validated session is trusted this long before the tutor
\* re-checks it".)
TutorIsBounded == ProxyTypeOK /\ DailyBudgetHolds /\ ClientIsLimited /\ EndedSessionIsRefused
=============================================================================
