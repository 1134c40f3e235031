----------------------------- MODULE WebAccounts -----------------------------
(***************************************************************************)
(* Accounts of the web edition: signing up (the trigger handle_new_user),  *)
(* the referral code a learner shares (GET /api/referrals), the opt-in     *)
(* leaderboard, student verification, and erasing the account (DELETE      *)
(* /api/account, POST /api/auth/delete).                                   *)
(*                                                                         *)
(* A route is several statements; between two of them other routes run,    *)
(* for the same learner too.  Every table refers to auth.users, so a row   *)
(* cannot be written once its account is gone, and goes with it.           *)
(***************************************************************************)
EXTENDS Integers

CONSTANTS Learners, Codes, Routes,       \* Routes: requests that run at once
          Nobody, NoCode,
          MaxMints                       \* bound: codes tried by a request

ASSUME AccountsAssumption ==
    Nobody \notin Learners /\ NoCode \notin Codes /\ MaxMints \in Nat

VARIABLES account,                       \* auth.users
          code, referrer,                \* referral_codes, referrals
          entry,                         \* leaderboard_entries
          verified,                      \* student_verifications
          route,                         \* per request: where it is
          told                           \* history: codes a learner was shown

accountVars == <<account, code, referrer, entry, verified, route, told>>

Route == [step: {"idle", "mint", "insert", "readBack", "rank", "publish", "grant"},
          learner: Learners \cup {Nobody}, code: Codes \cup {NoCode},
          mints: 0 .. MaxMints]
NoRoute == [step |-> "idle", learner |-> Nobody, code |-> NoCode, mints |-> 0]

AccountsInit ==
    /\ account = [a \in Learners |-> "none"]
    /\ code = [a \in Learners |-> NoCode]
    /\ referrer = [a \in Learners |-> Nobody]
    /\ entry = [a \in Learners |-> "no"]
    /\ verified = [a \in Learners |-> FALSE]
    /\ route = [r \in Routes |-> NoRoute]
    /\ told = [a \in Learners |-> {}]

Exists(a) == account[a] = "live"
At(r, step) == route[r].step = step
Who(r) == route[r].learner
Returns(r) == route' = [route EXCEPT ![r] = NoRoute]

-----------------------------------------------------------------------------

\* handle_new_user, in the transaction that creates the account: the rows every
\* account has, and who referred the learner if the code given is somebody's.
SignUp(a) ==
    \E given \in Codes \cup {NoCode} :
      LET owners == {b \in Learners : code[b] = given /\ given # NoCode} IN
      /\ account[a] = "none"
      /\ account' = [account EXCEPT ![a] = "live"]
      /\ \/ owners = {} /\ referrer' = referrer
         \/ \E b \in owners : referrer' = [referrer EXCEPT ![a] = b]
      /\ UNCHANGED <<code, entry, verified, route, told>>

\* A route knows whose request it is: the session's user, or the learner the
\* verification service names.
Start(r, a, step) ==
    /\ At(r, "idle") /\ Exists(a)
    /\ route' = [route EXCEPT ![r] = [NoRoute EXCEPT !.step = step, !.learner = a]]
    /\ UNCHANGED <<account, code, referrer, entry, verified, told>>

-----------------------------------------------------------------------------
\* GET /api/referrals: getOrCreateReferralCode().

\* Another random code, or giving up after the last.
Tries(r) ==
    IF route[r].mints = MaxMints THEN Returns(r)
    ELSE \E c \in Codes :
           route' = [route EXCEPT ![r].step = "insert", ![r].code = c, ![r].mints = @ + 1]

\* The learner's row is read: its code is the answer.
Lookup(r) ==
    /\ route[r].step \in {"mint", "readBack"}
    /\ IF code[Who(r)] # NoCode
       THEN told' = [told EXCEPT ![Who(r)] = @ \cup {code[Who(r)]}] /\ Returns(r)
       ELSE told' = told /\ Tries(r)
    /\ UNCHANGED <<account, code, referrer, entry, verified>>

Others(r) == Learners \ {Who(r)}
Free(c, learners) == \A b \in learners : code[b] # c

\* Mutant: the row is written over, as an upsert would.
Upsert(r) ==
    /\ At(r, "insert")
    /\ Exists(Who(r)) /\ Free(route[r].code, Others(r))
    /\ code' = [code EXCEPT ![Who(r)] = route[r].code]
    /\ told' = [told EXCEPT ![Who(r)] = @ \cup {route[r].code}]
    /\ Returns(r)
    /\ UNCHANGED <<account, referrer, entry, verified>>

\* One row to a learner, one learner to a code.
Insert(r) ==
    /\ At(r, "insert")
    /\ Exists(Who(r)) /\ code[Who(r)] = NoCode /\ Free(route[r].code, Others(r))
    /\ code' = [code EXCEPT ![Who(r)] = route[r].code]
    /\ told' = [told EXCEPT ![Who(r)] = @ \cup {route[r].code}]
    /\ Returns(r)
    /\ UNCHANGED <<account, referrer, entry, verified>>

\* 23505, to be read back; any other error ends the request.
InsertRefused(r) ==
    /\ At(r, "insert")
    /\ \/ ~Exists(Who(r)) /\ Returns(r)
       \/ /\ Exists(Who(r))
          /\ code[Who(r)] # NoCode \/ ~Free(route[r].code, Others(r))
          /\ route' = [route EXCEPT ![r].step = "readBack"]
    /\ UNCHANGED <<account, code, referrer, entry, verified, told>>

-----------------------------------------------------------------------------
\* /api/leaderboard and /api/webhooks/student

\* POST reads the learner's own progress row ...
Rank(r) ==
    /\ At(r, "rank")
    /\ route' = [route EXCEPT ![r].step = "publish"]
    /\ UNCHANGED <<account, code, referrer, entry, verified, told>>

\* ... and publishes the XP computed from it.
PublishXp(r) ==
    /\ At(r, "publish")
    /\ entry' = IF Exists(Who(r))
                THEN [entry EXCEPT ![Who(r)] = "shown"] ELSE entry
    /\ Returns(r)
    /\ UNCHANGED <<account, code, referrer, verified, told>>

\* DELETE hides the learner and keeps the row.
OptOut(a) ==
    /\ Exists(a) /\ entry[a] = "shown"
    /\ entry' = [entry EXCEPT ![a] = "hidden"]
    /\ UNCHANGED <<account, code, referrer, verified, route, told>>

\* grantStudentVerification()
Grant(r) ==
    /\ At(r, "grant")
    /\ verified' = IF Exists(Who(r)) THEN [verified EXCEPT ![Who(r)] = TRUE] ELSE verified
    /\ Returns(r)
    /\ UNCHANGED <<account, code, referrer, entry, told>>

-----------------------------------------------------------------------------

\* deleteUser(): the account goes, and with it every row that refers to it.
Erase(a) ==
    /\ Exists(a)
    /\ account' = [account EXCEPT ![a] = "erased"]
    /\ code' = [code EXCEPT ![a] = NoCode]
    /\ referrer' = [b \in Learners |->
                      IF b = a \/ referrer[b] = a THEN Nobody ELSE referrer[b]]
    /\ entry' = [entry EXCEPT ![a] = "no"]
    /\ verified' = [verified EXCEPT ![a] = FALSE]
    /\ UNCHANGED <<route, told>>

AccountsNext ==
    \/ \E a \in Learners : SignUp(a) \/ OptOut(a) \/ Erase(a)
    \/ \E r \in Routes :
          \/ \E a \in Learners, step \in {"mint", "rank", "grant"} : Start(r, a, step)
          \/ Lookup(r) \/ Insert(r) \/ InsertRefused(r)
          \/ Rank(r) \/ PublishXp(r) \/ Grant(r)

AccountsSpec == AccountsInit /\ [][AccountsNext]_accountVars

-----------------------------------------------------------------------------

AccountsTypeOK ==
    /\ account \in [Learners -> {"none", "live", "erased"}]
    /\ code \in [Learners -> Codes \cup {NoCode}]
    /\ referrer \in [Learners -> Learners \cup {Nobody}]
    /\ entry \in [Learners -> {"no", "hidden", "shown"}] /\ verified \in [Learners -> BOOLEAN]
    /\ route \in [Routes -> Route] /\ told \in [Learners -> SUBSET Codes]

\* Every code a learner was ever shown is theirs for as long as the account
\* lives, and nobody else's: a friend who signs up with it counts for them.
\* (referrals/server.ts: "a concurrent second call just returns the existing one".)
CodeIsForGood ==
    \A a \in Learners : Exists(a) =>
        \A c \in told[a] : code[a] = c /\ Free(c, Learners \ {a})

\* Erasing an account leaves nothing of it, whatever request was under way for
\* it: no code, listing or verification, and nobody referred by it.
NothingOutlivesTheAccount ==
    \A a \in Learners : account[a] = "erased" =>
        /\ code[a] = NoCode /\ entry[a] = "no" /\ ~verified[a]
        /\ referrer[a] = Nobody /\ \A b \in Learners : referrer[b] # a

\* What is kept of a learner is whole: a referral code once handed out stays
\* theirs, and nothing outlives the account, however the routes interleave.
AccountsAreWhole == CodeIsForGood /\ NothingOutlivesTheAccount
=============================================================================
