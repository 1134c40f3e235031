----------------------------- MODULE SyncService -----------------------------
(***************************************************************************)
(* The accounts and sync service: the handler of sync-server.mjs over the  *)
(* files of sync/store.mjs and the hashing of sync/auth.mjs.  Requests run *)
(* interleaved, one step between two awaits.  What outlives the process is *)
(* in files: an account per address, a session per token.  What does not:  *)
(* the slots and the waiters of scrypt, a chain per account for writers.   *)
(*                                                                         *)
(* A request stands for what only it can have brought: the token of the    *)
(* session it opened, the password of the account it created, the changes  *)
(* it pushed.                                                              *)
(***************************************************************************)
EXTENDS Naturals, Sequences, FiniteSets

CONSTANTS Requests, Addresses,
          NoOne,                     \* no request, no address
          MaxHashes,                 \* MAX_CONCURRENT
          MaxCrashes                 \* bound

ASSUME ServiceAssumption ==
    /\ IsFiniteSet(Requests) /\ NoOne \notin Requests \cup Addresses
    /\ MaxHashes \in Nat \ {0}

Kinds == {"signup", "login", "logout", "read", "push"}

Phases == {"new", "deriving",                    \* waiting for scrypt, or in it
           "queued", "storing", "stored",        \* in the chain of an account
           "opening",                            \* writing a session
           "authorising", "renewing", "expiring", "authorised",
           "confirmed", "refused", "failed", "dropped"}

Over == {"confirmed", "refused", "failed", "dropped"}

\* A file that is missing has revision 0.
Account == [owner: Requests \cup {NoOne}, revision: Nat, applied: SUBSET Requests]
NoAccount == [owner |-> NoOne, revision |-> 0, applied |-> {}]

\* How much of a session's time is spent: it is renewed from the middle on.
SessionFiles == {"none", "fresh", "due", "expired"}

VARIABLES accounts, sessions,                    \* files
          running, waiters, chain,               \* memory of the process
          listed, doomed,                        \* memory of purgeExpired
          kind, phase, address, token, seen,     \* per request
          crashes

files == <<accounts, sessions>>
hashing == <<running, waiters>>
purge == <<listed, doomed>>
requests == <<kind, phase, address, token, seen>>
vars == <<files, hashing, chain, purge, requests, crashes>>

-----------------------------------------------------------------------------

Init == /\ accounts = [a \in Addresses |-> NoAccount]
        /\ sessions = [k \in Requests |-> "none"]
        /\ running = 0 /\ waiters = <<>>
        /\ chain = [a \in Addresses |-> <<>>]
        /\ listed = {} /\ doomed = {}
        /\ kind = [r \in Requests |-> "read"]
        /\ phase = [r \in Requests |-> "new"]
        /\ address = [r \in Requests |-> NoOne]
        /\ token = [r \in Requests |-> NoOne]
        /\ seen = [r \in Requests |-> NoAccount]
        /\ crashes = 0

Move(r, next) == phase' = [phase EXCEPT ![r] = next]

Waits(r) == \E i \in DOMAIN waiters : waiters[i] = r
Hashes(r) == phase[r] = "deriving" /\ ~Waits(r)
Holds(r) == address[r] \in Addresses /\ chain[address[r]] # <<>> /\ Head(chain[address[r]]) = r

\* acquire(): a free slot, or the end of the line.
Acquire(r) ==
    /\ Move(r, "deriving")
    /\ IF running < MaxHashes
       THEN running' = running + 1 /\ waiters' = waiters
       ELSE waiters' = Append(waiters, r) /\ running' = running

\* Mutant: the slot is given back even when it is handed on.
ReleaseTwice ==
    /\ running' = running - 1
    /\ waiters' = IF waiters = <<>> THEN <<>> ELSE Tail(waiters)

\* Mutant: the slot is given back and nobody in line is told.
ReleaseTellsNobody == running' = running - 1 /\ waiters' = waiters

\* release(): the slot goes straight to the next in line.
Release ==
    IF waiters # <<>> THEN waiters' = Tail(waiters) /\ running' = running
    ELSE running' = running - 1 /\ waiters' = waiters

\* withLock(): the writers of an account go one after the other.
Queue(r, a) == chain' = [chain EXCEPT ![a] = Append(@, r)]
Leave(r) == chain' = [chain EXCEPT ![address[r]] = Tail(@)]

-----------------------------------------------------------------------------

\* POST /api/auth/signup, until the password is to be hashed.
Signup(r, a) ==
    /\ phase[r] = "new"
    /\ kind' = [kind EXCEPT ![r] = "signup"]
    /\ address' = [address EXCEPT ![r] = a]
    /\ Acquire(r)
    /\ UNCHANGED <<files, chain, purge, token, seen, crashes>>

\* POST /api/auth/login reads the account and hashes even without one.
Login(r, a) ==
    /\ phase[r] = "new"
    /\ kind' = [kind EXCEPT ![r] = "login"]
    /\ address' = [address EXCEPT ![r] = a]
    /\ seen' = [seen EXCEPT ![r] = accounts[a]]
    /\ Acquire(r)
    /\ UNCHANGED <<files, chain, purge, token, crashes>>

\* A hash is ready or has failed.  Signup goes on to the chain of its account;
\* login, if the password is the account's, to a session.
Hashed(r) ==
    /\ Hashes(r)
    /\ Release
    /\ \/ kind[r] = "signup" /\ Move(r, "queued") /\ Queue(r, address[r])
       \/ kind[r] = "signup" /\ Move(r, "failed") /\ UNCHANGED chain
       \/ kind[r] = "login" /\ seen[r] # NoAccount /\ Move(r, "opening") /\ UNCHANGED chain
       \/ kind[r] = "login" /\ Move(r, "refused") /\ UNCHANGED chain
    /\ UNCHANGED <<files, purge, kind, address, token, seen, crashes>>

\* Mutant: the account is read by whoever comes, not only by the chain's first.
ReadLockedByAnyone(r) ==
    LET found == accounts[address[r]] IN
    /\ phase[r] = "queued"
    /\ seen' = [seen EXCEPT ![r] = found]
    /\ IF (kind[r] = "signup") = (found = NoAccount)
       THEN Move(r, "storing") /\ UNCHANGED chain
       ELSE Move(r, "refused") /\ Leave(r)
    /\ UNCHANGED <<files, hashing, purge, kind, address, token, crashes>>

\* createAccount() and updateAccount() read the record under the lock: one may
\* not find an account, the other must.
ReadLocked(r) ==
    LET found == accounts[address[r]] IN
    /\ phase[r] = "queued" /\ Holds(r)
    /\ seen' = [seen EXCEPT ![r] = found]
    /\ IF (kind[r] = "signup") = (found = NoAccount)
       THEN Move(r, "storing") /\ UNCHANGED chain
       ELSE Move(r, "refused") /\ Leave(r)
    /\ UNCHANGED <<files, hashing, purge, kind, address, token, crashes>>

\* Mutant: a push writes the revision it has read.
WrittenSameRevision(r) ==
    IF kind[r] = "signup" THEN [owner |-> r, revision |-> 1, applied |-> {}]
    ELSE [seen[r] EXCEPT !.applied = @ \cup {r}]

\* The account a signup creates, the record a push makes of the one it read.
Written(r) ==
    IF kind[r] = "signup" THEN [owner |-> r, revision |-> 1, applied |-> {}]
    ELSE [seen[r] EXCEPT !.revision = @ + 1, !.applied = @ \cup {r}]

\* writeJson() renames a finished file over the old one, or leaves the old one.
Store(r) ==
    /\ phase[r] = "storing"
    /\ Leave(r)
    /\ \/ /\ accounts' = [accounts EXCEPT ![address[r]] = Written(r)]
          /\ seen' = [seen EXCEPT ![r] = Written(r)]
          /\ Move(r, IF kind[r] = "signup" THEN "opening" ELSE "stored")
       \/ Move(r, "failed") /\ UNCHANGED <<accounts, seen>>
    /\ UNCHANGED <<sessions, hashing, purge, kind, address, token, crashes>>

\* The reply to a push.
Reply(r) ==
    /\ phase[r] = "stored"
    /\ Move(r, "confirmed")
    /\ UNCHANGED <<files, hashing, chain, purge, kind, address, token, seen, crashes>>

\* createSession(); then the reply carries the token and the record in hand.
Open(r) ==
    /\ phase[r] = "opening"
    /\ \/ sessions' = [sessions EXCEPT ![r] = "fresh"] /\ Move(r, "confirmed")
       \/ sessions' = sessions /\ Move(r, "failed")
    /\ UNCHANGED <<accounts, hashing, chain, purge, kind, address, token, seen, crashes>>

-----------------------------------------------------------------------------

\* The tokens clients hold are those of sessions they were told of.
Tokens == {k \in Requests : phase[k] = "confirmed" /\ kind[k] \in {"signup", "login"}}

\* GET or POST /api/sync (/api/me reads the same) with the token of a session.
Present(r, k) ==
    /\ phase[r] = "new"
    /\ \E operation \in {"read", "push"} : kind' = [kind EXCEPT ![r] = operation]
    /\ token' = [token EXCEPT ![r] = k]
    /\ Move(r, "authorising")
    /\ UNCHANGED <<files, hashing, chain, purge, address, seen, crashes>>

\* readSession() looks at the session and decides what is still to be done.
ReadSession(r) ==
    LET k == token[r] IN
    /\ phase[r] = "authorising"
    /\ \/ sessions[k] = "none" /\ Move(r, "refused") /\ address' = address
       \/ sessions[k] = "expired" /\ Move(r, "expiring") /\ address' = address
       \/ /\ sessions[k] \in {"fresh", "due"}
          /\ Move(r, IF sessions[k] = "due" THEN "renewing" ELSE "authorised")
          /\ address' = [address EXCEPT ![r] = address[k]]
    /\ UNCHANGED <<files, hashing, chain, purge, kind, token, seen, crashes>>

\* readSession() writes the session it read with a new end; it may fail.
Renew(r) ==
    /\ phase[r] = "renewing"
    /\ sessions' \in {sessions, [sessions EXCEPT ![token[r]] = "fresh"]}
    /\ Move(r, "authorised")
    /\ UNCHANGED <<accounts, hashing, chain, purge, kind, address, token, seen, crashes>>

\* readSession() removes the expired session it read.
Remove(r) ==
    /\ phase[r] = "expiring"
    /\ sessions' = [sessions EXCEPT ![token[r]] = "none"]
    /\ Move(r, "refused")
    /\ UNCHANGED <<accounts, hashing, chain, purge, kind, address, token, seen, crashes>>

\* account(), then the reply to a read or the chain of the account for a push.
Authorised(r) ==
    LET found == accounts[address[r]] IN
    /\ phase[r] = "authorised"
    /\ seen' = [seen EXCEPT ![r] = found]
    /\ \/ found = NoAccount /\ Move(r, "refused") /\ UNCHANGED chain
       \/ found # NoAccount /\ kind[r] = "read" /\ Move(r, "confirmed") /\ UNCHANGED chain
       \/ found # NoAccount /\ kind[r] = "push" /\ Move(r, "queued") /\ Queue(r, address[r])
    /\ UNCHANGED <<files, hashing, purge, kind, address, token, crashes>>

\* POST /api/auth/logout with the token of a session, live or not.
Logout(r, k) ==
    /\ phase[r] = "new"
    /\ kind' = [kind EXCEPT ![r] = "logout"]
    /\ token' = [token EXCEPT ![r] = k]
    /\ sessions' = [sessions EXCEPT ![k] = "none"]
    /\ Move(r, "confirmed")
    /\ UNCHANGED <<accounts, hashing, chain, purge, address, seen, crashes>>

-----------------------------------------------------------------------------

\* Time passes for a session: past the middle, past the end.
Age(k) ==
    /\ sessions[k] \in {"fresh", "due"}
    /\ sessions' = [sessions EXCEPT ![k] = IF @ = "fresh" THEN "due" ELSE "expired"]
    /\ UNCHANGED <<accounts, hashing, chain, purge, requests, crashes>>

\* purgeExpired(), hourly: it lists the files ...
PurgeList ==
    /\ listed = {} /\ doomed = {}
    /\ listed' = {k \in Requests : sessions[k] # "none"}
    /\ UNCHANGED <<files, hashing, chain, doomed, requests, crashes>>

\* Mutant: the purge keeps the sessions that expired.
PurgeReadInverted(k) ==
    /\ k \in listed /\ doomed = {}
    /\ listed' = listed \ {k}
    /\ doomed' = IF sessions[k] = "fresh" THEN {k} ELSE {}
    /\ UNCHANGED <<files, hashing, chain, requests, crashes>>

\* ... reads one after the other ...
PurgeRead(k) ==
    /\ k \in listed /\ doomed = {}
    /\ listed' = listed \ {k}
    /\ doomed' = IF sessions[k] \in {"expired", "none"} THEN {k} ELSE {}
    /\ UNCHANGED <<files, hashing, chain, requests, crashes>>

\* ... and removes what it has found expired.
PurgeRemove ==
    /\ doomed # {}
    /\ sessions' = [k \in Requests |-> IF k \in doomed THEN "none" ELSE sessions[k]]
    /\ doomed' = {}
    /\ UNCHANGED <<accounts, hashing, chain, listed, requests, crashes>>

\* The process dies and starts again: the files stay.
Crash ==
    /\ crashes < MaxCrashes /\ crashes' = crashes + 1
    /\ phase' = [r \in Requests |-> IF phase[r] \in Over \cup {"new"} THEN phase[r] ELSE "dropped"]
    /\ running' = 0 /\ waiters' = <<>>
    /\ chain' = [a \in Addresses |-> <<>>]
    /\ listed' = {} /\ doomed' = {}
    /\ UNCHANGED <<files, kind, address, token, seen>>

-----------------------------------------------------------------------------

Arrive(r) == \/ \E a \in Addresses : Signup(r, a) \/ Login(r, a)
             \/ \E k \in Tokens : Present(r, k) \/ Logout(r, k)

Continue(r) == \/ Hashed(r) \/ ReadLocked(r) \/ Store(r) \/ Reply(r) \/ Open(r)
               \/ ReadSession(r) \/ Renew(r) \/ Remove(r) \/ Authorised(r)

Purge == PurgeList \/ (\E k \in Requests : PurgeRead(k)) \/ PurgeRemove

Next == \/ \E r \in Requests : Arrive(r) \/ Continue(r) \/ Age(r)
        \/ Purge \/ Crash

\* Every await is answered and the timer of the purge goes off; requests, time
\* and crashes come as they like.
Fairness == /\ \A r \in Requests : WF_vars(Continue(r))
            /\ WF_vars(Purge)

Spec == Init /\ [][Next]_vars /\ Fairness

-----------------------------------------------------------------------------

TypeOK == /\ accounts \in [Addresses -> Account]
          /\ sessions \in [Requests -> SessionFiles]
          /\ running \in 0..MaxHashes /\ waiters \in Seq(Requests)
          /\ chain \in [Addresses -> Seq(Requests)]
          /\ listed \subseteq Requests /\ doomed \subseteq Requests
          /\ kind \in [Requests -> Kinds] /\ phase \in [Requests -> Phases]
          /\ address \in [Requests -> Addresses \cup {NoOne}]
          /\ token \in [Requests -> Requests \cup {NoOne}]
          /\ seen \in [Requests -> Account]
          /\ crashes \in Nat

\* No slot of scrypt is lost or given twice, over any order of hashes, failures
\* and crashes, and none is idle while someone waits (auth.mjs acquire, release).
SlotsAreAccountedFor ==
    /\ running = Cardinality({r \in Requests : Hashes(r)})
    /\ waiters # <<>> => running = MaxHashes

\* What a reply confirmed is in the files to stay, whoever else writes the
\* account and whenever the process dies: a signup owns its address, a push is
\* applied (store.mjs withLock, writeJson).
ConfirmedIsKept ==
    \A r \in Requests : phase[r] = "confirmed" =>
        /\ kind[r] = "signup" => accounts[address[r]].owner = r
        /\ kind[r] = "push" => r \in accounts[address[r]].applied

\* A revision names one state of an account: two replies with the same revision
\* carry the same record, so a client may compare revisions.
RevisionNamesState ==
    \A r, s \in Requests :
        /\ phase[r] = "confirmed" /\ phase[s] = "confirmed"
        /\ kind[r] # "logout" /\ kind[s] # "logout"
        /\ address[r] = address[s] /\ seen[r].revision = seen[s].revision
        => seen[r] = seen[s]

\* No step gives an account to someone else, drops changes it has, or takes its
\* revision back.
AccountsOnlyGrow ==
    [][\A a \in Addresses : accounts[a] # NoAccount =>
          /\ accounts'[a].owner = accounts[a].owner
          /\ accounts[a].applied \subseteq accounts'[a].applied
          /\ accounts[a].revision <= accounts'[a].revision]_vars

\* Every request that arrives is answered, unless the process dies first: the
\* line for scrypt and the chains never get stuck.
EveryRequestEnds ==
    \A r \in Requests : phase[r] # "new" ~> phase[r] \in Over

\* The session of a device that never returns is not left behind forever.
\* (store.mjs: "a device that never returns would leave its record forever".)
ExpiredIsRemoved ==
    \A k \in Requests : sessions[k] = "expired" ~> sessions[k] # "expired"

\* "A session [...] stops resolving once revoked": a token that was logged out
\* never names a session again (tests/sync-store.test.mjs).
LoggedOutStaysOut ==
    \A r \in Requests : kind[r] = "logout" => sessions[token[r]] = "none"
=============================================================================
