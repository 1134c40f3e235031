-------------------------- MODULE SyncServiceProofs --------------------------
(***************************************************************************)
(* What holds of SyncService for any requests, addresses, slots, crashes,  *)
(* and of the web edition's sign-in pages for any tabs, addresses and      *)
(* number of attempts.                                                     *)
(***************************************************************************)
EXTENDS SyncService, SignIn, FiniteSetTheorems, TLAPS

\* A missing file is a file to the type, and the constants stay apart.
LEMMA NoAccountType ==
    /\ NoAccount \in Account /\ NoAccount.revision = 0 /\ NoAccount.applied = {}
    /\ NoOne \notin Requests /\ NoOne \notin Addresses
BY ServiceAssumption DEF NoAccount, Account

\* The first of a chain leaves: what is left is a chain, unless it was empty.
LEMMA TailType == \A s \in Seq(Requests) : s # <<>> => Tail(s) \in Seq(Requests)
OBVIOUS

\* Who joins a chain that is not empty does not become its first.
LEMMA AppendHead ==
    \A s \in Seq(Requests), e \in Requests : s # <<>> =>
        Append(s, e) \in Seq(Requests) /\ Append(s, e) # <<>> /\ Head(Append(s, e)) = Head(s)
<1> SUFFICES ASSUME NEW s \in Seq(Requests), NEW e \in Requests, s # <<>>
             PROVE  /\ Append(s, e) \in Seq(Requests) /\ Append(s, e) # <<>>
                    /\ Head(Append(s, e)) = Head(s)
  OBVIOUS
<1>1. Len(s) \in Nat /\ Len(s) # 0
  OBVIOUS
<1>2. Len(Append(s, e)) = Len(s) + 1 /\ Append(s, e) \in Seq(Requests)
  OBVIOUS
<1>3. Append(s, e) # <<>>
  BY <1>1, <1>2
<1>4. Append(s, e)[1] = s[1]
  BY <1>1
<1>5. QED
  BY <1>2, <1>3, <1>4

\* The line for scrypt keeps its type and the slots their bound.
LEMMA AcquireType ==
    ASSUME TypeOK, NEW r \in Requests, Acquire(r)
    PROVE  /\ running' \in 0..MaxHashes /\ waiters' \in Seq(Requests)
           /\ phase' \in [Requests -> Phases]
<1> USE ServiceAssumption
<1>1. phase' \in [Requests -> Phases]
  BY DEF TypeOK, Acquire, Move, Phases
<1>2. CASE running < MaxHashes
  BY <1>1, <1>2 DEF TypeOK, Acquire
<1>3. CASE ~(running < MaxHashes)
  <2>1. Append(waiters, r) \in Seq(Requests)
    BY DEF TypeOK
  <2>2. waiters' = Append(waiters, r) /\ running' = running
    BY <1>3 DEF Acquire
  <2>3. QED
    BY <1>1, <2>1, <2>2 DEF TypeOK
<1>4. QED
  BY <1>2, <1>3

\* Giving a slot back, or on, keeps the types of the line (release).
LEMMA ReleaseType ==
    ASSUME TypeOK, Release, running > 0
    PROVE  running' \in 0..MaxHashes /\ waiters' \in Seq(Requests)
<1>1. CASE waiters # <<>>
  BY <1>1, TailType DEF TypeOK, Release
<1>2. CASE waiters = <<>>
  BY <1>2, ServiceAssumption DEF TypeOK, Release
<1>3. QED
  BY <1>1, <1>2

\* What a writer stores is an account.
LEMMA WrittenType ==
    ASSUME TypeOK, NEW r \in Requests
    PROVE  Written(r) \in Account
<1>1. CASE kind[r] = "signup"
  BY <1>1 DEF Written, Account
<1>2. CASE kind[r] # "signup"
  <2>1. seen[r] \in Account
    BY DEF TypeOK
  <2>2. Written(r) = [owner |-> seen[r].owner, revision |-> seen[r].revision + 1,
                      applied |-> seen[r].applied \cup {r}]
    BY <1>2, <2>1 DEF Written, Account
  <2>3. QED
    BY <2>1, <2>2 DEF Account
<1>3. QED
  BY <1>1, <1>2

-----------------------------------------------------------------------------

\* Why the slots add up: whoever waits is a request that wants a hash and waits
\* once, so the ones that want a hash and do not wait are the ones that run.
Hashing == {r \in Requests : Hashes(r)}

LineInv ==
    /\ \A i \in DOMAIN waiters : phase[waiters[i]] = "deriving"
    /\ \A i, j \in DOMAIN waiters : waiters[i] = waiters[j] => i = j
    /\ running = Cardinality(Hashing)
    /\ waiters # <<>> => running = MaxHashes

\* Whoever runs has a slot to give back.
LEMMA HashingFinite ==
    /\ IsFiniteSet(Hashing)
    /\ \A r \in Hashing : LineInv => running > 0
<1>1. IsFiniteSet(Hashing)
  BY ServiceAssumption, FS_Subset DEF Hashing
<1>2. \A r \in Hashing : Cardinality(Hashing) > 0
  <2>1. Cardinality(Hashing) \in Nat
    BY <1>1, FS_CardinalityType
  <2>2. \A r \in Hashing : Cardinality(Hashing) # 0
    BY <1>1, FS_EmptySet
  <2>3. QED
    BY <2>1, <2>2
<1>3. QED
  BY <1>1, <1>2 DEF LineInv

\* A step that starts no hash and ends none leaves the line as it is.
LEMMA LineRests ==
    ASSUME LineInv, UNCHANGED hashing,
           \A q \in Requests : phase'[q] = "deriving" <=> phase[q] = "deriving",
           waiters \in Seq(Requests)
    PROVE  LineInv'
<1>1. Hashing' = Hashing
  BY DEF Hashing, Hashes, Waits, hashing
<1>2. QED
  BY <1>1 DEF LineInv, hashing

\* Who asks for a hash takes a free slot, of which there is one only while nobody
\* waits, or joins the line once (acquire).
LEMMA LineAcquire ==
    ASSUME TypeOK, LineInv, NEW r \in Requests, phase[r] # "deriving", Acquire(r)
    PROVE  LineInv'
<1>0. /\ waiters \in Seq(Requests)
      /\ phase' = [phase EXCEPT ![r] = "deriving"] /\ phase \in [Requests -> Phases]
      /\ ~Waits(r)
  BY DEF TypeOK, Acquire, Move, LineInv, Waits
<1>1. CASE running < MaxHashes
  <2>1. waiters' = waiters /\ running' = running + 1 /\ waiters = <<>>
    BY <1>1, ServiceAssumption DEF Acquire, LineInv, TypeOK
  <2>2. Hashing' = Hashing \cup {r} /\ r \notin Hashing
    BY <1>0, <2>1 DEF Hashing, Hashes, Waits
  <2>3. Cardinality(Hashing') = Cardinality(Hashing) + 1
    BY <2>2, HashingFinite, FS_AddElement
  <2>4. QED
    BY <2>1, <2>3 DEF LineInv
<1>2. CASE ~(running < MaxHashes)
  <2>1. waiters' = Append(waiters, r) /\ running' = running
    BY <1>2 DEF Acquire
  <2>2. /\ DOMAIN waiters' = 1..Len(waiters) + 1 /\ DOMAIN waiters = 1..Len(waiters)
        /\ \A i \in 1..Len(waiters) : waiters'[i] = waiters[i]
        /\ waiters'[Len(waiters) + 1] = r /\ Len(waiters) \in Nat
    BY <1>0, <2>1
  <2>3. \A q \in Requests : Waits(q)' <=> Waits(q) \/ q = r
    BY <2>2 DEF Waits
  <2>4. Hashing' = Hashing
    BY <1>0, <2>3 DEF Hashing, Hashes
  <2>5. \A i \in DOMAIN waiters' : phase'[waiters'[i]] = "deriving"
    BY <1>0, <2>2 DEF LineInv
  <2>6. \A i, j \in DOMAIN waiters' : waiters'[i] = waiters'[j] => i = j
    BY <1>0, <2>2 DEF LineInv, Waits
  <2>7. running' = MaxHashes
    BY <1>2, <2>1, ServiceAssumption DEF TypeOK
  <2>8. QED
    BY <2>1, <2>4, <2>5, <2>6, <2>7 DEF LineInv
<1>3. QED
  BY <1>1, <1>2

\* A hash that ends frees its slot or hands it to the first in line (release).
LEMMA LineRelease ==
    ASSUME TypeOK, LineInv, NEW r \in Requests, Hashes(r), Release,
           phase' \in [Requests -> Phases], phase'[r] # "deriving",
           \A q \in Requests \ {r} : phase'[q] = phase[q]
    PROVE  LineInv'
<1>0. waiters \in Seq(Requests) /\ r \in Hashing /\ ~Waits(r) /\ phase[r] = "deriving"
  BY DEF TypeOK, Hashing, Hashes
<1>c. Cardinality(Hashing \ {r}) = Cardinality(Hashing) - 1
  BY <1>0, HashingFinite, FS_RemoveElement
<1>1. CASE waiters = <<>>
  <2>1. waiters' = <<>> /\ running' = running - 1
    BY <1>1 DEF Release
  <2>2. Hashing' = Hashing \ {r}
    BY <1>0, <1>1, <2>1 DEF Hashing, Hashes, Waits
  <2>3. QED
    BY <2>1, <2>2, <1>c DEF LineInv
<1>2. CASE waiters # <<>>
  <2> DEFINE w == Head(waiters)
  <2>1. waiters' = Tail(waiters) /\ running' = running
    BY <1>2 DEF Release
  <2>2. /\ DOMAIN waiters = 1..Len(waiters) /\ Len(waiters) \in Nat \ {0}
        /\ DOMAIN waiters' = 1..Len(waiters) - 1
        /\ \A i \in DOMAIN waiters' : waiters'[i] = waiters[i + 1] /\ i + 1 \in DOMAIN waiters
        /\ w = waiters[1] /\ w \in Requests
    BY <1>0, <1>2, <2>1
  <2>3. phase[w] = "deriving" /\ w # r
    BY <1>0, <2>2 DEF LineInv, Waits
  <2>4. \A q \in Requests : Waits(q)' <=> Waits(q) /\ q # w
    <3>1. ASSUME NEW q \in Requests, Waits(q)' PROVE Waits(q) /\ q # w
      <4>1. PICK i \in DOMAIN waiters' : waiters'[i] = q
        BY <3>1 DEF Waits
      <4>2. waiters[i + 1] = q /\ i + 1 \in DOMAIN waiters /\ 1 \in DOMAIN waiters /\ i + 1 # 1
        BY <4>1, <2>2
      <4>3. QED
        BY <4>2, <2>2 DEF Waits, LineInv
    <3>2. ASSUME NEW q \in Requests, Waits(q), q # w PROVE Waits(q)'
      <4>1. PICK i \in DOMAIN waiters : waiters[i] = q
        BY <3>2 DEF Waits
      <4>2. i - 1 \in DOMAIN waiters' /\ (i - 1) + 1 = i
        BY <4>1, <3>2, <2>2
      <4>3. waiters'[i - 1] = q
        BY <4>1, <4>2, <2>2
      <4>4. QED
        BY <4>2, <4>3 DEF Waits
    <3>3. QED
      BY <3>1, <3>2
  <2>5. Waits(w)
    BY <2>2 DEF Waits
  <2>6. Hashing' = (Hashing \ {r}) \cup {w} /\ w \notin Hashing \ {r}
    BY <1>0, <2>2, <2>3, <2>4, <2>5 DEF Hashing, Hashes
  <2>7. Cardinality((Hashing \ {r}) \cup {w}) = Cardinality(Hashing \ {r}) + 1
    BY <2>6, HashingFinite, FS_Subset, FS_AddElement
  <2>8. Cardinality(Hashing') = Cardinality(Hashing)
    <3>1. Cardinality(Hashing) \in Nat
      BY HashingFinite, FS_CardinalityType
    <3>2. QED
      BY <2>6, <2>7, <1>c, <3>1
  <2>9. \A i \in DOMAIN waiters' : phase'[waiters'[i]] = "deriving"
    BY <1>0, <2>2 DEF LineInv, Waits
  <2>10. \A i, j \in DOMAIN waiters' : waiters'[i] = waiters'[j] => i = j
    BY <2>2 DEF LineInv
  <2>11. QED
    BY <1>2, <2>1, <2>8, <2>9, <2>10 DEF LineInv
<1>3. QED
  BY <1>1, <1>2

\* The line for scrypt adds up after every step.
LEMMA LineStep == TypeOK /\ LineInv /\ [Next]_vars => LineInv'
<1> SUFFICES ASSUME TypeOK, LineInv, [Next]_vars PROVE LineInv'
  OBVIOUS
<1>0. waiters \in Seq(Requests) /\ phase \in [Requests -> Phases]
  BY DEF TypeOK
<1> USE DEF files, purge, requests
<1>1. ASSUME NEW r \in Requests, NEW a \in Addresses, Signup(r, a) \/ Login(r, a)
      PROVE  LineInv'
  BY <1>1, LineAcquire DEF Signup, Login
<1>2. ASSUME NEW r \in Requests, Hashed(r) PROVE LineInv'
  <2>1. \E p \in Phases \ {"deriving"} : Move(r, p)
    BY <1>2 DEF Hashed, Phases
  <2>2. Release /\ Hashes(r)
    BY <1>2 DEF Hashed
  <2>3. QED
    BY <1>0, <2>1, <2>2, LineRelease DEF Move
<1>3. ASSUME NEW r \in Requests,
             \/ ReadLocked(r) \/ Store(r) \/ Reply(r) \/ Open(r) \/ ReadSession(r)
             \/ Renew(r) \/ Remove(r) \/ Authorised(r)
             \/ \E k \in Tokens : Present(r, k) \/ Logout(r, k)
      PROVE  LineInv'
  <2>1. UNCHANGED hashing /\ phase[r] # "deriving"
    BY <1>3 DEF ReadLocked, Store, Reply, Open, ReadSession, Renew, Remove, Authorised,
                Present, Logout
  <2>2. \E p \in Phases \ {"deriving"} : Move(r, p)
    BY <1>3 DEF ReadLocked, Store, Reply, Open, ReadSession, Renew, Remove, Authorised,
                Present, Logout, Phases
  <2>3. QED
    BY <1>0, <2>1, <2>2, LineRests DEF Move
<1>4. CASE Purge \/ (\E k \in Requests : Age(k)) \/ UNCHANGED vars
  <2>1. UNCHANGED <<hashing, phase>>
    BY <1>4 DEF Purge, PurgeList, PurgeRead, PurgeRemove, Age, vars
  <2>2. QED
    BY <1>0, <2>1, LineRests
<1>5. CASE Crash
  <2>1. waiters' = <<>> /\ running' = 0 /\ \A r \in Requests : phase'[r] # "deriving"
    BY <1>0, <1>5 DEF Crash, Over
  <2>2. Hashing' = {}
    BY <2>1 DEF Hashing, Hashes
  <2>3. QED
    BY <2>1, <2>2, FS_EmptySet DEF LineInv
<1>6. QED
  BY <1>1, <1>2, <1>3, <1>4, <1>5 DEF Next, Arrive, Continue

-----------------------------------------------------------------------------

\* Whoever has read a record to write it is the first of the account's chain.
LockInv == \A r \in Requests : phase[r] = "storing" => Holds(r)

\* Leaving the chain of one account takes the lock from nobody else.
LEMMA LeaveKeepsLocks ==
    ASSUME TypeOK, LockInv, NEW r \in Requests, Holds(r), Leave(r),
           UNCHANGED address, phase' \in [Requests -> Phases], phase'[r] # "storing",
           \A q \in Requests \ {r} : phase'[q] = phase[q]
    PROVE  LockInv'
<1> SUFFICES ASSUME NEW q \in Requests, phase'[q] = "storing" PROVE Holds(q)'
  BY DEF LockInv
<1>1. q # r /\ phase[q] = "storing" /\ Holds(q)
  BY DEF LockInv
<1>2. address[q] # address[r]
  BY <1>1 DEF Holds
<1>3. chain'[address[q]] = chain[address[q]]
  BY <1>1, <1>2 DEF Leave, TypeOK, Holds
<1>4. QED
  BY <1>1, <1>3 DEF Holds

\* Who joins a chain does not become its first if somebody is.
LEMMA QueueKeepsLocks ==
    ASSUME TypeOK, LockInv, NEW r \in Requests, NEW a \in Addresses, Queue(r, a),
           UNCHANGED address, phase' \in [Requests -> Phases], phase'[r] # "storing",
           \A q \in Requests \ {r} : phase'[q] = phase[q]
    PROVE  LockInv'
<1> SUFFICES ASSUME NEW q \in Requests, phase'[q] = "storing" PROVE Holds(q)'
  BY DEF LockInv
<1>1. q # r /\ phase[q] = "storing" /\ Holds(q)
  BY DEF LockInv
<1> DEFINE b == address[q]
<1>2. b \in Addresses /\ chain[b] \in Seq(Requests) /\ chain[b] # <<>> /\ Head(chain[b]) = q
  BY <1>1 DEF Holds, TypeOK
<1>3. chain'[b] = chain[b] \/ chain'[b] = Append(chain[b], r)
  BY <1>2 DEF Queue, TypeOK
<1>4. chain'[b] # <<>> /\ Head(chain'[b]) = Head(chain[b])
  BY <1>2, <1>3, AppendHead
<1>5. QED
  BY <1>2, <1>4 DEF Holds

\* While the chains rest, whoever is first stays first.
LEMMA LocksRest ==
    ASSUME LockInv, UNCHANGED chain,
           \A q \in Requests : phase'[q] = "storing" =>
              phase[q] = "storing" /\ address'[q] = address[q]
    PROVE  LockInv'
BY DEF LockInv, Holds

\* No step lets a second writer into an account (withLock).
LEMMA LockStep == TypeOK /\ LockInv /\ [Next]_vars => LockInv'
<1> SUFFICES ASSUME TypeOK, LockInv, [Next]_vars PROVE LockInv'
  OBVIOUS
<1>0. phase \in [Requests -> Phases] /\ address \in [Requests -> Addresses \cup {NoOne}]
  BY DEF TypeOK
<1> USE DEF files, purge, requests, hashing
<1>1. ASSUME NEW r \in Requests,
             \/ \E a \in Addresses : Signup(r, a) \/ Login(r, a)
             \/ \E k \in Tokens : Present(r, k) \/ Logout(r, k)
             \/ Reply(r) \/ Open(r) \/ ReadSession(r) \/ Renew(r) \/ Remove(r)
      PROVE  LockInv'
  <2>1. /\ UNCHANGED chain /\ phase[r] # "storing"
        /\ \E p \in Phases \ {"storing"} : Move(r, p)
        /\ \A q \in Requests \ {r} : address'[q] = address[q]
    <3>1. CASE \E a \in Addresses : Signup(r, a) \/ Login(r, a)
      BY <1>0, <3>1 DEF Signup, Login, Acquire, Phases
    <3>2. CASE \E k \in Tokens : Present(r, k) \/ Logout(r, k)
      BY <1>0, <3>2 DEF Present, Logout, Phases
    <3>3. CASE ReadSession(r)
      BY <1>0, <3>3 DEF ReadSession, Phases
    <3>4. CASE Reply(r) \/ Open(r) \/ Renew(r) \/ Remove(r)
      BY <1>0, <3>4 DEF Reply, Open, Renew, Remove, Phases
    <3>5. QED
      BY <1>1, <3>1, <3>2, <3>3, <3>4
  <2>2. QED
    BY <1>0, <2>1, LocksRest DEF Move
<1>2. ASSUME NEW r \in Requests, Hashed(r) \/ Authorised(r) PROVE LockInv'
  <2>1. /\ UNCHANGED address
        /\ \E p \in Phases \ {"storing"} : Move(r, p)
        /\ UNCHANGED chain \/ Queue(r, address[r])
    BY <1>2 DEF Hashed, Authorised, Phases
  <2>2. CASE UNCHANGED chain
    BY <1>0, <2>1, <2>2, LocksRest DEF Move
  <2>3. CASE Queue(r, address[r]) /\ address[r] \notin Addresses
    <3>1. chain' = chain
      BY <2>3 DEF Queue, TypeOK
    <3>2. QED
      BY <1>0, <2>1, <3>1, LocksRest DEF Move
  <2>4. CASE Queue(r, address[r]) /\ address[r] \in Addresses
    BY <1>0, <2>1, <2>4, QueueKeepsLocks DEF Move
  <2>5. QED
    BY <2>1, <2>2, <2>3, <2>4
<1>3. ASSUME NEW r \in Requests, ReadLocked(r) PROVE LockInv'
  <2>1. CASE Move(r, "storing") /\ UNCHANGED chain
    BY <1>0, <1>3, <2>1 DEF ReadLocked, Move, LockInv, Holds
  <2>2. CASE Move(r, "refused") /\ Leave(r)
    BY <1>0, <1>3, <2>2, LeaveKeepsLocks DEF ReadLocked, Move, Phases
  <2>3. QED
    BY <1>3, <2>1, <2>2 DEF ReadLocked
<1>4. ASSUME NEW r \in Requests, Store(r) PROVE LockInv'
  <2>1. /\ Holds(r) /\ Leave(r) /\ UNCHANGED address
        /\ \E p \in Phases \ {"storing"} : Move(r, p)
    BY <1>4 DEF Store, LockInv, Phases
  <2>2. QED
    BY <1>0, <2>1, LeaveKeepsLocks DEF Move
<1>5. CASE Purge \/ (\E k \in Requests : Age(k)) \/ UNCHANGED vars
  <2>1. UNCHANGED <<chain, phase, address>>
    BY <1>5 DEF Purge, PurgeList, PurgeRead, PurgeRemove, Age, vars
  <2>2. QED
    BY <2>1, LocksRest
<1>6. CASE Crash
  <2>1. \A r \in Requests : phase'[r] # "storing"
    BY <1>0, <1>6 DEF Crash, Over
  <2>2. QED
    BY <2>1 DEF LockInv
<1>7. QED
  BY <1>1, <1>2, <1>3, <1>4, <1>5, <1>6 DEF Next, Arrive, Continue

-----------------------------------------------------------------------------

\* What a request does, in which phase, and what is behind a token: the session
\* a client presents was opened by a request that found or made an account.
Route(r) ==
    /\ token[r] # NoOne => token[r] \in Tokens
    /\ phase[r] \in {"authorising", "renewing", "expiring"} => token[r] # NoOne
    /\ phase[r] \in {"authorising", "renewing", "expiring", "authorised"}
       => kind[r] \in {"read", "push"}
    /\ phase[r] \in {"queued", "storing"} => kind[r] \in {"signup", "push"}
    /\ phase[r] \in {"deriving", "opening"} => kind[r] \in {"signup", "login"}
    /\ phase[r] = "stored" => kind[r] = "push"
    /\ phase[r] \in {"deriving", "queued", "storing", "stored", "opening", "renewing", "authorised"}
       => address[r] \in Addresses
    /\ phase[r] = "confirmed" /\ kind[r] # "logout" => address[r] \in Addresses
    /\ sessions[r] # "none" => r \in Tokens

RouteInv == \A r \in Requests : Route(r)

\* A session belongs to an address.
LEMMA TokenAddress ==
    ASSUME RouteInv, NEW k \in Tokens
    PROVE  k \in Requests /\ address[k] \in Addresses
BY DEF RouteInv, Route, Tokens

\* A step of one request leaves the others where they are, and what was a token
\* stays one.
LEMMA RouteOthers ==
    ASSUME RouteInv, NEW r \in Requests, phase[r] # "confirmed",
           \A q \in Requests \ {r} : /\ phase'[q] = phase[q] /\ kind'[q] = kind[q]
                                     /\ token'[q] = token[q] /\ address'[q] = address[q],
           \A q \in Requests : sessions'[q] # "none" => q \in Tokens \/ q \in Tokens',
           Route(r)'
    PROVE  RouteInv'
<1>1. Tokens \subseteq Tokens'
  BY DEF Tokens
<1>2. ASSUME NEW q \in Requests \ {r} PROVE Route(q)'
  BY <1>1, <1>2 DEF RouteInv, Route
<1>3. QED
  BY <1>2 DEF RouteInv

\* No step takes a request off its route.
LEMMA RouteStep == TypeOK /\ RouteInv /\ [Next]_vars => RouteInv'
<1> SUFFICES ASSUME TypeOK, RouteInv, [Next]_vars PROVE RouteInv'
  OBVIOUS
<1>0. /\ phase \in [Requests -> Phases] /\ kind \in [Requests -> Kinds]
      /\ token \in [Requests -> Requests \cup {NoOne}]
      /\ address \in [Requests -> Addresses \cup {NoOne}]
      /\ sessions \in [Requests -> SessionFiles]
  BY DEF TypeOK
<1>s. \A q \in Requests : sessions[q] # "none" => q \in Tokens
  BY DEF RouteInv, Route
<1> USE DEF files, purge, requests, hashing
<1>1. ASSUME NEW r \in Requests, NEW a \in Addresses, Signup(r, a) \/ Login(r, a)
      PROVE  RouteInv'
  <2>1. /\ phase[r] = "new" /\ phase' = [phase EXCEPT ![r] = "deriving"]
        /\ address' = [address EXCEPT ![r] = a]
        /\ kind' = [kind EXCEPT ![r] = "signup"] \/ kind' = [kind EXCEPT ![r] = "login"]
        /\ token' = token /\ sessions' = sessions
    BY <1>1 DEF Signup, Login, Acquire, Move
  <2>2. Tokens \subseteq Tokens' /\ r \notin Tokens
    BY <1>0, <2>1 DEF Tokens
  <2>3. Route(r)'
    BY <1>0, <1>s, <2>1, <2>2 DEF RouteInv, Route
  <2>4. QED
    BY <1>0, <1>s, <2>1, <2>3, RouteOthers
<1>2. ASSUME NEW r \in Requests, NEW k \in Tokens, Present(r, k) \/ Logout(r, k)
      PROVE  RouteInv'
  <2>1. /\ phase[r] = "new" /\ token' = [token EXCEPT ![r] = k] /\ address' = address
        /\ \/ /\ phase' = [phase EXCEPT ![r] = "authorising"] /\ sessions' = sessions
              /\ \E operation \in {"read", "push"} : kind' = [kind EXCEPT ![r] = operation]
           \/ /\ phase' = [phase EXCEPT ![r] = "confirmed"]
              /\ sessions' = [sessions EXCEPT ![k] = "none"]
              /\ kind' = [kind EXCEPT ![r] = "logout"]
    BY <1>2 DEF Present, Logout, Move
  <2>2. Tokens \subseteq Tokens' /\ r \notin Tokens /\ k \in Requests
    BY <1>0, <2>1 DEF Tokens
  <2>3. \A q \in Requests : sessions'[q] # "none" => q \in Tokens
    BY <1>0, <1>s, <2>1
  <2>4. Route(r)'
    <3>1. token'[r] \in Tokens' /\ (sessions'[r] # "none" => r \in Tokens')
      BY <1>0, <2>1, <2>2, <2>3
    <3>2. \/ phase'[r] = "authorising" /\ kind'[r] \in {"read", "push"}
          \/ phase'[r] = "confirmed" /\ kind'[r] = "logout"
      BY <1>0, <2>1
    <3>3. token'[r] # NoOne
      BY <1>0, <2>1, <2>2, NoAccountType
    <3>4. QED
      BY <3>1, <3>2, <3>3 DEF Route
  <2>5. QED
    BY <1>0, <2>1, <2>3, <2>4, RouteOthers
<1>3. ASSUME NEW r \in Requests,
             Hashed(r) \/ ReadLocked(r) \/ Store(r) \/ Reply(r) \/ Authorised(r)
      PROVE  RouteInv'
  <2>1. /\ phase[r] \in {"deriving", "queued", "storing", "stored", "authorised"}
        /\ UNCHANGED <<sessions, kind, address, token>>
    BY <1>3 DEF Hashed, Hashes, ReadLocked, Store, Reply, Authorised
  <2>2. \E p \in {"queued", "storing", "stored", "opening", "confirmed", "refused", "failed"} :
            /\ phase' = [phase EXCEPT ![r] = p]
            /\ p = "queued" => kind[r] \in {"signup", "push"}
            /\ p = "storing" => phase[r] = "queued"
            /\ p = "stored" => phase[r] = "storing" /\ kind[r] # "signup"
            /\ p = "opening" => kind[r] \in {"signup", "login"}
    <3>1. CASE Hashed(r)
      BY <3>1 DEF Hashed, Move
    <3>2. CASE ReadLocked(r)
      BY <3>2 DEF ReadLocked, Move
    <3>3. CASE Store(r)
      BY <3>3 DEF Store, Move
    <3>4. CASE Reply(r) \/ Authorised(r)
      BY <3>4 DEF Reply, Authorised, Move
    <3>5. QED
      BY <1>3, <3>1, <3>2, <3>3, <3>4
  <2>3. Route(r) /\ Tokens \subseteq Tokens'
    BY <1>0, <2>1, <2>2 DEF RouteInv, Tokens
  <2>4. Route(r)'
    BY <1>0, <2>1, <2>2, <2>3 DEF Route
  <2>5. QED
    BY <1>0, <1>s, <2>1, <2>2, <2>4, RouteOthers
<1>4. ASSUME NEW r \in Requests, Open(r) PROVE RouteInv'
  <2>1. /\ phase[r] = "opening" /\ UNCHANGED <<kind, address, token>> /\ Route(r)
        /\ \/ phase' = [phase EXCEPT ![r] = "confirmed"]
           \/ phase' = [phase EXCEPT ![r] = "failed"] /\ sessions' = sessions
        /\ \A q \in Requests \ {r} : sessions'[q] = sessions[q]
    BY <1>0, <1>4 DEF Open, Move, RouteInv
  <2>2. Tokens \subseteq Tokens' /\ (phase'[r] = "confirmed" => r \in Tokens')
    BY <1>0, <2>1 DEF Tokens, Route
  <2>3. \A q \in Requests : sessions'[q] # "none" => q \in Tokens \/ q \in Tokens'
    BY <1>0, <1>s, <2>1, <2>2
  <2>4. Route(r)'
    BY <1>0, <2>1, <2>2, <2>3 DEF Route
  <2>5. QED
    BY <1>0, <2>1, <2>3, <2>4, RouteOthers
<1>5. ASSUME NEW r \in Requests, ReadSession(r) PROVE RouteInv'
  <2>1. /\ phase[r] = "authorising" /\ UNCHANGED <<kind, sessions, token>> /\ Route(r)
        /\ token[r] \in Tokens /\ address[token[r]] \in Addresses
    BY <1>0, <1>5, TokenAddress DEF ReadSession, RouteInv, Route
  <2>2. \/ /\ \E p \in {"refused", "expiring"} : phase' = [phase EXCEPT ![r] = p]
           /\ address' = address
        \/ /\ \E p \in {"renewing", "authorised"} : phase' = [phase EXCEPT ![r] = p]
           /\ address' = [address EXCEPT ![r] = address[token[r]]]
    BY <1>5 DEF ReadSession, Move
  <2>3. Tokens \subseteq Tokens'
    BY <1>0, <2>1, <2>2 DEF Tokens
  <2>4. Route(r)'
    BY <1>0, <2>1, <2>2, <2>3 DEF Route
  <2>5. QED
    BY <1>0, <1>s, <2>1, <2>2, <2>4, RouteOthers
<1>6. ASSUME NEW r \in Requests, Renew(r) \/ Remove(r) PROVE RouteInv'
  <2>1. /\ phase[r] \in {"renewing", "expiring"} /\ UNCHANGED <<kind, address, token>> /\ Route(r)
        /\ \/ phase[r] = "renewing" /\ phase' = [phase EXCEPT ![r] = "authorised"]
           \/ phase' = [phase EXCEPT ![r] = "refused"]
        /\ \A q \in Requests : sessions'[q] # "none" => sessions[q] # "none" \/ q = token[r]
    BY <1>0, <1>6 DEF Renew, Remove, Move, RouteInv
  <2>2. Tokens \subseteq Tokens' /\ token[r] \in Tokens
    BY <1>0, <2>1 DEF Tokens, Route
  <2>3. \A q \in Requests : sessions'[q] # "none" => q \in Tokens
    BY <1>s, <2>1, <2>2
  <2>4. Route(r)'
    BY <1>0, <2>1, <2>2, <2>3 DEF Route
  <2>5. QED
    BY <1>0, <2>1, <2>3, <2>4, RouteOthers
<1>7. CASE Purge \/ (\E k \in Requests : Age(k)) \/ UNCHANGED vars
  <2>1. /\ UNCHANGED <<kind, phase, address, token>>
        /\ \A q \in Requests : sessions'[q] # "none" => sessions[q] # "none"
    BY <1>0, <1>7 DEF Purge, PurgeList, PurgeRead, PurgeRemove, Age, vars
  <2>2. Tokens' = Tokens
    BY <2>1 DEF Tokens
  <2>3. QED
    BY <2>1, <2>2 DEF RouteInv, Route
<1>8. CASE Crash
  <2>1. /\ UNCHANGED <<sessions, kind, address, token>>
        /\ \A q \in Requests : phase'[q] = phase[q] \/ phase'[q] = "dropped"
        /\ \A q \in Requests : phase[q] = "confirmed" => phase'[q] = "confirmed"
    BY <1>0, <1>8 DEF Crash, Over
  <2>2. Tokens \subseteq Tokens'
    BY <2>1 DEF Tokens
  <2>3. QED
    BY <2>1, <2>2 DEF RouteInv, Route
<1>9. QED
  BY <1>1, <1>2, <1>3, <1>4, <1>5, <1>6, <1>7, <1>8 DEF Next, Arrive, Continue

-----------------------------------------------------------------------------

\* The types need them all: a slot is given back by whoever has one, and a chain is
\* left by its first.
TypeInv == TypeOK /\ LineInv /\ LockInv /\ RouteInv

\* A service that has just started, with no files, satisfies all of it.
LEMMA TypeInit == Init => TypeInv
<1> SUFFICES ASSUME Init PROVE TypeInv
  OBVIOUS
<1>1. TypeOK
  BY NoAccountType, ServiceAssumption
  DEF Init, TypeOK, SessionFiles, Kinds, Phases
<1>2. Hashing = {} /\ waiters = <<>> /\ running = 0
  BY DEF Init, Hashing, Hashes
<1>3. LineInv
  BY <1>2, FS_EmptySet DEF LineInv
<1>4. LockInv
  BY DEF Init, LockInv
<1>5. RouteInv
  BY NoAccountType DEF Init, RouteInv, Route
<1>6. QED
  BY <1>1, <1>3, <1>4, <1>5 DEF TypeInv

\* A request that arrives keeps the types.
LEMMA TypeArrive ==
    ASSUME TypeInv, NEW r \in Requests, Arrive(r)
    PROVE  TypeOK'
<1> USE DEF files, purge, requests, hashing, TypeInv
<1>1. ASSUME NEW a \in Addresses, Signup(r, a) \/ Login(r, a) PROVE TypeOK'
  <2>1. /\ running' \in 0..MaxHashes /\ waiters' \in Seq(Requests)
        /\ phase' \in [Requests -> Phases]
    BY <1>1, AcquireType DEF Signup, Login
  <2>2. /\ kind' \in [Requests -> Kinds] /\ seen' \in [Requests -> Account]
        /\ address' \in [Requests -> Addresses \cup {NoOne}]
    BY <1>1 DEF Signup, Login, TypeOK, Kinds
  <2>3. UNCHANGED <<files, chain, purge, token, crashes>>
    BY <1>1 DEF Signup, Login
  <2>4. QED
    BY <2>1, <2>2, <2>3 DEF TypeOK
<1>2. ASSUME NEW k \in Tokens, Present(r, k) PROVE TypeOK'
  BY <1>2 DEF Present, Move, TypeOK, Tokens, Kinds, Phases
<1>3. ASSUME NEW k \in Tokens, Logout(r, k) PROVE TypeOK'
  BY <1>3 DEF Logout, Move, TypeOK, Tokens, Kinds, Phases, SessionFiles
<1>4. QED
  BY <1>1, <1>2, <1>3 DEF Arrive

\* Joining a chain, or leaving it as its first, keeps it one.
LEMMA ChainType ==
    ASSUME TypeOK, NEW r \in Requests,
           \/ UNCHANGED chain
           \/ \E a \in Addresses \cup {NoOne} : Queue(r, a)
           \/ Holds(r) /\ Leave(r)
    PROVE  chain' \in [Addresses -> Seq(Requests)]
<1>1. CASE UNCHANGED chain
  BY <1>1 DEF TypeOK
<1>2. ASSUME NEW a \in Addresses \cup {NoOne}, Queue(r, a)
      PROVE  chain' \in [Addresses -> Seq(Requests)]
  <2>1. \A s \in Seq(Requests) : Append(s, r) \in Seq(Requests)
    OBVIOUS
  <2>2. QED
    BY <1>2, <2>1 DEF Queue, TypeOK
<1>3. CASE Holds(r) /\ Leave(r)
  BY <1>3, TailType DEF Holds, Leave, TypeOK
<1>4. QED
  BY <1>1, <1>2, <1>3

\* A request that goes on keeps the types.
LEMMA TypeContinue ==
    ASSUME TypeInv, NEW r \in Requests, Continue(r)
    PROVE  TypeOK'
<1> USE DEF files, purge, requests, hashing, TypeInv
<1>1. CASE Hashed(r)
  <2>1. running > 0
    BY <1>1, HashingFinite DEF Hashed, Hashing
  <2>2. running' \in 0..MaxHashes /\ waiters' \in Seq(Requests)
    BY <1>1, <2>1, ReleaseType DEF Hashed
  <2>3. address[r] \in Addresses \cup {NoOne}
    BY DEF TypeOK
  <2>4. chain' \in [Addresses -> Seq(Requests)]
    BY <1>1, <2>3, ChainType DEF Hashed
  <2>5. phase' \in [Requests -> Phases]
    BY <1>1 DEF Hashed, Move, Phases, TypeOK
  <2>6. QED
    BY <1>1, <2>2, <2>4, <2>5 DEF Hashed, TypeOK
<1>2. CASE ReadLocked(r)
  <2>1. Account # {} /\ (address[r] \in Addresses => accounts[address[r]] \in Account)
    BY NoAccountType DEF TypeOK
  <2>2. address[r] \in Addresses
    BY <1>2 DEF ReadLocked, Holds
  <2>3. chain' \in [Addresses -> Seq(Requests)]
    BY <1>2, ChainType DEF ReadLocked
  <2>4. phase' \in [Requests -> Phases] /\ seen' \in [Requests -> Account]
    BY <1>2, <2>1, <2>2 DEF ReadLocked, Move, Phases, TypeOK
  <2>5. QED
    BY <1>2, <2>3, <2>4 DEF ReadLocked, TypeOK
<1>3. CASE Store(r)
  <2>1. Written(r) \in Account
    BY WrittenType
  <2>2. Holds(r)
    BY <1>3 DEF Store, LockInv
  <2>3. chain' \in [Addresses -> Seq(Requests)]
    BY <1>3, <2>2, ChainType DEF Store
  <2>4. CASE accounts' = [accounts EXCEPT ![address[r]] = Written(r)]
             /\ seen' = [seen EXCEPT ![r] = Written(r)]
    <3>1. accounts' \in [Addresses -> Account] /\ seen' \in [Requests -> Account]
      BY <2>1, <2>4 DEF TypeOK
    <3>2. phase' \in [Requests -> Phases]
      BY <1>3 DEF Store, Move, Phases, TypeOK
    <3>3. QED
      BY <1>3, <2>3, <3>1, <3>2 DEF Store, TypeOK
  <2>5. CASE UNCHANGED <<accounts, seen>>
    <3>1. phase' \in [Requests -> Phases]
      BY <1>3 DEF Store, Move, Phases, TypeOK
    <3>2. QED
      BY <1>3, <2>3, <2>5, <3>1 DEF Store, TypeOK
  <2>6. QED
    BY <1>3, <2>4, <2>5 DEF Store
<1>4. CASE Reply(r)
  BY <1>4 DEF Reply, Move, Phases, TypeOK
<1>5. CASE Open(r)
  BY <1>5 DEF Open, Move, Phases, SessionFiles, TypeOK
<1>6. CASE ReadSession(r)
  <2>1. address[token[r]] \in Addresses
    BY <1>6, TokenAddress DEF ReadSession, RouteInv, Route
  <2>2. phase' \in [Requests -> Phases]
    BY <1>6 DEF ReadSession, Move, Phases, TypeOK
  <2>3. address' \in [Requests -> Addresses \cup {NoOne}]
    BY <1>6, <2>1 DEF ReadSession, TypeOK
  <2>4. QED
    BY <1>6, <2>2, <2>3 DEF ReadSession, TypeOK
<1>7. CASE Renew(r) \/ Remove(r)
  BY <1>7 DEF Renew, Remove, Move, Phases, SessionFiles, TypeOK
<1>8. CASE Authorised(r)
  <2>1. address[r] \in Addresses
    BY <1>8 DEF Authorised, RouteInv, Route
  <2>2. chain' \in [Addresses -> Seq(Requests)]
    BY <1>8, <2>1, ChainType DEF Authorised
  <2>3. phase' \in [Requests -> Phases] /\ seen' \in [Requests -> Account]
    BY <1>8, <2>1 DEF Authorised, Move, Phases, TypeOK
  <2>4. QED
    BY <1>8, <2>2, <2>3 DEF Authorised, TypeOK
<1>9. QED
  BY <1>1, <1>2, <1>3, <1>4, <1>5, <1>6, <1>7, <1>8 DEF Continue

\* Every step keeps the types and what they rest on.
LEMMA TypeStep == TypeInv /\ [Next]_vars => TypeInv'
<1> SUFFICES ASSUME TypeInv, [Next]_vars PROVE TypeInv'
  OBVIOUS
<1>1. LineInv' /\ LockInv' /\ RouteInv'
  BY LineStep, LockStep, RouteStep DEF TypeInv
<1> SUFFICES TypeOK'
  BY <1>1 DEF TypeInv
<1> USE DEF files, purge, requests, hashing
<1>2. ASSUME NEW k \in Requests, Age(k) PROVE TypeOK'
  <2>1. sessions' \in [Requests -> SessionFiles]
    BY <1>2 DEF Age, TypeInv, TypeOK, SessionFiles
  <2>2. QED
    BY <1>2, <2>1 DEF Age, TypeInv, TypeOK
<1>3. CASE Purge
  <2>1. CASE PurgeList
    BY <2>1 DEF PurgeList, TypeInv, TypeOK
  <2>2. ASSUME NEW k \in Requests, PurgeRead(k) PROVE TypeOK'
    BY <2>2 DEF PurgeRead, TypeInv, TypeOK
  <2>3. CASE PurgeRemove
    <3>1. sessions' \in [Requests -> SessionFiles]
      BY <2>3 DEF PurgeRemove, TypeInv, TypeOK, SessionFiles
    <3>2. QED
      BY <2>3, <3>1 DEF PurgeRemove, TypeInv, TypeOK
  <2>4. QED
    BY <1>3, <2>1, <2>2, <2>3 DEF Purge
<1>4. CASE Crash
  <2>1. phase' \in [Requests -> Phases] /\ chain' \in [Addresses -> Seq(Requests)]
    BY <1>4 DEF Crash, TypeInv, TypeOK, Phases
  <2>2. running' \in 0..MaxHashes /\ waiters' \in Seq(Requests) /\ crashes' \in Nat
    BY <1>4, ServiceAssumption DEF Crash, TypeInv, TypeOK
  <2>3. QED
    BY <1>4, <2>1, <2>2 DEF Crash, TypeInv, TypeOK
<1>5. CASE UNCHANGED vars
  BY <1>5 DEF vars, TypeInv, TypeOK
<1>6. QED
  BY <1>2, <1>3, <1>4, <1>5, TypeArrive, TypeContinue DEF Next

\* Types hold in every run of the service.
THEOREM ServiceTypes == Spec => []TypeOK
<1>1. TypeInv => TypeOK
  BY DEF TypeInv
<1>2. QED
  BY <1>1, TypeInit, TypeStep, PTL DEF Spec

\* No slot of scrypt is lost, none is given twice, and none is idle while a
\* request waits: for any number of slots, requests and restarts.
THEOREM SlotsHold == Spec => []SlotsAreAccountedFor
<1>1. TypeInv => SlotsAreAccountedFor
  BY DEF TypeInv, LineInv, Hashing, SlotsAreAccountedFor
<1>2. QED
  BY <1>1, TypeInit, TypeStep, PTL DEF Spec

-----------------------------------------------------------------------------

\* What a request has in hand of an account is the account or an older state of
\* it, and no two states have the same revision; a missing file counts as one.
CopyInv ==
    /\ \A a \in Addresses : accounts[a] # NoAccount =>
          accounts[a].revision > 0 /\ accounts[a].owner \in Requests
    /\ \A r \in Requests : seen[r] # NoAccount => seen[r].revision > 0
    /\ \A r \in Requests : address[r] \in Addresses =>
          /\ seen[r].revision <= accounts[address[r]].revision
          /\ seen[r].revision = accounts[address[r]].revision => seen[r] = accounts[address[r]]
    /\ \A r, s \in Requests :
          /\ address[r] \in Addresses /\ address[r] = address[s]
          /\ seen[r].revision = seen[s].revision
          => seen[r] = seen[s]

\* Nothing is in hand before there is an account to read.
BlankInv ==
    \A r \in Requests :
        phase[r] \in {"new", "authorising", "renewing", "expiring"} => seen[r] = NoAccount

\* Who is about to write an account has it as it is.
FreshInv ==
    \A r \in Requests : phase[r] = "storing" =>
        /\ kind[r] = "signup" => accounts[address[r]] = NoAccount
        /\ kind[r] # "signup" => /\ seen[r] = accounts[address[r]]
                                 /\ accounts[address[r]] # NoAccount

\* What was written for a request, the one that waits for its reply included.
KeptInv ==
    \A r \in Requests :
        /\ phase[r] \in {"opening", "confirmed"} /\ kind[r] = "signup"
           => accounts[address[r]].owner = r
        /\ phase[r] \in {"stored", "confirmed"} /\ kind[r] = "push"
           => r \in accounts[address[r]].applied

\* Revisions are numbers.
LEMMA RevisionTypes ==
    ASSUME TypeOK
    PROVE  /\ \A a \in Addresses : accounts[a] \in Account /\ accounts[a].revision \in Nat
           /\ \A r \in Requests : seen[r] \in Account /\ seen[r].revision \in Nat
BY DEF TypeOK, Account

\* Writing an account takes nothing from it and gives it its next revision.
LEMMA StoreGrows ==
    ASSUME TypeInv, FreshInv, CopyInv, NEW r \in Requests, phase[r] = "storing",
           NEW a \in Addresses, a = address[r]
    PROVE  /\ Written(r).revision = accounts[a].revision + 1
           /\ Written(r) # NoAccount /\ Written(r).revision > 0
           /\ Written(r).owner \in Requests
           /\ accounts[a].applied \subseteq Written(r).applied
           /\ accounts[a].owner \in Requests => Written(r).owner = accounts[a].owner
           /\ kind[r] = "signup" => Written(r).owner = r
           /\ kind[r] = "push" => r \in Written(r).applied
<1>1. accounts[a] \in Account /\ seen[r] \in Account
  BY RevisionTypes DEF TypeInv
<1>2. CASE kind[r] = "signup"
  <2>1. accounts[a] = NoAccount
    BY <1>2 DEF FreshInv
  <2>2. QED
    BY <1>2, <2>1, NoAccountType DEF Written, NoAccount
<1>3. CASE kind[r] # "signup"
  <2>1. seen[r] = accounts[a] /\ accounts[a].owner \in Requests
    BY <1>3 DEF FreshInv, CopyInv
  <2>2. Written(r) = [owner |-> seen[r].owner, revision |-> seen[r].revision + 1,
                      applied |-> seen[r].applied \cup {r}]
    BY <1>1, <1>3 DEF Written, Account
  <2>3. seen[r].revision \in Nat
    BY <1>1 DEF Account
  <2>4. Written(r).revision = seen[r].revision + 1
    BY <2>2
  <2>5. Written(r).revision > 0
    BY <2>3, <2>4
  <2>6. Written(r) # NoAccount
    BY <2>5, NoAccountType
  <2>7. QED
    BY <1>3, <2>1, <2>2, <2>4, <2>5, <2>6
<1>4. QED
  BY <1>2, <1>3

\* A request that comes to have an account in hand has it as it is, or nothing.
LEMMA CopyRead ==
    ASSUME TypeOK, CopyInv, NEW r \in Requests, accounts' = accounts,
           \A q \in Requests \ {r} : address'[q] = address[q] /\ seen'[q] = seen[q],
           \/ address'[r] = address[r] /\ seen'[r] = seen[r]
           \/ seen'[r] = NoAccount
           \/ address'[r] \in Addresses /\ seen'[r] = accounts[address'[r]]
    PROVE  CopyInv'
<1>1. \A q \in Requests : seen'[q] # NoAccount => seen'[q].revision > 0
  BY DEF CopyInv
<1>2. \A q \in Requests : address'[q] \in Addresses =>
        /\ seen'[q].revision <= accounts[address'[q]].revision
        /\ seen'[q].revision = accounts[address'[q]].revision => seen'[q] = accounts[address'[q]]
  <2>1. ASSUME NEW q \in Requests, address'[q] \in Addresses
        PROVE  /\ seen'[q].revision <= accounts[address'[q]].revision
               /\ seen'[q].revision = accounts[address'[q]].revision
                  => seen'[q] = accounts[address'[q]]
    <3>1. accounts[address'[q]].revision \in Nat
      BY <2>1, RevisionTypes
    <3>2. CASE address'[q] = address[q] /\ seen'[q] = seen[q]
      BY <2>1, <3>2 DEF CopyInv
    <3>3. CASE seen'[q] = NoAccount
      BY <2>1, <3>1, <3>3, NoAccountType DEF CopyInv
    <3>4. CASE seen'[q] = accounts[address'[q]]
      BY <3>1, <3>4
    <3>5. QED
      BY <3>2, <3>3, <3>4
  <2>2. QED
    BY <2>1
<1>3. \A q \in Requests \ {r} :
        /\ address'[q] \in Addresses /\ address'[q] = address'[r]
        /\ seen'[q].revision = seen'[r].revision
        => seen'[q] = seen'[r]
  <2>1. ASSUME NEW q \in Requests \ {r}, address'[q] \in Addresses, address'[q] = address'[r],
               seen'[q].revision = seen'[r].revision
        PROVE  seen'[q] = seen'[r]
    <3>1. address[q] = address'[q] /\ seen[q] = seen'[q] /\ address[q] \in Addresses
      BY <2>1
    <3>2. CASE address'[r] = address[r] /\ seen'[r] = seen[r]
      BY <2>1, <3>1, <3>2 DEF CopyInv
    <3>3. CASE seen'[r] = NoAccount
      BY <1>1, <2>1, <3>3, NoAccountType
    <3>4. CASE seen'[r] = accounts[address'[r]]
      BY <1>2, <2>1, <3>4
    <3>5. QED
      BY <3>2, <3>3, <3>4
  <2>2. QED
    BY <2>1
<1>4. \A p, q \in Requests :
        /\ address'[p] \in Addresses /\ address'[p] = address'[q]
        /\ seen'[p].revision = seen'[q].revision
        => seen'[p] = seen'[q]
  <2>1. \A p, q \in Requests \ {r} :
          /\ address'[p] \in Addresses /\ address'[p] = address'[q]
          /\ seen'[p].revision = seen'[q].revision
          => seen'[p] = seen'[q]
    BY DEF CopyInv
  <2>2. QED
    BY <1>3, <2>1
<1>5. QED
  BY <1>1, <1>2, <1>4 DEF CopyInv

\* A new state of an account has a revision nobody has seen.
LEMMA CopyStored ==
    ASSUME TypeInv, CopyInv, FreshInv, NEW r \in Requests, phase[r] = "storing",
           accounts' = [accounts EXCEPT ![address[r]] = Written(r)],
           seen' = [seen EXCEPT ![r] = Written(r)], address' = address
    PROVE  CopyInv'
<1> DEFINE a == address[r]
           w == Written(r)
<1>1. /\ a \in Addresses
      /\ accounts \in [Addresses -> Account] /\ seen \in [Requests -> Account]
  BY DEF TypeInv, TypeOK, RouteInv, Route
<1>2. w.revision = accounts[a].revision + 1 /\ w.revision > 0 /\ w.owner \in Requests
  BY <1>1, StoreGrows
<1> HIDE DEF w
<1>3. /\ accounts'[a] = w /\ seen'[r] = w
      /\ \A b \in Addresses \ {a} : accounts'[b] = accounts[b]
      /\ \A q \in Requests \ {r} : seen'[q] = seen[q]
  BY <1>1 DEF w
<1>4. \A q \in Requests \ {r} : address[q] = a => seen[q].revision < w.revision
  <2>1. ASSUME NEW q \in Requests \ {r}, address[q] = a PROVE seen[q].revision < w.revision
    <3>1. seen[q].revision <= accounts[a].revision
      BY <1>1, <2>1 DEF CopyInv
    <3>2. seen[q].revision \in Nat /\ accounts[a].revision \in Nat
      BY <1>1, RevisionTypes DEF TypeInv
    <3>3. QED
      BY <1>2, <3>1, <3>2
  <2>2. QED
    BY <2>1
<1>5. w.revision \in Nat
  BY <1>1, <1>2, RevisionTypes DEF TypeInv
<1>6. \A b \in Addresses : accounts'[b] # NoAccount =>
        accounts'[b].revision > 0 /\ accounts'[b].owner \in Requests
  BY <1>2, <1>3 DEF CopyInv
<1>7. \A q \in Requests : seen'[q] # NoAccount => seen'[q].revision > 0
  BY <1>2, <1>3 DEF CopyInv
<1>8. \A q \in Requests : address'[q] \in Addresses =>
        /\ seen'[q].revision <= accounts'[address'[q]].revision
        /\ seen'[q].revision = accounts'[address'[q]].revision
           => seen'[q] = accounts'[address'[q]]
  <2>1. ASSUME NEW q \in Requests, address[q] \in Addresses
        PROVE  /\ seen'[q].revision <= accounts'[address[q]].revision
               /\ seen'[q].revision = accounts'[address[q]].revision
                  => seen'[q] = accounts'[address[q]]
    <3>1. CASE q = r
      BY <1>3, <1>5, <3>1
    <3>2. CASE q # r /\ address[q] = a
      <4>1. seen[q].revision \in Nat
        BY RevisionTypes DEF TypeInv
      <4>2. seen'[q] = seen[q] /\ accounts'[address[q]] = w
        BY <1>3, <3>2
      <4>3. QED
        BY <1>4, <1>5, <3>2, <4>1, <4>2
    <3>3. CASE q # r /\ address[q] # a
      BY <1>3, <2>1, <3>3 DEF CopyInv
    <3>4. QED
      BY <3>1, <3>2, <3>3
  <2>2. QED
    BY <2>1
<1>9. \A p, q \in Requests :
        /\ address'[p] \in Addresses /\ address'[p] = address'[q]
        /\ seen'[p].revision = seen'[q].revision
        => seen'[p] = seen'[q]
  <2>1. \A q \in Requests \ {r} : address[q] = a => seen[q].revision # w.revision
    BY <1>4, <1>5, RevisionTypes DEF TypeInv
  <2>2. \A p, q \in Requests \ {r} :
          /\ address[p] \in Addresses /\ address[p] = address[q]
          /\ seen[p].revision = seen[q].revision
          => seen[p] = seen[q]
    BY DEF CopyInv
  <2>3. QED
    BY <1>3, <2>1, <2>2
<1>10. QED
  BY <1>6, <1>7, <1>8, <1>9 DEF CopyInv

\* A step is one request's, which leaves what the others have in hand, or it
\* touches no account and nothing in hand: time, the purge, a crash.
LEMMA StepKinds ==
    ASSUME TypeInv, [Next]_vars
    PROVE  \/ \E r \in Requests :
                /\ Arrive(r) \/ Continue(r)
                /\ \A q \in Requests \ {r} : /\ phase'[q] = phase[q] /\ kind'[q] = kind[q]
                                             /\ address'[q] = address[q] /\ seen'[q] = seen[q]
           \/ /\ UNCHANGED <<accounts, kind, address, seen>>
              /\ \A q \in Requests : phase'[q] \in {phase[q], "dropped"}
<1>0. /\ phase \in [Requests -> Phases] /\ kind \in [Requests -> Kinds]
      /\ address \in [Requests -> Addresses \cup {NoOne}] /\ seen \in [Requests -> Account]
  BY DEF TypeInv, TypeOK
<1> USE DEF files, purge, requests, hashing
<1> DEFINE Alone(r) ==
        \A q \in Requests \ {r} : /\ phase'[q] = phase[q] /\ kind'[q] = kind[q]
                                  /\ address'[q] = address[q] /\ seen'[q] = seen[q]
<1>1. ASSUME NEW r \in Requests, Arrive(r) PROVE Alone(r)
  <2>1. ASSUME NEW a \in Addresses, Signup(r, a) \/ Login(r, a) PROVE Alone(r)
    BY <1>0, <2>1 DEF Signup, Login, Acquire, Move
  <2>2. ASSUME NEW k \in Tokens, Present(r, k) \/ Logout(r, k) PROVE Alone(r)
    BY <1>0, <2>2 DEF Present, Logout, Move
  <2>3. QED
    BY <1>1, <2>1, <2>2 DEF Arrive
<1>2. ASSUME NEW r \in Requests, Continue(r) PROVE Alone(r)
  <2>1. CASE Hashed(r)
    BY <1>0, <2>1 DEF Hashed, Move
  <2>2. CASE ReadLocked(r) \/ Authorised(r)
    BY <1>0, <2>2 DEF ReadLocked, Authorised, Move
  <2>3. CASE Store(r)
    BY <1>0, <2>3 DEF Store, Move
  <2>4. CASE Reply(r) \/ Open(r) \/ Renew(r) \/ Remove(r)
    BY <1>0, <2>4 DEF Reply, Open, Renew, Remove, Move
  <2>5. CASE ReadSession(r)
    BY <1>0, <2>5 DEF ReadSession, Move
  <2>6. QED
    BY <1>2, <2>1, <2>2, <2>3, <2>4, <2>5 DEF Continue
<1>3. CASE Purge \/ (\E k \in Requests : Age(k)) \/ UNCHANGED vars
  BY <1>3 DEF Purge, PurgeList, PurgeRead, PurgeRemove, Age, vars
<1>4. CASE Crash
  BY <1>0, <1>4 DEF Crash
<1>5. QED
  BY <1>1, <1>2, <1>3, <1>4 DEF Next

\* Accounts are written by Store and by nothing else.
LEMMA OnlyStore ==
    ASSUME TypeInv, NEW r \in Requests, Arrive(r) \/ Continue(r)
    PROVE  \/ accounts' = accounts
           \/ /\ phase[r] = "storing"
              /\ accounts' = [accounts EXCEPT ![address[r]] = Written(r)]
              /\ seen' = [seen EXCEPT ![r] = Written(r)] /\ UNCHANGED <<address, kind>>
BY DEF Arrive, Continue, Signup, Login, Present, Logout, Hashed, ReadLocked, Store, Reply,
       Open, ReadSession, Renew, Remove, Authorised, files

\* Nothing comes to hand before an account is read.
LEMMA BlankStep == TypeInv /\ BlankInv /\ [Next]_vars => BlankInv'
<1> SUFFICES ASSUME TypeInv, BlankInv, [Next]_vars PROVE BlankInv'
  OBVIOUS
<1> DEFINE Early == {"new", "authorising", "renewing", "expiring"}
<1>1. ASSUME NEW r \in Requests, Arrive(r) \/ Continue(r)
      PROVE  phase'[r] \in Early => phase[r] \in Early /\ seen'[r] = seen[r]
  <2>0. phase \in [Requests -> Phases]
    BY DEF TypeInv, TypeOK
  <2>1. CASE \E a \in Addresses : Signup(r, a) \/ Login(r, a)
    BY <2>0, <2>1 DEF Signup, Login, Acquire, Move
  <2>2. CASE (\E k \in Tokens : Present(r, k) \/ Logout(r, k)) \/ ReadSession(r)
    BY <2>0, <2>2 DEF Present, Logout, ReadSession, Move
  <2>3. CASE Hashed(r) \/ ReadLocked(r) \/ Authorised(r)
    BY <2>0, <2>3 DEF Hashed, ReadLocked, Authorised, Move
  <2>4. CASE Store(r) \/ Reply(r) \/ Open(r) \/ Renew(r) \/ Remove(r)
    BY <2>0, <2>4 DEF Store, Reply, Open, Renew, Remove, Move
  <2>5. QED
    BY <1>1, <2>1, <2>2, <2>3, <2>4 DEF Arrive, Continue
<1>2. QED
  BY <1>1, StepKinds DEF BlankInv

\* What is in hand stays the account or an older state of it.
LEMMA CopyStep == TypeInv /\ BlankInv /\ FreshInv /\ CopyInv /\ [Next]_vars => CopyInv'
<1> SUFFICES ASSUME TypeInv, BlankInv, FreshInv, CopyInv, [Next]_vars PROVE CopyInv'
  OBVIOUS
<1>1. ASSUME NEW r \in Requests, Arrive(r) \/ Continue(r)
      PROVE  \/ \/ address'[r] = address[r] /\ seen'[r] = seen[r]
                \/ seen'[r] = NoAccount
                \/ address'[r] \in Addresses /\ seen'[r] = accounts[address'[r]]
             \/ Store(r)
  <2>0. /\ seen \in [Requests -> Account] /\ address \in [Requests -> Addresses \cup {NoOne}]
    BY DEF TypeInv, TypeOK
  <2>1. ASSUME NEW a \in Addresses, Signup(r, a) PROVE seen'[r] = NoAccount
    BY <2>1 DEF Signup, BlankInv
  <2>2. ASSUME NEW a \in Addresses, Login(r, a)
        PROVE  address'[r] \in Addresses /\ seen'[r] = accounts[address'[r]]
    BY <2>0, <2>2 DEF Login
  <2>3. CASE ReadSession(r)
    BY <2>3 DEF ReadSession, BlankInv
  <2>4. CASE ReadLocked(r) \/ Authorised(r)
    BY <2>0, <2>4 DEF ReadLocked, Authorised, TypeInv, RouteInv, Route
  <2>5. CASE \/ Hashed(r) \/ Reply(r) \/ Open(r) \/ Renew(r) \/ Remove(r)
             \/ \E k \in Tokens : Present(r, k) \/ Logout(r, k)
    BY <2>5 DEF Hashed, Reply, Open, Renew, Remove, Present, Logout
  <2>6. QED
    BY <1>1, <2>1, <2>2, <2>3, <2>4, <2>5 DEF Arrive, Continue
<1>2. ASSUME NEW r \in Requests, Arrive(r) \/ Continue(r),
             \A q \in Requests \ {r} : address'[q] = address[q] /\ seen'[q] = seen[q]
      PROVE  CopyInv'
  <2>1. CASE accounts' = accounts
    <3>1. CASE Store(r)
      <4>1. UNCHANGED address
        BY <3>1 DEF Store
      <4>2. CASE UNCHANGED seen
        BY <1>2, <2>1, <4>1, <4>2, CopyRead DEF TypeInv
      <4>3. CASE accounts' = [accounts EXCEPT ![address[r]] = Written(r)]
                 /\ seen' = [seen EXCEPT ![r] = Written(r)]
        BY <3>1, <4>1, <4>3, CopyStored DEF Store
      <4>4. QED
        BY <3>1, <4>2, <4>3 DEF Store
    <3>2. CASE ~Store(r)
      BY <1>1, <1>2, <2>1, <3>2, CopyRead DEF TypeInv
    <3>3. QED
      BY <3>1, <3>2
  <2>2. CASE accounts' # accounts
    BY <1>2, <2>2, OnlyStore, CopyStored
  <2>3. QED
    BY <2>1, <2>2
<1>3. CASE UNCHANGED <<accounts, address, seen>>
  BY <1>3 DEF CopyInv
<1>4. QED
  BY <1>2, <1>3, StepKinds

\* A writer's copy stays fresh until it writes: nobody else may.
LEMMA FreshStep == TypeInv /\ FreshInv /\ [Next]_vars => FreshInv'
<1> SUFFICES ASSUME TypeInv, FreshInv, [Next]_vars PROVE FreshInv'
  OBVIOUS
<1> DEFINE Fresh(q) ==
        phase[q] = "storing" =>
            /\ kind[q] = "signup" => accounts[address[q]] = NoAccount
            /\ kind[q] # "signup" => /\ seen[q] = accounts[address[q]]
                                     /\ accounts[address[q]] # NoAccount
<1>1. ASSUME NEW r \in Requests, Arrive(r) \/ Continue(r) PROVE Fresh(r)'
  <2>0. /\ phase \in [Requests -> Phases] /\ seen \in [Requests -> Account]
    BY DEF TypeInv, TypeOK
  <2>1. CASE ReadLocked(r)
    BY <2>0, <2>1 DEF ReadLocked, Move, files
  <2>2. CASE \E a \in Addresses : Signup(r, a) \/ Login(r, a)
    BY <2>0, <2>2 DEF Signup, Login, Acquire, Move
  <2>3. CASE (\E k \in Tokens : Present(r, k) \/ Logout(r, k)) \/ ReadSession(r)
    BY <2>0, <2>3 DEF Present, Logout, ReadSession, Move
  <2>4. CASE Hashed(r) \/ Authorised(r)
    BY <2>0, <2>4 DEF Hashed, Authorised, Move
  <2>5. CASE Store(r) \/ Reply(r) \/ Open(r) \/ Renew(r) \/ Remove(r)
    BY <2>0, <2>5 DEF Store, Reply, Open, Renew, Remove, Move
  <2>6. QED
    BY <1>1, <2>1, <2>2, <2>3, <2>4, <2>5 DEF Arrive, Continue
<1>2. ASSUME NEW r \in Requests, Arrive(r) \/ Continue(r), NEW q \in Requests \ {r},
             phase'[q] = phase[q], kind'[q] = kind[q], address'[q] = address[q],
             seen'[q] = seen[q]
      PROVE  Fresh(q)'
  <2>1. CASE accounts' = accounts
    BY <1>2, <2>1 DEF FreshInv
  <2>2. CASE phase[r] = "storing" /\ accounts' = [accounts EXCEPT ![address[r]] = Written(r)]
    <3>1. phase[q] = "storing" => address[q] # address[r]
      BY <2>2, <1>2 DEF TypeInv, LockInv, Holds
    <3>2. phase[q] = "storing" => accounts'[address[q]] = accounts[address[q]]
      BY <2>2, <3>1 DEF TypeInv, TypeOK, LockInv, Holds
    <3>3. QED
      BY <1>2, <3>2 DEF FreshInv
  <2>3. QED
    BY <1>2, <2>1, <2>2, OnlyStore
<1>3. CASE /\ UNCHANGED <<accounts, kind, address, seen>>
           /\ \A q \in Requests : phase'[q] \in {phase[q], "dropped"}
  BY <1>3 DEF FreshInv
<1>4. (\A q \in Requests : Fresh(q)') => FreshInv'
  BY DEF FreshInv
<1>5. QED
  BY <1>1, <1>2, <1>3, <1>4, StepKinds

\* Where an account is, the next state of it has what it has.
LEMMA AccountsGrow ==
    ASSUME TypeInv, FreshInv, CopyInv, [Next]_vars, NEW a \in Addresses
    PROVE  /\ accounts[a].owner \in Requests => accounts'[a].owner = accounts[a].owner
           /\ accounts[a].applied \subseteq accounts'[a].applied
           /\ accounts[a].revision <= accounts'[a].revision
<1>0. accounts \in [Addresses -> Account] /\ accounts[a].revision \in Nat
  BY RevisionTypes DEF TypeInv, TypeOK
<1>1. CASE accounts' = accounts
  BY <1>0, <1>1
<1>2. ASSUME NEW r \in Requests, phase[r] = "storing",
             accounts' = [accounts EXCEPT ![address[r]] = Written(r)]
      PROVE  /\ accounts[a].owner \in Requests => accounts'[a].owner = accounts[a].owner
             /\ accounts[a].applied \subseteq accounts'[a].applied
             /\ accounts[a].revision <= accounts'[a].revision
  <2>1. CASE address[r] = a
    <3>1. accounts'[a] = Written(r)
      BY <1>0, <1>2, <2>1
    <3>2. QED
      BY <1>0, <1>2, <2>1, <3>1, StoreGrows
  <2>2. CASE address[r] # a
    BY <1>0, <1>2, <2>2
  <2>3. QED
    BY <2>1, <2>2
<1>3. QED
  BY <1>1, <1>2, StepKinds, OnlyStore

\* What is written for a request stays written.
LEMMA KeptStep == TypeInv /\ FreshInv /\ CopyInv /\ KeptInv /\ [Next]_vars => KeptInv'
<1> SUFFICES ASSUME TypeInv, FreshInv, CopyInv, KeptInv, [Next]_vars PROVE KeptInv'
  OBVIOUS
<1> DEFINE Kept(q) ==
        /\ phase[q] \in {"opening", "confirmed"} /\ kind[q] = "signup"
           => accounts[address[q]].owner = q
        /\ phase[q] \in {"stored", "confirmed"} /\ kind[q] = "push"
           => q \in accounts[address[q]].applied
<1>0. /\ phase \in [Requests -> Phases] /\ accounts \in [Addresses -> Account]
      /\ kind \in [Requests -> Kinds]
      /\ \A q \in Requests : Route(q) /\ Kept(q)
  BY DEF TypeInv, TypeOK, RouteInv, KeptInv
<1>1. \* What was kept for a request stays.
      ASSUME NEW q \in Requests, address'[q] = address[q], kind'[q] = kind[q],
             phase'[q] \in {"stored", "opening", "confirmed"} =>
                \/ phase'[q] = phase[q]
                \/ phase'[q] = "confirmed" /\ phase[q] \in {"stored", "opening"}
                \/ phase'[q] \in {"opening", "confirmed"} /\ kind[q] \in {"login", "read"}
      PROVE  Kept(q)'
  <2>1. \A a \in Addresses :
           /\ accounts[a].owner \in Requests => accounts'[a].owner = accounts[a].owner
           /\ accounts[a].applied \subseteq accounts'[a].applied
    BY AccountsGrow
  <2>2. CASE kind[q] = "signup" /\ phase'[q] \in {"opening", "confirmed"}
    <3>1. phase[q] \in {"opening", "confirmed"} /\ address[q] \in Addresses
      BY <1>0, <1>1, <2>2 DEF Route
    <3>2. accounts[address[q]].owner = q
      BY <1>0, <2>2, <3>1
    <3>3. QED
      BY <1>1, <2>1, <2>2, <3>1, <3>2
  <2>3. CASE kind[q] = "push" /\ phase'[q] \in {"stored", "confirmed"}
    <3>1. phase[q] \in {"stored", "confirmed"} /\ address[q] \in Addresses
      BY <1>0, <1>1, <2>3 DEF Route
    <3>2. q \in accounts[address[q]].applied
      BY <1>0, <2>3, <3>1
    <3>3. QED
      BY <1>1, <2>1, <2>3, <3>1, <3>2
  <2>4. QED
    BY <1>1, <2>2, <2>3
<1>2. ASSUME NEW r \in Requests, Arrive(r) \/ Continue(r) PROVE Kept(r)'
  <2>1. CASE Store(r)
    <3>1. phase[r] = "storing" /\ UNCHANGED <<kind, address>> /\ address[r] \in Addresses
      BY <1>0, <2>1 DEF Store, Route
    <3>2. CASE /\ accounts' = [accounts EXCEPT ![address[r]] = Written(r)]
               /\ Move(r, IF kind[r] = "signup" THEN "opening" ELSE "stored")
      <4>1. accounts'[address[r]] = Written(r)
        BY <1>0, <3>1, <3>2
      <4>2. phase'[r] = IF kind[r] = "signup" THEN "opening" ELSE "stored"
        BY <1>0, <3>2 DEF Move
      <4>3. QED
        BY <3>1, <4>1, <4>2, StoreGrows
    <3>3. CASE Move(r, "failed")
      BY <1>0, <3>3 DEF Move
    <3>4. QED
      BY <2>1, <3>2, <3>3 DEF Store
  <2>2. CASE \E a \in Addresses : Signup(r, a) \/ Login(r, a)
    BY <1>0, <2>2 DEF Signup, Login, Acquire, Move
  <2>3. CASE \E k \in Tokens : Present(r, k) \/ Logout(r, k)
    BY <1>0, <2>3 DEF Present, Logout, Move
  <2>4. CASE ReadSession(r)
    BY <1>0, <2>4 DEF ReadSession, Move
  <2>5. CASE Hashed(r) \/ ReadLocked(r) \/ Authorised(r)
    <3>1. /\ UNCHANGED <<kind, address>>
          /\ phase'[r] \in {"stored", "opening", "confirmed"} =>
                phase'[r] \in {"opening", "confirmed"} /\ kind[r] \in {"login", "read"}
      BY <1>0, <2>5 DEF Hashed, ReadLocked, Authorised, Move
    <3>2. QED
      BY <1>1, <3>1
  <2>6. CASE Reply(r) \/ Open(r)
    <3>1. /\ UNCHANGED <<kind, address>>
          /\ phase[r] \in {"stored", "opening"} /\ phase'[r] \in {"confirmed", "failed"}
      BY <1>0, <2>6 DEF Reply, Open, Move
    <3>2. QED
      BY <1>1, <3>1
  <2>7. CASE Renew(r) \/ Remove(r)
    BY <1>0, <2>7 DEF Renew, Remove, Move
  <2>8. QED
    BY <1>2, <2>1, <2>2, <2>3, <2>4, <2>5, <2>6, <2>7 DEF Arrive, Continue
<1>3. ASSUME NEW q \in Requests, address'[q] = address[q], kind'[q] = kind[q],
             phase'[q] \in {phase[q], "dropped"}
      PROVE  Kept(q)'
  BY <1>1, <1>3
<1>4. (\A q \in Requests : Kept(q)') => KeptInv'
  BY DEF KeptInv
<1>5. QED
  BY <1>2, <1>3, <1>4, StepKinds

-----------------------------------------------------------------------------

\* All that holds together in every state of the service.
ServiceInv == TypeInv /\ BlankInv /\ FreshInv /\ CopyInv /\ KeptInv

\* It holds at first ...
LEMMA ServiceInit == Init => ServiceInv
<1> SUFFICES ASSUME Init PROVE ServiceInv
  OBVIOUS
<1>1. /\ \A a \in Addresses : accounts[a] = NoAccount
      /\ \A r \in Requests : seen[r] = NoAccount /\ phase[r] = "new" /\ address[r] = NoOne
  BY DEF Init
<1>2. BlankInv /\ FreshInv /\ KeptInv
  BY <1>1 DEF BlankInv, FreshInv, KeptInv
<1>3. CopyInv
  BY <1>1, NoAccountType DEF CopyInv
<1>4. QED
  BY <1>2, <1>3, TypeInit DEF ServiceInv

\* ... and each step keeps it ...
LEMMA ServiceStep == ServiceInv /\ [Next]_vars => ServiceInv'
BY TypeStep, BlankStep, FreshStep, CopyStep, KeptStep DEF ServiceInv

\* ... so it holds always.
LEMMA ServiceAlways == Spec => []ServiceInv
BY ServiceInit, ServiceStep, PTL DEF Spec

\* A confirmed signup keeps its address and a confirmed push stays applied, over
\* any order of writers and any number of restarts.
THEOREM ConfirmedStays == Spec => []ConfirmedIsKept
<1>1. ServiceInv => ConfirmedIsKept
  BY DEF ServiceInv, KeptInv, ConfirmedIsKept
<1>2. QED
  BY <1>1, ServiceAlways, PTL

\* Two replies with the same revision carry the same record.
THEOREM RevisionsAreNames == Spec => []RevisionNamesState
<1>1. ServiceInv => RevisionNamesState
  <2> SUFFICES ASSUME ServiceInv, NEW r \in Requests, NEW s \in Requests,
                      phase[r] = "confirmed", kind[r] # "logout",
                      address[r] = address[s], seen[r].revision = seen[s].revision
               PROVE  seen[r] = seen[s]
    BY DEF RevisionNamesState
  <2>1. address[r] \in Addresses
    BY DEF ServiceInv, TypeInv, RouteInv, Route
  <2>2. QED
    BY <2>1 DEF ServiceInv, CopyInv
<1>2. QED
  BY <1>1, ServiceAlways, PTL

\* No step takes an account from its owner, changes from it, or its revision back.
THEOREM AccountsKeepGrowing == Spec => AccountsOnlyGrow
<1>1. ServiceInv /\ [Next]_vars
      => \A a \in Addresses : accounts[a] # NoAccount =>
            /\ accounts'[a].owner = accounts[a].owner
            /\ accounts[a].applied \subseteq accounts'[a].applied
            /\ accounts[a].revision <= accounts'[a].revision
  <2> SUFFICES ASSUME ServiceInv, [Next]_vars, NEW a \in Addresses, accounts[a] # NoAccount
               PROVE  /\ accounts'[a].owner = accounts[a].owner
                      /\ accounts[a].applied \subseteq accounts'[a].applied
                      /\ accounts[a].revision <= accounts'[a].revision
    OBVIOUS
  <2>1. TypeInv /\ FreshInv /\ CopyInv /\ accounts[a].owner \in Requests
    BY DEF ServiceInv, CopyInv
  <2>2. QED
    BY <2>1, AccountsGrow
<1>2. QED
  BY <1>1, ServiceAlways, PTL DEF Spec, AccountsOnlyGrow

-----------------------------------------------------------------------------
\* The sign-in pages.

\* The forms are well-formed and of this site.
FormsAreInside == form \in [Tabs -> Form] /\ LandsInside

\* A call that will set a password has had it looked up, and knows whose it is.
FitCall(c, excused) ==
    /\ c.op \in {"signup", "update"} => c.password \notin {"short", "breached"} \ excused
    /\ c.op = "breach" => c.password # "short" /\ c.goal \in {"signup", "update"}
    /\ c.op = "breach" /\ c.goal = "signup" => c.email \in Emails
    /\ c.op \in {"signup", "login", "reset"} => c.email \in Emails

CallsAreFit ==
    /\ call \in [Tabs -> Call]
    /\ \A t \in Tabs : FitCall(call[t], unchecked)

AccountsAreFit == users \in [Emails -> User] /\ PasswordsAreFit

\* What the reset page shows depends on the rate limit only.
ToldIsBlind == \A x \in told : x.shows = IF x.limited THEN "limited" ELSE "linkSent"

SignInInv ==
    /\ AccountsAreFit /\ letters \subseteq Letter /\ cookie \in Emails \cup {Nobody}
    /\ FormsAreInside /\ CallsAreFit /\ ToldIsBlind

-----------------------------------------------------------------------------
\* The parts of a step.

Screens == {"home", "login", "signup", "checkMail", "reset", "linkSent", "update",
            "updated", "learn", "asked"}
Notes == {"none", "short", "breached", "refused", "network", "limited", "expired",
          "verify", "auth"}

\* The forms that are shown.
LEMMA FormTypes ==
    /\ \A screen \in Screens : At(screen) \in Form /\ At(screen).screen = screen
    /\ \A screen \in Screens, next \in {"none", "inside", "outside"} :
          LET f == [At(screen) EXCEPT !.next = next] IN f \in Form /\ f.screen = screen
    /\ \A screen \in Screens :
          LET f == [At(screen) EXCEPT !.wait = TRUE] IN f \in Form /\ f.screen = screen
    /\ \A note \in Notes : LoginSaying(note) \in Form /\ LoginSaying(note).screen = "login"
<1>1. \A screen \in Screens : At(screen) \in Form /\ At(screen).screen = screen
  BY DEF At, Form, Screens
<1>2. ASSUME NEW f \in Form
      PROVE  /\ \A next \in {"none", "inside", "outside"} :
                   [f EXCEPT !.next = next] \in Form /\ [f EXCEPT !.next = next].screen = f.screen
             /\ [f EXCEPT !.wait = TRUE] \in Form /\ [f EXCEPT !.wait = TRUE].screen = f.screen
             /\ \A note \in Notes :
                   [f EXCEPT !.note = note] \in Form /\ [f EXCEPT !.note = note].screen = f.screen
  BY DEF Form, Notes
<1>3. "login" \in Screens
  BY DEF Screens
<1> QED
  BY <1>1, <1>2, <1>3 DEF LoginSaying

\* One tab's form becomes another of this site.
LEMMA FormBecomes ==
    ASSUME FormsAreInside, NEW t \in Tabs, NEW f \in Form, f.screen # "elsewhere",
           form' = [form EXCEPT ![t] = f]
    PROVE  FormsAreInside'
BY DEF FormsAreInside, LandsInside

\* A form that leads inside keeps leading inside.
LEMMA ShowsInside ==
    ASSUME FormsAreInside, NEW t \in Tabs, NEW f \in Form, f.screen # "elsewhere", Shows(t, f)
    PROVE  FormsAreInside'
<1>1. form' = form => FormsAreInside'
  BY DEF FormsAreInside, LandsInside
<1> QED
  BY <1>1, FormBecomes DEF Shows

\* A form that stays where it is.
LEMMA NotesInside ==
    ASSUME FormsAreInside, NEW t \in Tabs, NEW b \in BOOLEAN, NEW note \in Notes
    PROVE  /\ [form[t] EXCEPT !.note = note] \in Form
           /\ [form[t] EXCEPT !.note = note].screen # "elsewhere"
           /\ [form[t] EXCEPT !.wait = b] \in Form
           /\ [form[t] EXCEPT !.wait = b].screen # "elsewhere"
           /\ [form[t] EXCEPT !.busy = b, !.note = note] \in Form
           /\ [form[t] EXCEPT !.busy = b, !.note = note].screen # "elsewhere"
<1>1. form[t] \in Form /\ form[t].screen # "elsewhere"
  BY DEF FormsAreInside, LandsInside
<1> DEFINE g == [form[t] EXCEPT !.busy = b]
           h == [g EXCEPT !.note = note]
<1>2. g \in Form /\ g.screen = form[t].screen
  BY <1>1 DEF Form
<1>3. h = [form[t] EXCEPT !.busy = b, !.note = note]
  OBVIOUS
<1>4. h \in Form /\ h.screen = form[t].screen
  <2> HIDE DEF g
  <2> QED
    BY <1>2 DEF Form, Notes
<1> HIDE DEF h
<1> QED
  BY <1>1, <1>3, <1>4 DEF Form, Notes

\* A message on a form changes nothing of where it leads.
LEMMA SaysInside ==
    ASSUME FormsAreInside, NEW t \in Tabs, NEW note \in Notes, Says(t, note)
    PROVE  FormsAreInside'
<1> DEFINE f == [form[t] EXCEPT !.busy = FALSE, !.note = note]
<1>1. f \in Form /\ f.screen # "elsewhere" /\ Shows(t, f)
  BY NotesInside DEF Says
<1> HIDE DEF f
<1> QED
  BY <1>1, ShowsInside

\* One tab's call becomes another fit one, and passwords are excused, never accused.
LEMMA CallBecomes ==
    ASSUME CallsAreFit, NEW t \in Tabs, NEW c \in Call, FitCall(c, unchecked'),
           unchecked \subseteq unchecked', call' = [call EXCEPT ![t] = c]
    PROVE  CallsAreFit'
BY DEF CallsAreFit, FitCall

\* A call that ends sets no password any more.
LEMMA EndsFit ==
    ASSUME CallsAreFit, NEW t \in Tabs, Ends(t), unchecked \subseteq unchecked'
    PROVE  CallsAreFit'
<1>1. NoCall \in Call /\ FitCall(NoCall, unchecked')
  BY DEF NoCall, Call, FitCall
<1> QED
  BY <1>1, CallBecomes DEF Ends

\* What a call is after its page went ...
LEMMA CallUnheard ==
    ASSUME NEW c \in Call, NEW heard \in {"page", "left", "gone"}
    PROVE  \E d \in Call : /\ d = [c EXCEPT !.heard = heard]
                           /\ d.op = c.op /\ d.goal = c.goal /\ d.email = c.email
                           /\ d.password = c.password
<1>1. /\ [c EXCEPT !.heard = heard] \in Call
      /\ [c EXCEPT !.heard = heard].op = c.op /\ [c EXCEPT !.heard = heard].goal = c.goal
      /\ [c EXCEPT !.heard = heard].email = c.email
      /\ [c EXCEPT !.heard = heard].password = c.password
  BY DEF Call
<1> QED
  BY <1>1

\* ... and when it goes on to its next operation.
LEMMA CallGoesOn ==
    ASSUME NEW c \in Call,
           NEW op \in {"none", "breach", "signup", "login", "adopt", "reset", "update"}
    PROVE  \E d \in Call : /\ d = [c EXCEPT !.op = op]
                           /\ d.op = op /\ d.goal = c.goal /\ d.email = c.email
                           /\ d.password = c.password
<1>1. /\ [c EXCEPT !.op = op] \in Call
      /\ [c EXCEPT !.op = op].op = op /\ [c EXCEPT !.op = op].goal = c.goal
      /\ [c EXCEPT !.op = op].email = c.email
      /\ [c EXCEPT !.op = op].password = c.password
  BY DEF Call
<1> QED
  BY <1>1

\* A call with another address is the same call otherwise.
LEMMA CallIsAddressed ==
    ASSUME NEW c \in Call, NEW email \in Emails \cup {Nobody}
    PROVE  \E d \in Call : /\ d = [c EXCEPT !.email = email]
                           /\ d.op = c.op /\ d.goal = c.goal /\ d.email = email
                           /\ d.password = c.password
<1>1. /\ [c EXCEPT !.email = email] \in Call
      /\ [c EXCEPT !.email = email].op = c.op /\ [c EXCEPT !.email = email].goal = c.goal
      /\ [c EXCEPT !.email = email].email = email
      /\ [c EXCEPT !.email = email].password = c.password
  BY DEF Call
<1> QED
  BY <1>1

\* A document is replaced: what it asked goes on at the service, unheard, or not at all.
LEMMA LoadsFit ==
    ASSUME FormsAreInside, CallsAreFit, NEW t \in Tabs, NEW f \in Form,
           f.screen # "elsewhere", Loads(t, f)
    PROVE  FormsAreInside' /\ CallsAreFit' /\ UNCHANGED <<unchecked, told>>
<1>1. FormsAreInside' /\ UNCHANGED <<unchecked, told>>
  BY FormBecomes DEF Loads
<1>2. CallsAreFit'
  <2>0. call[t] \in Call /\ FitCall(call[t], unchecked) /\ call \in [Tabs -> Call]
    BY DEF CallsAreFit
  <2>1. CASE call[t].op \in {"none", "breach", "adopt"}
    <3>1. Ends(t)
      BY <2>0, <2>1 DEF Loads, Ends
    <3> QED
      BY <1>1, <3>1, EndsFit
  <2>2. CASE call[t].op \notin {"none", "breach", "adopt"}
    <3>1. PICK d \in Call : /\ d = [call[t] EXCEPT !.heard = "gone"]
                            /\ d.op = call[t].op /\ d.goal = call[t].goal
                            /\ d.email = call[t].email /\ d.password = call[t].password
      BY <2>0, CallUnheard
    <3>2. call' = [call EXCEPT ![t] = d]
      BY <2>0, <2>2, <3>1 DEF Loads
    <3>3. FitCall(d, unchecked')
      BY <1>1, <2>0, <3>1 DEF FitCall
    <3> QED
      BY <1>1, <3>2, <3>3, CallBecomes
  <2> QED
    BY <2>1, <2>2
<1> QED
  BY <1>1, <1>2

\* The history is only added to, so accounts that were fit stay so.
LEMMA AccountsStayFit ==
    ASSUME AccountsAreFit, users' = users, unchecked \subseteq unchecked'
    PROVE  AccountsAreFit'
BY DEF AccountsAreFit, PasswordsAreFit

-----------------------------------------------------------------------------
\* The steps.

\* The facts that every step starts from, and what is left to show when a step leaves
\* the accounts, the letters, the cookie and the history alone.
LEMMA FormStep ==
    ASSUME SignInInv, UNCHANGED <<service, cookie, unchecked, told>>,
           FormsAreInside', CallsAreFit'
    PROVE  SignInInv'
BY AccountsStayFit DEF SignInInv, service, ToldIsBlind

\* A page that is opened brings an empty form.
LEMMA VisitKeeps ==
    ASSUME SignInInv, NEW t \in Tabs, NEW screen \in Screens,
           NEW next \in {"none", "inside", "outside"}, Visit(t, screen, next)
    PROVE  SignInInv'
<1>0. /\ call \in [Tabs -> Call] /\ call[t] \in Call /\ FitCall(call[t], unchecked)
      /\ FormsAreInside /\ CallsAreFit
      /\ UNCHANGED <<service, cookie, unchecked, told>>
  BY DEF SignInInv, CallsAreFit, Visit
<1>1. FormsAreInside'
  <2>1. PICK f \in Form : f.screen = screen /\ form' = [form EXCEPT ![t] = f]
    BY FormTypes DEF Visit
  <2>2. f.screen # "elsewhere"
    BY <2>1 DEF Screens
  <2> QED
    BY <1>0, <2>1, <2>2, FormBecomes
<1>2. CallsAreFit'
  <2>1. PICK heard \in {"page", "left", "gone"} :
           heard = IF call[t].heard = "page" THEN "left" ELSE call[t].heard
    BY <1>0 DEF Call
  <2>2. PICK d \in Call : /\ d = [call[t] EXCEPT !.heard = heard]
                          /\ d.op = call[t].op /\ d.goal = call[t].goal
                          /\ d.email = call[t].email /\ d.password = call[t].password
    <3>1. call[t] \in Call
      BY <1>0
    <3> QED
      BY <3>1, CallUnheard
  <2>3. call' = [call EXCEPT ![t] = d]
    BY <1>0, <2>1, <2>2 DEF Visit
  <2>4. FitCall(d, unchecked')
    BY <1>0, <2>2 DEF FitCall
  <2> QED
    BY <1>0, <2>3, <2>4, CallBecomes
<1> QED
  BY <1>0, <1>1, <1>2, FormStep

\* A form is sent: the call it makes is fit.
LEMMA AsksKeeps ==
    ASSUME SignInInv, NEW t \in Tabs, UNCHANGED <<service, cookie, unchecked, told>>,
           NEW op \in {"breach", "login", "reset"},
           NEW goal \in {"signup", "login", "reset", "update"},
           NEW email \in Emails \cup {Nobody}, NEW password \in NewPasswords \cup {"none"},
           Asks(t, op, goal, email, password),
           op = "breach" => password # "short" /\ goal \in {"signup", "update"},
           email = Nobody => op = "breach" /\ goal = "update"
    PROVE  SignInInv'
<1>0. FormsAreInside /\ CallsAreFit
  BY DEF SignInInv
<1>1. FormsAreInside'
  <2>1. PICK f \in Form : /\ f = [form[t] EXCEPT !.busy = TRUE, !.note = "none"]
                          /\ f.screen # "elsewhere"
    BY <1>0, NotesInside DEF Notes
  <2>2. form' = [form EXCEPT ![t] = f]
    BY <1>0, <2>1 DEF Asks, FormsAreInside
  <2> QED
    BY <1>0, <2>1, <2>2, FormBecomes
<1>2. CallsAreFit'
  <2> DEFINE c == [op |-> op, goal |-> goal, email |-> email, password |-> password,
                   heard |-> "page", hangs |-> FALSE]
  <2>1. c \in Call
    BY DEF Call
  <2>2. c.op = op /\ c.goal = goal /\ c.email = email /\ c.password = password
    OBVIOUS
  <2>3. call' = [call EXCEPT ![t] = c]
    BY DEF Asks
  <2> HIDE DEF c
  <2>4. FitCall(c, unchecked')
    BY <2>2 DEF FitCall
  <2> QED
    BY <1>0, <2>1, <2>3, <2>4, CallBecomes
<1> QED
  BY <1>1, <1>2, FormStep

\* A password that is chosen is judged before a call carries it.
LEMMA ChooseKeeps ==
    ASSUME SignInInv, NEW t \in Tabs, NEW goal \in {"signup", "update"},
           NEW email \in Emails \cup {Nobody}, NEW password \in NewPasswords,
           email = Nobody => goal = "update",
           ChoosePassword(t, goal, email, password)
    PROVE  SignInInv'
<1>0. FormsAreInside /\ CallsAreFit /\ UNCHANGED <<service, cookie, unchecked, told>>
  BY DEF SignInInv, ChoosePassword, Attempt, learned
<1>1. CASE password = "short"
  <2>1. form' = [form EXCEPT ![t] = [form[t] EXCEPT !.note = "short"]] /\ call' = call
    BY <1>0, <1>1 DEF ChoosePassword, FormsAreInside
  <2>2. /\ [form[t] EXCEPT !.note = "short"] \in Form
        /\ [form[t] EXCEPT !.note = "short"].screen # "elsewhere"
    BY <1>0, NotesInside DEF Notes
  <2>3. FormsAreInside'
    BY <1>0, <2>1, <2>2, FormBecomes
  <2>4. CallsAreFit'
    BY <1>0, <2>1 DEF CallsAreFit
  <2> QED
    BY <1>0, <2>3, <2>4, FormStep
<1>2. CASE password # "short"
  BY <1>0, <1>2, AsksKeeps DEF ChoosePassword
<1> QED
  BY <1>1, <1>2

\* The steps that only a form sees.
LEMMA FormOnlyKeeps ==
    ASSUME SignInInv, NEW t \in Tabs, WaitEnds(t) \/ ProviderUnreached(t)
    PROVE  SignInInv'
<1>0. /\ FormsAreInside /\ CallsAreFit
      /\ UNCHANGED <<service, cookie, call, unchecked, told>>
  BY DEF SignInInv, WaitEnds, ProviderUnreached, learned
<1>1. PICK f \in Form : f.screen # "elsewhere" /\ form' = [form EXCEPT ![t] = f]
  <2>1. form' = [form EXCEPT ![t] = [form[t] EXCEPT !.wait = FALSE]]
        \/ form' = [form EXCEPT ![t] = [form[t] EXCEPT !.note = "network"]]
    BY <1>0 DEF WaitEnds, ProviderUnreached, FormsAreInside
  <2>2. /\ [form[t] EXCEPT !.wait = FALSE] \in Form
        /\ [form[t] EXCEPT !.wait = FALSE].screen # "elsewhere"
        /\ [form[t] EXCEPT !.note = "network"] \in Form
        /\ [form[t] EXCEPT !.note = "network"].screen # "elsewhere"
    BY <1>0, NotesInside DEF Notes
  <2> QED
    BY <2>1, <2>2
<1>2. FormsAreInside'
  BY <1>0, <1>1, FormBecomes
<1>3. CallsAreFit'
  BY <1>0 DEF CallsAreFit
<1> QED
  BY <1>0, <1>2, <1>3, FormStep

\* The list of breached passwords answers, or cannot be asked.
LEMMA LookUpKeeps ==
    ASSUME SignInInv, NEW t \in Tabs, NEW reached \in BOOLEAN, LookUp(t, reached)
    PROVE  SignInInv'
<1>0. /\ FormsAreInside /\ CallsAreFit /\ call[t] \in Call /\ FitCall(call[t], unchecked)
      /\ call \in [Tabs -> Call] /\ cookie \in Emails \cup {Nobody} /\ call[t].op = "breach"
      /\ UNCHANGED <<service, cookie, told>>
  BY DEF SignInInv, CallsAreFit, LookUp
<1>1. CASE reached /\ call[t].password = "breached"
  <2>1. Says(t, "breached") /\ Ends(t) /\ UNCHANGED unchecked
    BY <1>1 DEF LookUp
  <2>2. FormsAreInside' /\ CallsAreFit'
    BY <1>0, <2>1, SaysInside, EndsFit DEF Notes
  <2> QED
    BY <1>0, <2>1, <2>2, FormStep
<1>2. CASE ~(reached /\ call[t].password = "breached")
  <2>1. /\ UNCHANGED form
        /\ unchecked' = IF reached THEN unchecked ELSE unchecked \cup {call[t].password}
    BY <1>2 DEF LookUp
  <2>2. unchecked \subseteq unchecked'
    BY <2>1
  <2>3. PICK email \in Emails \cup {Nobody} :
           email = IF call[t].goal = "update" THEN cookie ELSE call[t].email
    BY <1>0 DEF Call
  <2>4. PICK d \in Call : /\ d = [call[t] EXCEPT !.op = call[t].goal]
                          /\ d.op = call[t].goal /\ d.goal = call[t].goal
                          /\ d.email = call[t].email /\ d.password = call[t].password
    <3>1. PICK c \in Call : c = call[t]
      BY <1>0
    <3>2. c.goal \in {"signup", "update"}
      BY <1>0, <3>1 DEF FitCall
    <3>3. CASE c.goal = "signup"
      <4>1. PICK d \in Call : /\ d = [c EXCEPT !.op = "signup"]
                              /\ d.op = "signup" /\ d.goal = c.goal
                              /\ d.email = c.email /\ d.password = c.password
        BY CallGoesOn
      <4> QED
        BY <3>1, <3>3, <4>1
    <3>4. CASE c.goal = "update"
      <4>1. PICK d \in Call : /\ d = [c EXCEPT !.op = "update"]
                              /\ d.op = "update" /\ d.goal = c.goal
                              /\ d.email = c.email /\ d.password = c.password
        BY CallGoesOn
      <4> QED
        BY <3>1, <3>4, <4>1
    <3> QED
      BY <3>2, <3>3, <3>4
  <2>5. PICK e \in Call : /\ e = [d EXCEPT !.email = email]
                          /\ e.op = d.op /\ e.goal = d.goal /\ e.email = email
                          /\ e.password = d.password
    BY CallIsAddressed
  <2>6. call' = [call EXCEPT ![t] = e]
    BY <1>0, <1>2, <2>3, <2>4, <2>5 DEF LookUp
  <2>7. FitCall(e, unchecked')
    BY <1>0, <1>2, <2>1, <2>3, <2>4, <2>5 DEF FitCall
  <2>8. CallsAreFit'
    BY <1>0, <2>2, <2>6, <2>7, CallBecomes
  <2>9. FormsAreInside'
    BY <1>0, <2>1 DEF FormsAreInside, LandsInside
  <2> QED
    BY <1>0, <2>2, <2>8, <2>9, AccountsStayFit DEF SignInInv, service, ToldIsBlind
<1> QED
  BY <1>1, <1>2

\* A session was made, here or nowhere.
LEMMA EntersFit ==
    ASSUME SignInInv, NEW t \in Tabs, Enters(t), UNCHANGED unchecked
    PROVE  CallsAreFit' /\ cookie' \in Emails \cup {Nobody}
<1>0. /\ CallsAreFit /\ call[t] \in Call /\ FitCall(call[t], unchecked)
      /\ call \in [Tabs -> Call] /\ cookie \in Emails \cup {Nobody}
  BY DEF SignInInv, CallsAreFit
<1>1. CASE call[t].heard = "gone"
  BY <1>0, <1>1, EndsFit DEF Enters
<1>2. CASE call[t].heard # "gone"
  <2>1. call[t] \in Call
    BY <1>0
  <2>2. PICK d \in Call : /\ d = [call[t] EXCEPT !.op = "adopt"]
                          /\ d.op = "adopt" /\ d.goal = call[t].goal
                          /\ d.email = call[t].email /\ d.password = call[t].password
    BY <2>1, CallGoesOn
  <2>3. call' = [call EXCEPT ![t] = d] /\ cookie' = call[t].email
    BY <1>0, <1>2, <2>2 DEF Enters
  <2>4. FitCall(d, unchecked')
    BY <2>2 DEF FitCall
  <2>5. CallsAreFit'
    BY <1>0, <2>3, <2>4, CallBecomes
  <2> QED
    BY <2>1, <2>3, <2>5 DEF Call
<1> QED
  BY <1>1, <1>2

\* One account gets a password of a page, which is fit, or of the route.
LEMMA UserBecomes ==
    ASSUME AccountsAreFit, NEW e \in Emails, NEW u \in User,
           u.by = "page" => u.password \notin {"short", "breached"} \ unchecked,
           users' = [users EXCEPT ![e] = u], UNCHANGED unchecked
    PROVE  AccountsAreFit'
BY DEF AccountsAreFit, PasswordsAreFit

\* Confirming an account keeps its password.
LEMMA UserChanges ==
    ASSUME AccountsAreFit, NEW e \in Emails, UNCHANGED unchecked,
           users' = [users EXCEPT ![e].is = "confirmed"]
    PROVE  AccountsAreFit'
<1>1. users \in [Emails -> User] /\ users[e] \in User
  BY DEF AccountsAreFit
<1>2. users[e].by = "page" => users[e].password \notin {"short", "breached"} \ unchecked
  BY DEF AccountsAreFit, PasswordsAreFit
<1> DEFINE u == [users[e] EXCEPT !.is = "confirmed"]
<1>3. u \in User /\ u.password = users[e].password /\ u.by = users[e].by
  BY <1>1 DEF User
<1>4. users' = [users EXCEPT ![e] = u]
  BY <1>1
<1> HIDE DEF u
<1> QED
  BY <1>2, <1>3, <1>4, UserBecomes

\* Signing up: only a new address gets the password, which was looked up.
LEMMA SignedUpKeeps ==
    ASSUME SignInInv, NEW t \in Tabs, SignedUp(t)
    PROVE  SignInInv'
<1> DEFINE e == call[t].email
<1>0. /\ FormsAreInside /\ CallsAreFit /\ AccountsAreFit /\ letters \subseteq Letter
      /\ cookie \in Emails \cup {Nobody} /\ e \in Emails
      /\ call[t] \in Call /\ FitCall(call[t], unchecked) /\ call[t].op = "signup"
      /\ UNCHANGED <<unchecked, told>>
  BY DEF SignInInv, CallsAreFit, FitCall, SignedUp, learned
<1>m. [kind |-> "signup", to |-> e] \in Letter
  BY <1>0 DEF Letter
<1>f. /\ At("checkMail") \in Form /\ At("checkMail").screen # "elsewhere"
      /\ "refused" \in Notes
  BY FormTypes DEF Screens, Notes
<1>1. CASE users[e].is # "none"
  <2>1. /\ users' = users /\ Ends(t) /\ UNCHANGED cookie
        /\ letters' \subseteq letters \cup {[kind |-> "signup", to |-> e]}
        /\ Shows(t, At("checkMail")) \/ Says(t, "refused")
    BY <1>1 DEF SignedUp
  <2>2. FormsAreInside' /\ CallsAreFit' /\ AccountsAreFit'
    BY <1>0, <1>f, <2>1, ShowsInside, SaysInside, EndsFit, AccountsStayFit
  <2> QED
    BY <1>0, <1>m, <2>1, <2>2 DEF SignInInv, ToldIsBlind
<1>2. CASE users[e].is = "none"
  <2>1. PICK u : u = [is |-> IF confirms THEN "unconfirmed" ELSE "confirmed",
                      password |-> call[t].password, by |-> "page"]
    OBVIOUS
  <2>2. /\ users' = [users EXCEPT ![e] = u]
        /\ letters' \subseteq letters \cup {[kind |-> "signup", to |-> e]}
        /\ \/ Shows(t, At("checkMail")) /\ Ends(t) /\ UNCHANGED cookie
           \/ form' = form /\ Enters(t)
    BY <1>2, <2>1 DEF SignedUp
  <2>3. call[t].password \in NewPasswords \cup {"none"}
        /\ call[t].password \notin {"short", "breached"} \ unchecked
    BY <1>0 DEF Call, FitCall
  <2>4. u \in User /\ u.password = call[t].password
    BY <2>1, <2>3 DEF User
  <2>5. AccountsAreFit'
    <3> HIDE DEF e
    <3> QED
      BY <1>0, <2>2, <2>3, <2>4, UserBecomes
  <2>6. FormsAreInside'
    BY <1>0, <1>f, <2>2, ShowsInside DEF FormsAreInside, LandsInside
  <2>7. CallsAreFit' /\ cookie' \in Emails \cup {Nobody}
    BY <1>0, <2>2, EndsFit, EntersFit
  <2> QED
    BY <1>0, <1>m, <2>2, <2>5, <2>6, <2>7 DEF SignInInv, ToldIsBlind
<1> QED
  BY <1>1, <1>2

\* Signing in sets no password.
LEMMA SignedInKeeps ==
    ASSUME SignInInv, NEW t \in Tabs, SignedIn(t)
    PROVE  SignInInv'
<1>0. /\ FormsAreInside /\ CallsAreFit /\ AccountsAreFit /\ letters \subseteq Letter
      /\ cookie \in Emails \cup {Nobody} /\ UNCHANGED <<service, unchecked, told>>
      /\ "refused" \in Notes
  BY DEF SignInInv, SignedIn, learned, Notes
<1>1. (form' = form /\ Enters(t)) \/ (Says(t, "refused") /\ Ends(t) /\ UNCHANGED cookie)
  BY DEF SignedIn
<1>2. FormsAreInside' /\ CallsAreFit' /\ cookie' \in Emails \cup {Nobody}
  BY <1>0, <1>1, SaysInside, EndsFit, EntersFit DEF FormsAreInside, LandsInside
<1> QED
  BY <1>0, <1>2, AccountsStayFit DEF SignInInv, service, ToldIsBlind

\* A call that ends without a session: nothing but a form is changed.
LEMMA EndingKeeps ==
    ASSUME SignInInv, NEW t \in Tabs, NotReached(t) \/ Adopted(t) \/ AdoptionFails(t)
    PROVE  SignInInv'
<1>0. /\ FormsAreInside /\ CallsAreFit /\ Ends(t)
      /\ UNCHANGED <<service, cookie, unchecked, told>>
  BY DEF SignInInv, NotReached, Adopted, AdoptionFails, learned
<1>1. FormsAreInside'
  <2>1. CASE NotReached(t)
    BY <1>0, <2>1, SaysInside DEF NotReached, Notes
  <2>2. CASE Adopted(t)
    <3>1. PICK screen \in {"home", "asked", "learn"} : form' = [form EXCEPT ![t] = At(screen)]
      BY <1>0, <2>2 DEF Adopted, SafeNextPath, FormsAreInside
    <3>2. At(screen) \in Form /\ At(screen).screen # "elsewhere"
      BY <3>1, FormTypes DEF Screens
    <3> QED
      BY <1>0, <3>1, <3>2, FormBecomes
  <2>3. CASE AdoptionFails(t)
    BY <1>0, <2>3 DEF AdoptionFails, FormsAreInside, LandsInside
  <2> QED
    BY <2>1, <2>2, <2>3
<1>2. CallsAreFit'
  BY <1>0, EndsFit
<1> QED
  BY <1>0, <1>1, <1>2, FormStep

\* The reset page's answer.
LEMMA ResetKeeps ==
    ASSUME SignInInv, NEW t \in Tabs, NEW answer \in {"sent", "limited", "unknown"},
           ResetAnswered(t, answer)
    PROVE  SignInInv'
<1>0. /\ FormsAreInside /\ CallsAreFit /\ Ends(t) /\ letters \subseteq Letter
      /\ call[t].op = "reset" /\ call[t] \in Call /\ FitCall(call[t], unchecked)
      /\ UNCHANGED <<confirms, users, cookie, unchecked>>
  BY DEF SignInInv, CallsAreFit, ResetAnswered
<1>1. letters' \subseteq Letter
  BY <1>0 DEF ResetAnswered, Letter, FitCall
<1>2. PICK known, shows :
         /\ told' = told \cup {[limited |-> answer = "limited", known |-> known, shows |-> shows]}
         /\ shows = IF answer = "limited" THEN "limited" ELSE "linkSent"
         /\ IF shows = "limited" THEN Says(t, "limited")
            ELSE Shows(t, [At("linkSent") EXCEPT !.wait = TRUE])
  BY DEF ResetAnswered, ShowsError
<1>3. ToldIsBlind'
  <2> DEFINE x == [limited |-> answer = "limited", known |-> known, shows |-> shows]
  <2>1. x.shows = shows /\ x.limited = (answer = "limited") /\ told' = told \cup {x}
    BY <1>2
  <2> HIDE DEF x
  <2>2. x.shows = IF x.limited THEN "limited" ELSE "linkSent"
    <3>1. CASE answer = "limited"
      <4>1. x.limited /\ x.shows = "limited"
        BY <1>2, <2>1, <3>1
      <4> QED
        BY <4>1
    <3>2. CASE answer # "limited"
      <4>1. ~x.limited /\ x.shows = "linkSent"
        BY <1>2, <2>1, <3>2
      <4> QED
        BY <4>1
    <3> QED
      BY <3>1, <3>2
  <2> QED
    BY <2>1, <2>2 DEF SignInInv, ToldIsBlind
<1>4. FormsAreInside'
  <2>1. /\ [At("linkSent") EXCEPT !.wait = TRUE] \in Form
        /\ [At("linkSent") EXCEPT !.wait = TRUE].screen # "elsewhere"
        /\ "limited" \in Notes
    BY FormTypes DEF Screens, Notes
  <2> QED
    BY <1>0, <1>2, <2>1, SaysInside, ShowsInside
<1>5. CallsAreFit' /\ AccountsAreFit'
  BY <1>0, EndsFit, AccountsStayFit DEF SignInInv
<1> QED
  BY <1>0, <1>1, <1>3, <1>4, <1>5 DEF SignInInv

\* The new password was looked up; or the session is not one any more.
LEMMA UpdatedKeeps ==
    ASSUME SignInInv, NEW t \in Tabs, Updated(t)
    PROVE  SignInInv'
<1> DEFINE e == call[t].email
<1>0. /\ FormsAreInside /\ CallsAreFit /\ AccountsAreFit /\ Ends(t)
      /\ call[t] \in Call /\ FitCall(call[t], unchecked) /\ call[t].op = "update"
      /\ UNCHANGED <<letters, cookie, unchecked, told>>
      /\ "expired" \in Notes /\ At("updated") \in Form /\ At("updated").screen # "elsewhere"
  BY FormTypes DEF SignInInv, CallsAreFit, Updated, learned, Notes, Screens
<1>1. AccountsAreFit' /\ FormsAreInside'
  <2>1. CASE /\ e # Nobody
             /\ users' = [users EXCEPT ![e].password = call[t].password, ![e].by = "page"]
             /\ Shows(t, At("updated"))
    <3>1. call[t].password \in (NewPasswords \cup {"none"}) \ ({"short", "breached"} \ unchecked)
      BY <1>0 DEF Call, FitCall
    <3>2. e \in Emails
      BY <1>0, <2>1 DEF Call
    <3>3. users[e] \in User /\ users \in [Emails -> User]
      BY <1>0, <3>2 DEF AccountsAreFit
    <3> DEFINE u == [users[e] EXCEPT !.password = call[t].password, !.by = "page"]
    <3>4. u \in User /\ u.password = call[t].password
      BY <3>1, <3>3 DEF User
    <3>5. users' = [users EXCEPT ![e] = u]
      BY <2>1, <3>2, <3>3
    <3> HIDE DEF u, e
    <3>6. AccountsAreFit'
      BY <1>0, <3>1, <3>2, <3>4, <3>5, UserBecomes
    <3> QED
      BY <1>0, <2>1, <3>6, ShowsInside
  <2>2. CASE users' = users /\ Says(t, "expired")
    BY <1>0, <2>2, AccountsStayFit, SaysInside
  <2> QED
    BY <2>1, <2>2 DEF Updated
<1>2. CallsAreFit'
  BY <1>0, EndsFit
<1> QED
  BY <1>0, <1>1, <1>2 DEF SignInInv, ToldIsBlind

\* The routes replace the document and make a session of the address that was proven.
LEMMA RoutesKeep ==
    ASSUME SignInInv, NEW t \in Tabs,
           \/ \E l \in letters : OpenLink(t, l)
           \/ \E e \in Emails : Provider(t, e)
           \/ OpenOldLink(t) \/ ProviderFails(t) \/ SignOut(t)
    PROVE  SignInInv'
<1>0. /\ FormsAreInside /\ CallsAreFit /\ AccountsAreFit /\ letters \subseteq Letter
      /\ cookie \in Emails \cup {Nobody}
  BY DEF SignInInv
<1>1. PICK f \in Form : f.screen # "elsewhere" /\ Loads(t, f)
  <2>1. PICK f : /\ Loads(t, f)
                 /\ \/ \E screen \in Screens : f = At(screen)
                    \/ \E note \in Notes : f = LoginSaying(note)
    BY DEF OpenLink, Provider, OpenOldLink, ProviderFails, SignOut, Screens, Notes, SafeNextPath
  <2> QED
    BY <2>1, FormTypes DEF Screens
<1>2. FormsAreInside' /\ CallsAreFit' /\ UNCHANGED <<unchecked, told>>
  BY <1>0, <1>1, LoadsFit
<1>3. AccountsAreFit' /\ letters' \subseteq Letter /\ cookie' \in Emails \cup {Nobody}
  <2>1. ASSUME NEW l \in letters, OpenLink(t, l)
        PROVE  AccountsAreFit' /\ letters' \subseteq Letter /\ cookie' \in Emails
    <3>1. l.to \in Emails
      BY <1>0 DEF Letter
    <3>2. /\ users' = [users EXCEPT ![l.to].is = "confirmed"] /\ cookie' = l.to
          /\ letters' = letters \ {l}
      BY <2>1 DEF OpenLink
    <3>3. AccountsAreFit'
      BY <1>0, <1>2, <3>1, <3>2, UserChanges
    <3> QED
      BY <1>0, <3>1, <3>2, <3>3
  <2>2. ASSUME NEW e \in Emails, Provider(t, e)
        PROVE  AccountsAreFit' /\ letters' = letters /\ cookie' = e
    <3>1. users' = [users EXCEPT ![e].is = "confirmed"] /\ cookie' = e /\ letters' = letters
      BY <2>2 DEF Provider
    <3> QED
      BY <1>0, <1>2, <3>1, UserChanges
  <2>3. OpenOldLink(t) \/ ProviderFails(t) \/ SignOut(t) =>
           UNCHANGED service /\ cookie' \in {cookie, Nobody}
    BY DEF OpenOldLink, ProviderFails, SignOut
  <2>4. UNCHANGED service => AccountsAreFit' /\ letters' = letters
    BY <1>0, <1>2, AccountsStayFit DEF service
  <2> QED
    BY <1>0, <2>1, <2>2, <2>3, <2>4
<1> QED
  BY <1>2, <1>3 DEF SignInInv, ToldIsBlind

\* The route asks nothing of a password, and says whose it is.
LEMMA RouteSignUpKeeps ==
    ASSUME SignInInv, NEW e \in Emails, NEW p \in NewPasswords, RouteSignUp(e, p)
    PROVE  SignInInv'
<1>0. /\ FormsAreInside /\ CallsAreFit /\ AccountsAreFit /\ letters \subseteq Letter
      /\ cookie \in Emails \cup {Nobody} /\ UNCHANGED <<form, call, unchecked, told>>
  BY DEF SignInInv, RouteSignUp, learned
<1>1. PICK u \in User : u.by = "route" /\ users' = [users EXCEPT ![e] = u]
  <2>1. [is |-> IF confirms THEN "unconfirmed" ELSE "confirmed", password |-> p,
         by |-> "route"] \in User
    BY DEF User
  <2> QED
    BY <2>1 DEF RouteSignUp
<1>2. AccountsAreFit'
  BY <1>0, <1>1, UserBecomes
<1>3. letters' \subseteq Letter /\ cookie' \in Emails \cup {Nobody}
  BY <1>0 DEF RouteSignUp, Letter
<1>4. FormsAreInside' /\ CallsAreFit'
  BY <1>0 DEF FormsAreInside, LandsInside, CallsAreFit
<1> QED
  BY <1>0, <1>2, <1>3, <1>4 DEF SignInInv, ToldIsBlind

\* A call that hangs is the same call.
LEMMA HangsKeeps ==
    ASSUME SignInInv, NEW t \in Tabs, Hangs(t)
    PROVE  SignInInv'
<1>0. /\ FormsAreInside /\ CallsAreFit /\ call[t] \in Call /\ FitCall(call[t], unchecked)
      /\ UNCHANGED <<service, cookie, form, unchecked, told>>
  BY DEF SignInInv, CallsAreFit, Hangs, learned
<1>1. PICK d \in Call : /\ d = [call[t] EXCEPT !.hangs = TRUE]
                        /\ d.op = call[t].op /\ d.goal = call[t].goal
                        /\ d.email = call[t].email /\ d.password = call[t].password
  <2> DEFINE d == [call[t] EXCEPT !.hangs = TRUE]
  <2>1. /\ d \in Call /\ d.op = call[t].op /\ d.goal = call[t].goal
        /\ d.email = call[t].email /\ d.password = call[t].password
    BY <1>0 DEF Call
  <2> QED
    BY <2>1
<1>2. call' = [call EXCEPT ![t] = d]
  BY <1>0, <1>1 DEF Hangs, CallsAreFit
<1>3. FitCall(d, unchecked')
  BY <1>0, <1>1 DEF FitCall
<1>4. CallsAreFit' /\ FormsAreInside'
  BY <1>0, <1>2, <1>3, CallBecomes DEF FormsAreInside, LandsInside
<1> QED
  BY <1>0, <1>4, FormStep

-----------------------------------------------------------------------------

\* At first there are no accounts and no calls.
LEMMA SignInStarts == SignInInit => SignInInv
<1> SUFFICES ASSUME SignInInit PROVE SignInInv
  OBVIOUS
<1>1. AccountsAreFit
  BY DEF SignInInit, AccountsAreFit, PasswordsAreFit, User, NewPasswords
<1>2. FormsAreInside
  BY FormTypes DEF SignInInit, FormsAreInside, LandsInside, Screens
<1>3. CallsAreFit
  <2>1. NoCall \in Call /\ FitCall(NoCall, unchecked)
    BY DEF NoCall, Call, FitCall
  <2> QED
    BY <2>1 DEF SignInInit, CallsAreFit
<1> QED
  BY <1>1, <1>2, <1>3 DEF SignInInit, SignInInv, ToldIsBlind

\* Every step of a form, a call or a mail keeps the invariant.
LEMMA SignInStays == SignInInv /\ [SignInNext]_signInVars => SignInInv'
<1> SUFFICES ASSUME SignInInv, [SignInNext]_signInVars PROVE SignInInv'
  OBVIOUS
<1>1. CASE UNCHANGED signInVars
  BY <1>1 DEF signInVars, service, learned, SignInInv, AccountsAreFit, PasswordsAreFit,
              FormsAreInside, LandsInside, CallsAreFit, ToldIsBlind
<1>2. CASE SignInNext
  <2>0. CASE \E e \in Emails, p \in NewPasswords : RouteSignUp(e, p)
    BY <2>0, RouteSignUpKeeps
  <2> SUFFICES ASSUME NEW t \in Tabs, TabNext(t) PROVE SignInInv'
    BY <1>2, <2>0 DEF SignInNext
  <2>2. ASSUME NEW s \in {"login", "signup", "reset", "learn"},
               NEW n \in {"none", "inside", "outside"}, Visit(t, s, n)
        PROVE  SignInInv'
    <3>1. s \in Screens
      BY DEF Screens
    <3> QED
      BY <2>2, <3>1, VisitKeeps
  <2>3. ASSUME NEW e \in Emails, NEW p \in NewPasswords, SignUp(t, e, p) PROVE SignInInv'
    <3>1. e # Nobody
      BY SignInAssumption
    <3> QED
      BY <2>3, <3>1, ChooseKeeps DEF SignUp
  <2>4. ASSUME NEW p \in NewPasswords, Update(t, p) PROVE SignInInv'
    BY <2>4, ChooseKeeps DEF Update
  <2>5. ASSUME NEW e \in Emails, NEW p \in NewPasswords, SubmitLogin(t, e, p) PROVE SignInInv'
    <3>1. /\ e # Nobody /\ UNCHANGED <<service, cookie, unchecked, told>>
          /\ Asks(t, "login", "login", e, p)
      BY <2>5, SignInAssumption DEF SubmitLogin, Attempt, learned
    <3> QED
      BY <3>1, AsksKeeps
  <2>6. ASSUME NEW e \in Emails, SendLink(t, e) PROVE SignInInv'
    <3>1. /\ e # Nobody /\ UNCHANGED <<service, cookie, unchecked, told>>
          /\ Asks(t, "reset", "reset", e, "none")
      BY <2>6, SignInAssumption DEF SendLink, Attempt, learned
    <3> QED
      BY <3>1, AsksKeeps
  <2>7. AnswersCall(t) => SignInInv'
    BY LookUpKeeps, ResetKeeps, SignedUpKeeps, SignedInKeeps, EndingKeeps, UpdatedKeeps DEF AnswersCall
  <2>8. WaitEnds(t) \/ ProviderUnreached(t) \/ Hangs(t) => SignInInv'
    BY FormOnlyKeeps, HangsKeeps
  <2>9. /\ (\E l \in letters : OpenLink(t, l)) => SignInInv'
        /\ (\E e \in Emails : Provider(t, e)) => SignInInv'
        /\ OpenOldLink(t) \/ ProviderFails(t) \/ SignOut(t) => SignInInv'
    BY RoutesKeep
  <2> QED
    BY <2>2, <2>3, <2>4, <2>5, <2>6, <2>7, <2>8, <2>9 DEF TabNext
<1> QED
  BY <1>1, <1>2

\* A password is on its way to the auth service only after the list of breached ones
\* was asked or could not be, and a form is always one of this site.
THEOREM SignInInvariant == SignInSpec => []SignInInv
BY SignInStarts, SignInStays, PTL DEF SignInSpec

\* The sign-in pages set no short password, nor a breached one that the list could be
\* asked about, whatever the other route makes; the reset page tells nothing of who
\* has an account; and every way in ends on this site.
THEOREM SignInKeepsPromises == SignInSpec => []SignInKeepsItsWord
<1>1. SignInInv => SignInTypeOK
  BY DEF SignInInv, SignInTypeOK, AccountsAreFit, FormsAreInside, CallsAreFit
<1>2. SignInInv => SignInIsSound
  BY DEF SignInInv, SignInIsSound, AccountsAreFit, FormsAreInside, ToldIsBlind, ResetIsBlind
<1> QED
  BY SignInInvariant, <1>1, <1>2, PTL DEF SignInKeepsItsWord
=============================================================================
