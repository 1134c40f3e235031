----------------------------- MODULE AccountSync -----------------------------
(***************************************************************************)
(* Devices of one learner sync through an account: public/sync-client.js,  *)
(* its wiring in public/app.js and the POST and GET of sync-server.mjs.    *)
(*                                                                         *)
(* A tab holds three records: what the page works on (`state` of app.js),  *)
(* what its store last settled (`view` of progress-store.js) and, shared   *)
(* with the other tabs of the device, what is saved.  The sync client      *)
(* reads the first and writes through the store.  Its calls wait for each  *)
(* other in a queue, so a tab has one call at a time; between the parts of *)
(* a call the learner goes on, other tabs and devices sync, requests and   *)
(* replies get lost.                                                       *)
(***************************************************************************)
EXTENDS MergeRules

CONSTANTS Tabs, Devices, DeviceOf,
          MaxEdits, MaxPractice, MaxJoins, MaxReloads,           \* bounds
          MaxLost, MaxFull, MaxDamaged,
          MayExpire                                              \* sessions that end

ASSUME SyncAssumption == DeviceOf \in [Tabs -> Devices]

Phases == {"idle", "sending", "fetching", "joining",      \* the request is out
           "replied", "fetched", "joined", "refused",     \* the reply is on its way
           "saving", "merging", "replacing",              \* the store is writing
           "reconciled"}                                  \* what a sign-in combined
                                                          \* is still to be pushed

NoSession == 0

\* session: the one a request presents or the reply to a sign-in brings.
Call == [phase: Phases, before: State, changes: Delta, session: Nat, reply: State]
Idle == [phase |-> "idle", before |-> FreshState, changes |-> NoChanges,
         session |-> NoSession, reply |-> FreshState]

Agreement == [known: BOOLEAN, state: State]
NoAgreement == [known |-> FALSE, state |-> FreshState]

VARIABLES created, account, sessions,           \* the service
          stored, epoch, baseline, cookie,      \* per device
          shown, view, pending, generation,     \* per tab: page and store
          booting, signed, token, call,         \* per tab: sync client
          edits, joins, reloads,                \* how much of the bounds is used
          lost, full, damaged,
          practised, unheard,                   \* history: practice in all, and in
                                                \* changes applied but not agreed on;
          takenBack                             \* has a delta lowered the account

service == <<created, account, sessions>>
disk == <<stored, epoch>>
session == <<baseline, cookie, booting, signed, token>>
page == <<shown, view, pending, generation>>
bounds == <<edits, joins, reloads, lost, full, damaged>>
storageFaults == <<full, damaged>>
history == <<practised, unheard, takenBack>>
vars == <<service, disk, session, page, call, bounds, history>>

-----------------------------------------------------------------------------

D(t) == DeviceOf[t]

\* readState(), as every caller reads it.
ReadState(t) == SanitizeState(shown[t])

\* read() of the store.
Saved(t) == SanitizeState(stored[D(t)])

Phase(t) == call[t].phase

\* progressStore.save(next): the store's view moves, the page does not.
StoreSave(t, next) ==
    /\ pending' = [pending EXCEPT ![t] = Compose(@, ProgressChanges(view[t], next))]
    /\ view' = [view EXCEPT ![t] = next]

\* publish(next) and the page's onChange: the page follows what the store
\* settled, keeping its own difference to the view.  If only the order of the
\* record's entries changed, onChange may run or not.
Publish(t, next) ==
    LET followed == ApplyProgressChanges(next, ProgressChanges(view[t], shown[t])) IN
    /\ view' = [view EXCEPT ![t] = next]
    /\ shown' \in {[shown EXCEPT ![t] = followed]} \cup
                  (IF next = view[t] THEN {shown} ELSE {})

Init == /\ created = FALSE /\ account = FreshState /\ sessions = {}
        /\ stored = [d \in Devices |-> FreshState]
        /\ epoch = [d \in Devices |-> 0]
        /\ baseline = [d \in Devices |-> NoAgreement]
        /\ cookie = [d \in Devices |-> NoSession]
        /\ shown = [t \in Tabs |-> FreshState]
        /\ view = [t \in Tabs |-> FreshState]
        /\ pending = [t \in Tabs |-> NoChanges]
        /\ generation = [t \in Tabs |-> 0]
        /\ booting = [t \in Tabs |-> TRUE]
        /\ signed = [t \in Tabs |-> FALSE]
        /\ token = [t \in Tabs |-> NoSession]
        /\ call = [t \in Tabs |-> Idle]
        /\ edits = 0 /\ joins = 0 /\ reloads = 0
        /\ lost = 0 /\ full = 0 /\ damaged = 0
        /\ practised = 0 /\ unheard = 0 /\ takenBack = FALSE

-----------------------------------------------------------------------------

\* A gesture edits the page's record and saves it; other events save it as it is.
Save(t) ==
    \E next \in {s \in Edits(shown[t]) : s.focusSeconds = shown[t].focusSeconds}
                  \cup {shown[t]} :
      /\ IF next = shown[t] THEN view[t] # next /\ edits' = edits
         ELSE edits < MaxEdits /\ edits' = edits + 1
      /\ shown' = [shown EXCEPT ![t] = next]
      /\ StoreSave(t, next)
      /\ UNCHANGED <<service, disk, session, generation, call, joins, reloads, lost, storageFaults, history>>

Fenced(t) == generation[t] # epoch[D(t)]
Blocked(t) == Fenced(t) \/ Conflicts(Saved(t), pending[t])

\* The store writes its changes, with the practice a running timer earned.  Its
\* calls run in the order they were made, so none overtakes a replace.
Flush(t) ==
    /\ Phase(t) # "replacing" /\ ~Blocked(t)
    /\ \E credit \in {0, 1} :
         LET merged == ApplyProgressChanges(Saved(t), pending[t])
             next == [merged EXCEPT !.focusSeconds = @ + credit] IN
         /\ pending[t] # NoChanges \/ credit = 1
         /\ practised + credit <= MaxPractice
         /\ practised' = practised + credit
         /\ stored' = [stored EXCEPT ![D(t)] = next]
         /\ Publish(t, next)
    /\ pending' = [pending EXCEPT ![t] = NoChanges]
    /\ UNCHANGED <<service, epoch, session, generation, call, bounds, unheard, takenBack>>

\* progressStore.sync(), on a storage or focus event.
Follow(t) ==
    /\ Phase(t) # "replacing" /\ pending[t] = NoChanges
    /\ view[t] # Saved(t) \/ Fenced(t)
    /\ Publish(t, Saved(t))
    /\ generation' = [generation EXCEPT ![t] = epoch[D(t)]]
    /\ UNCHANGED <<service, disk, session, pending, call, bounds, history>>

\* History: the account has practice of this device that the device will send again.
Disagrees(practice) ==
    unheard' = IF practice > 0 THEN unheard + practice ELSE unheard
GivesUp(t) == /\ IF Phase(t) = "replied" THEN Disagrees(call[t].changes.focusSeconds)
                 ELSE unheard' = unheard
              /\ UNCHANGED <<practised, takenBack>>

\* The page is closed or dies, whatever it was doing, and opened again.
Reload(t) ==
    /\ reloads < MaxReloads /\ reloads' = reloads + 1
    /\ shown' = [shown EXCEPT ![t] = Saved(t)]
    /\ view' = [view EXCEPT ![t] = Saved(t)]
    /\ pending' = [pending EXCEPT ![t] = NoChanges]
    /\ generation' = [generation EXCEPT ![t] = epoch[D(t)]]
    /\ booting' = [booting EXCEPT ![t] = TRUE]
    /\ signed' = [signed EXCEPT ![t] = FALSE]
    /\ token' = [token EXCEPT ![t] = NoSession]
    /\ call' = [call EXCEPT ![t] = Idle]
    /\ GivesUp(t)
    /\ UNCHANGED <<service, disk, baseline, cookie, edits, joins, lost, storageFaults>>

\* The record of the agreement no longer parses and counts as none.
Damage(t) ==
    /\ baseline[D(t)].known
    /\ damaged < MaxDamaged /\ damaged' = damaged + 1
    /\ baseline' = [baseline EXCEPT ![D(t)] = NoAgreement]
    /\ UNCHANGED <<service, disk, cookie, booting, signed, token, page, call,
                   edits, joins, reloads, lost, full, history>>

-----------------------------------------------------------------------------

\* The service takes the cookie before the bearer token of the page.
Presented(t) == IF cookie[D(t)] # NoSession THEN cookie[D(t)] ELSE token[t]

\* restore(), the first call of a page: /api/me says whether the cookie names a
\* live session; no answer is taken for no.
Restore(t) ==
    /\ booting[t]
    /\ booting' = [booting EXCEPT ![t] = FALSE]
    /\ \/ signed' = [signed EXCEPT ![t] = Presented(t) \in sessions] /\ lost' = lost
       \/ signed' = signed /\ lost < MaxLost /\ lost' = lost + 1
    /\ UNCHANGED <<service, disk, baseline, cookie, token, page, call,
                   edits, joins, reloads, storageFaults, history>>

\* login() or signup(), which carries the page's record as the account's first.
\* The session it asks for is named by its number.
Join(t) ==
    /\ Phase(t) = "idle" /\ ~signed[t] /\ ~booting[t]
    /\ joins < MaxJoins /\ joins' = joins + 1
    /\ call' = [call EXCEPT ![t] =
         [Idle EXCEPT !.phase = "joining", !.session = joins', !.before = ReadState(t)]]
    /\ UNCHANGED <<service, disk, session, page, edits, reloads, lost, storageFaults, history>>

\* syncNow() without an agreement on this device asks for the account's record.
Fetch(t) ==
    /\ Phase(t) = "idle" /\ signed[t] /\ ~baseline[D(t)].known
    /\ call' = [call EXCEPT ![t] =
         [Idle EXCEPT !.phase = "fetching", !.session = Presented(t)]]
    /\ UNCHANGED <<service, disk, session, page, bounds, history>>

\* pushDelta(), until its request is out: the difference to the agreement of the
\* device or, right after a sign-in, to the record the service answered with.
Push(t) ==
    \E base \in {baseline[D(t)].state, call[t].reply} :
      /\ \/ Phase(t) = "idle" /\ signed[t] /\ baseline[D(t)].known /\ base = baseline[D(t)].state
         \/ Phase(t) = "reconciled" /\ base = call[t].reply
      /\ call' = [call EXCEPT ![t] =
           [Idle EXCEPT !.phase = "sending", !.session = Presented(t), !.before = ReadState(t),
                        !.changes = ProgressChanges(base, ReadState(t))]]
    /\ UNCHANGED <<service, disk, session, page, bounds, history>>

Enter(t, phase, next) ==
    call' = [call EXCEPT ![t] = [Idle EXCEPT !.phase = phase, !.before = next,
                                             !.reply = call[t].reply]]

Answer(t, phase, given, reply) ==
    call' = [call EXCEPT ![t].phase = phase, ![t].session = given, ![t].reply = reply]

Refuse(t) ==
    Answer(t, "refused", NoSession, FreshState) /\ UNCHANGED <<service, takenBack>>

\* The service answers: changes replayed on the account, its record, or a session
\* for whoever signs in.  updateAccount holds the account's lock, so replaying the
\* changes and writing the file are one step.
Serve(t) ==
    LET presented == call[t].session IN
    /\ \/ /\ Phase(t) = "sending" /\ presented \in sessions
          /\ account' = SanitizeState(ApplyProgressChanges(account, call[t].changes))
          /\ Answer(t, "replied", NoSession, account')
          /\ takenBack' = (takenBack \/ account'.focusSeconds < account.focusSeconds)
          /\ UNCHANGED <<created, sessions>>
       \/ /\ Phase(t) = "fetching" /\ presented \in sessions
          /\ Answer(t, "fetched", NoSession, account)
          /\ UNCHANGED <<service, takenBack>>
       \/ /\ Phase(t) = "joining"
          /\ created' = TRUE
          /\ account' = IF created THEN account ELSE call[t].before
          /\ sessions' = sessions \cup {presented}
          /\ Answer(t, "joined", presented, account')
          /\ takenBack' = takenBack
       \/ Phase(t) \in {"sending", "fetching"} /\ presented \notin sessions /\ Refuse(t)
    /\ UNCHANGED <<disk, session, page, bounds, practised, unheard>>

\* A request or its reply is lost or times out; the call gives up.
Lose(t) ==
    /\ Phase(t) \in {"sending", "fetching", "joining", "replied", "fetched", "joined"}
    /\ lost < MaxLost /\ lost' = lost + 1
    /\ call' = [call EXCEPT ![t] = Idle]
    /\ GivesUp(t)
    /\ UNCHANGED <<service, disk, session, page, edits, joins, reloads, storageFaults>>

\* 401 signs the tab out and leaves the agreement.
SignedOut(t) ==
    /\ Phase(t) = "refused"
    /\ signed' = [signed EXCEPT ![t] = FALSE]
    /\ token' = [token EXCEPT ![t] = NoSession]
    /\ call' = [call EXCEPT ![t] = Idle]
    /\ UNCHANGED <<service, disk, baseline, cookie, booting, page, bounds, history>>

\* writeRecord(): full storage keeps the agreement that was there.
Agree(t, state) ==
    /\ \/ /\ baseline' = [baseline EXCEPT ![D(t)] = [known |-> TRUE, state |-> state]]
          /\ UNCHANGED <<full, unheard>>
       \/ /\ full < MaxFull /\ full' = full + 1
          /\ baseline' = baseline
          /\ Disagrees(state.focusSeconds - baseline[D(t)].state.focusSeconds)
    /\ UNCHANGED <<edits, joins, reloads, lost, damaged, practised, takenBack>>

\* Mutant: the merged record, not the service's, becomes the agreement.
MergeAgreesOnMerged(t) ==
    /\ Phase(t) = "replied"
    /\ LET next == ApplyProgressChanges(call[t].reply,
                     ProgressChanges(call[t].before, ReadState(t))) IN
       Agree(t, next) /\ StoreSave(t, next)
    /\ Enter(t, "saving", FreshState)
    /\ UNCHANGED <<service, disk, cookie, booting, signed, token, shown, generation>>

\* pushDelta(), from its reply to its save: what changed while the request was
\* out is put on top of the account's record.
Merge(t) ==
    /\ Phase(t) = "replied"
    /\ Agree(t, call[t].reply)
    /\ StoreSave(t, ApplyProgressChanges(call[t].reply,
                      ProgressChanges(call[t].before, ReadState(t))))
    /\ Enter(t, "saving", FreshState)
    /\ UNCHANGED <<service, disk, cookie, booting, signed, token, shown, generation>>

\* reconcile(): an agreement of this device is carried on; without one the two
\* records are combined and will replace what the device holds.
Reconcile(t) ==
    LET local == ReadState(t)
        reply == call[t].reply IN
    /\ Phase(t) \in {"fetched", "joined"}
    /\ IF Phase(t) = "joined"
       THEN /\ signed' = [signed EXCEPT ![t] = TRUE]
            /\ token' = [token EXCEPT ![t] = call[t].session]
            /\ cookie' = [cookie EXCEPT ![D(t)] = call[t].session]
       ELSE UNCHANGED <<signed, token, cookie>>
    /\ Agree(t, reply)
    /\ IF baseline[D(t)].known
       THEN /\ StoreSave(t, ApplyProgressChanges(reply,
                              ProgressChanges(baseline[D(t)].state, local)))
            /\ Enter(t, "merging", FreshState)
       ELSE /\ Enter(t, "replacing", AdoptState(reply, local))
            /\ UNCHANGED <<pending, view>>
    /\ UNCHANGED <<service, disk, booting, shown, generation>>

\* progressStore.replace(next), with the page told to take the record as it is.
Replaced(t) ==
    LET next == call[t].before IN
    /\ Phase(t) = "replacing"
    /\ stored' = [stored EXCEPT ![D(t)] = next]
    /\ epoch' = [epoch EXCEPT ![D(t)] = @ + 1]
    /\ generation' = [generation EXCEPT ![t] = epoch[D(t)] + 1]
    /\ shown' = [shown EXCEPT ![t] = next]
    /\ view' = [view EXCEPT ![t] = next]
    /\ pending' = [pending EXCEPT ![t] = NoChanges]
    /\ Enter(t, "reconciled", FreshState)
    /\ UNCHANGED <<service, session, bounds, history>>

\* The save of a merged record ends, written or refused.
SaveEnds(t) ==
    /\ pending[t] = NoChanges \/ Blocked(t)
    /\ \/ Phase(t) = "saving" /\ call' = [call EXCEPT ![t] = Idle]
       \/ Phase(t) = "merging" /\ Enter(t, "reconciled", FreshState)
    /\ UNCHANGED <<service, disk, session, page, bounds, history>>

\* logout(): the device forgets the account even if the service is not told.
Logout(t) ==
    /\ Phase(t) = "idle" /\ signed[t]
    /\ signed' = [signed EXCEPT ![t] = FALSE]
    /\ token' = [token EXCEPT ![t] = NoSession]
    /\ baseline' = [baseline EXCEPT ![D(t)] = NoAgreement]
    /\ \/ /\ sessions' = sessions \ {Presented(t)}
          /\ cookie' = [cookie EXCEPT ![D(t)] = NoSession]
          /\ lost' = lost
       \/ /\ lost < MaxLost /\ lost' = lost + 1
          /\ UNCHANGED <<sessions, cookie>>
    /\ UNCHANGED <<created, account, disk, booting, page, call,
                   edits, joins, reloads, storageFaults, history>>

TabStep(t) == \/ Save(t) \/ Flush(t) \/ Follow(t) \/ Reload(t) \/ Damage(t)
              \/ Restore(t) \/ Join(t) \/ Fetch(t) \/ Push(t)
              \/ Serve(t) \/ Lose(t) \/ SignedOut(t)
              \/ Merge(t) \/ Reconcile(t) \/ Replaced(t) \/ SaveEnds(t)
              \/ Logout(t)

\* readSession() and purgeExpired(): a session ends by itself.
Expire ==
    /\ \E old \in sessions \cap MayExpire : sessions' = sessions \ {old}
    /\ UNCHANGED <<created, account, disk, session, page, call, bounds, history>>

Next == Expire \/ \E t \in Tabs : TabStep(t)

Spec == Init /\ [][Next]_vars

-----------------------------------------------------------------------------

TypeOK == /\ created \in BOOLEAN /\ account \in State
          /\ sessions \subseteq Nat \ {NoSession}
          /\ stored \in [Devices -> State] /\ epoch \in [Devices -> Nat]
          /\ baseline \in [Devices -> Agreement]
          /\ cookie \in [Devices -> Nat]
          /\ shown \in [Tabs -> State] /\ view \in [Tabs -> State]
          /\ pending \in [Tabs -> Delta]
          /\ generation \in [Tabs -> Nat]
          /\ booting \in [Tabs -> BOOLEAN] /\ signed \in [Tabs -> BOOLEAN]
          /\ token \in [Tabs -> Nat]
          /\ call \in [Tabs -> Call]
          /\ \A t \in Tabs : booting[t] => call[t] = Idle /\ ~signed[t]
          /\ \A t \in Tabs : call[t].phase \in {"joining", "joined"} => call[t].session # NoSession
          /\ edits \in Nat /\ joins \in Nat /\ reloads \in Nat
          /\ lost \in Nat /\ full \in Nat /\ damaged \in Nat
          /\ practised \in Nat /\ unheard \in Nat /\ takenBack \in BOOLEAN

\* Only a reply that is not heard or an agreement that is not written can count
\* practice again, and only once each: signing in and out, edits during a call,
\* reloads, damaged agreements and merges in any order never do.  (core.js:
\* "without ever adding a counter to itself".)  Once a delta took practice off the
\* account, each device that still shows it may give it back, so it can come to
\* count once for every one of them.
CountedAgainOnlyUnheard == ~takenBack => account.focusSeconds <= practised + unheard

\* What a device believes the account has, the account has: a lesson missing
\* from the account is missing from the agreement, so the next delta carries it.
AgreementIsOnTheAccount ==
    \A d \in Devices : baseline[d].state.completed \subseteq account.completed

\* One device must not take back another device's work: practice is a delta that
\* adds up, so the account's total never falls.  (core.js: "two devices' study
\* time adds up instead of one replacing the other".)
PracticeAddsUp == [][account.focusSeconds <= account'.focusSeconds]_vars
=============================================================================
