-------------------------- MODULE AccountSyncProofs --------------------------
(***************************************************************************)
(* Syncing through an account, for any number of devices and tabs: the     *)
(* records stay records, no device believes the account has what it lacks, *)
(* and with one tab per device signing out leaves nothing behind and       *)
(* practice is counted once.                                               *)
(***************************************************************************)
EXTENDS AccountSync, MergeLemmas, FiniteSetTheorems

\* The tab's device is a device.
LEMMA DeviceType == ASSUME NEW t \in Tabs PROVE D(t) \in Devices
BY SyncAssumption DEF D

\* What every caller of readState and of the store's read gets is a record.
LEMMA ReadType ==
    ASSUME TypeOK, NEW t \in Tabs
    PROVE  ReadState(t) \in State /\ Saved(t) \in State
<1>1. shown[t] \in State /\ stored[D(t)] \in State
  BY DeviceType DEF TypeOK
<1>2. QED
  BY <1>1, SanitizeType DEF ReadState, Saved

\* The call of a tab that is doing nothing is a call.
LEMMA IdleType == Idle \in Call
BY FreshStateType, NoChangesType DEF Idle, Call, Phases, NoSession

\* Saving keeps the types of the store's variables.
LEMMA StoreSaveType ==
    ASSUME TypeOK, NEW t \in Tabs, NEW next \in State, StoreSave(t, next)
    PROVE  pending' \in [Tabs -> Delta] /\ view' \in [Tabs -> State]
<1>1. view[t] \in State /\ pending[t] \in Delta
  BY DEF TypeOK
<1>2. Compose(pending[t], ProgressChanges(view[t], next)) \in Delta
  BY <1>1, ChangesType, ComposeType
<1>3. QED
  BY <1>2 DEF StoreSave, TypeOK

\* The page following its store keeps the types of both.
LEMMA PublishType ==
    ASSUME TypeOK, NEW t \in Tabs, NEW next \in State, Publish(t, next)
    PROVE  shown' \in [Tabs -> State] /\ view' \in [Tabs -> State]
<1>1. view[t] \in State /\ shown[t] \in State
  BY DEF TypeOK
<1>2. ApplyProgressChanges(next, ProgressChanges(view[t], shown[t])) \in State
  BY <1>1, ChangesType, ApplyType
<1>3. QED
  BY <1>2 DEF Publish, TypeOK

\* What a tab presents to the service is the number of a session or none.
LEMMA PresentedType == ASSUME TypeOK, NEW t \in Tabs PROVE Presented(t) \in Nat
BY DeviceType DEF Presented, TypeOK

\* An agreement is stored, or the storage is full and the old one stays.
LEMMA AgreeType ==
    ASSUME TypeOK, NEW t \in Tabs, NEW s \in State, Agree(t, s)
    PROVE  /\ baseline' \in [Devices -> Agreement] /\ full' \in Nat /\ unheard' \in Nat
           /\ UNCHANGED <<edits, joins, reloads, lost, damaged, practised, takenBack>>
<1>1. [known |-> TRUE, state |-> s] \in Agreement
  BY DEF Agreement
<1>2. \/ baseline' = baseline
      \/ baseline' = [baseline EXCEPT ![D(t)] = [known |-> TRUE, state |-> s]]
  BY DEF Agree
<1>3. full' = full \/ full' = full + 1
  BY DEF Agree
<1>7. s.focusSeconds \in Int /\ baseline[D(t)].state.focusSeconds \in Int
  BY DeviceType DEF State, TypeOK, Agreement
<1>8. unheard' = unheard \/ Disagrees(s.focusSeconds - baseline[D(t)].state.focusSeconds)
  BY DEF Agree
<1>9. unheard' \in Nat
  BY <1>7, <1>8 DEF Disagrees, TypeOK
<1>4. baseline' \in [Devices -> Agreement]
  BY <1>1, <1>2 DEF TypeOK
<1>5. full' \in Nat
  BY <1>3 DEF TypeOK
<1>6. QED
  BY <1>4, <1>5, <1>9 DEF Agree

\* The call of a tab that goes on with what it was answered is a call.
LEMMA EnterType ==
    ASSUME TypeOK, NEW t \in Tabs, NEW p \in Phases, NEW next \in State, Enter(t, p, next)
    PROVE  \E c \in Call : /\ c.phase = p /\ c.session = NoSession /\ c.reply = call[t].reply
                           /\ call' = [call EXCEPT ![t] = c]
<1> DEFINE c == [Idle EXCEPT !.phase = p, !.before = next, !.reply = call[t].reply]
<1>1. call[t].reply \in State
  BY DEF TypeOK, Call
<1>2. c \in Call /\ c.phase = p /\ c.session = NoSession /\ c.reply = call[t].reply
  BY <1>1, IdleType DEF Idle, Call
<1>3. call' = [call EXCEPT ![t] = c]
  BY DEF Enter
<1>4. QED
  BY <1>2, <1>3

\* What TypeOK says of the calls.
CallsOK == /\ call \in [Tabs -> Call]
           /\ \A t \in Tabs : booting[t] => call[t] = Idle /\ ~signed[t]
           /\ \A t \in Tabs : call[t].phase \in {"joining", "joined"} => call[t].session # NoSession

\* A tab's call becomes another one; the page is not opening, or does nothing.
LEMMA CallStep ==
    ASSUME TypeOK, NEW t \in Tabs, NEW c \in Call, call' = [call EXCEPT ![t] = c],
           c.phase \in {"joining", "joined"} => c.session # NoSession,
           \A u \in Tabs \ {t} : booting'[u] = booting[u] /\ signed'[u] = signed[u],
           booting'[t] => c = Idle /\ ~signed'[t]
    PROVE  CallsOK'
<1>1. call'[t] = c /\ \A u \in Tabs \ {t} : call'[u] = call[u]
  BY DEF TypeOK
<1>2. call' \in [Tabs -> Call]
  BY DEF TypeOK
<1>3. \A u \in Tabs : booting'[u] => call'[u] = Idle /\ ~signed'[u]
  BY <1>1 DEF TypeOK
<1>4. \A u \in Tabs : call'[u].phase \in {"joining", "joined"} => call'[u].session # NoSession
  BY <1>1 DEF TypeOK, Phase
<1>5. QED
  BY <1>2, <1>3, <1>4 DEF CallsOK, Phase

-----------------------------------------------------------------------------

\* A new learner's records are records.
LEMMA TypeInit == Init => TypeOK
<1> SUFFICES ASSUME Init PROVE TypeOK
  OBVIOUS
<1>1. NoAgreement \in Agreement
  BY FreshStateType DEF NoAgreement, Agreement
<1>2. QED
  BY <1>1, FreshStateType, NoChangesType, IdleType DEF Init, TypeOK, Idle, NoSession

\* No step makes a record that is not one: of the page and its store.
LEMMA TypePage ==
    ASSUME TypeOK, NEW t \in Tabs,
           Save(t) \/ Flush(t) \/ Follow(t) \/ Reload(t) \/ Replaced(t)
    PROVE  TypeOK'
<1> USE DEF vars, service, disk, session, page, bounds, storageFaults, history
<1>0. D(t) \in Devices
  BY DeviceType
<1>1. CASE Save(t)
  <2>1. PICK next \in Edits(shown[t]) \cup {shown[t]} :
          shown' = [shown EXCEPT ![t] = next] /\ StoreSave(t, next)
    BY <1>1 DEF Save
  <2>2. next \in State
    BY EditsType DEF TypeOK
  <2>3. pending' \in [Tabs -> Delta] /\ view' \in [Tabs -> State]
    BY <2>1, <2>2, StoreSaveType
  <2>4. shown' \in [Tabs -> State]
    BY <2>1, <2>2 DEF TypeOK
  <2>5. edits' \in Nat
    BY <1>1 DEF Save, TypeOK
  <2>6. QED
    BY <1>1, <2>3, <2>4, <2>5 DEF Save, TypeOK
<1>2. CASE Flush(t)
  <2>1. PICK credit \in {0, 1} :
          LET merged == ApplyProgressChanges(Saved(t), pending[t])
              next == [merged EXCEPT !.focusSeconds = @ + credit] IN
          /\ practised' = practised + credit
          /\ stored' = [stored EXCEPT ![D(t)] = next]
          /\ Publish(t, next)
    BY <1>2 DEF Flush
  <2> DEFINE merged == ApplyProgressChanges(Saved(t), pending[t])
             next == [merged EXCEPT !.focusSeconds = @ + credit]
  <2>2. merged \in State
    BY ReadType, ApplyType DEF TypeOK
  <2>3. next \in State
    <3> HIDE DEF merged
    <3> QED BY <2>2 DEF State
  <2>4. shown' \in [Tabs -> State] /\ view' \in [Tabs -> State]
    BY <2>1, <2>3, PublishType
  <2>5. stored' \in [Devices -> State]
    BY <2>1, <2>3, <1>0 DEF TypeOK
  <2>6. practised' \in Nat
    BY <2>1 DEF TypeOK
  <2>7. pending' \in [Tabs -> Delta]
    BY <1>2, NoChangesType DEF Flush, TypeOK
  <2>8. QED
    BY <1>2, <2>4, <2>5, <2>6, <2>7 DEF Flush, TypeOK
<1>3. CASE Follow(t)
  <2>1. shown' \in [Tabs -> State] /\ view' \in [Tabs -> State]
    BY <1>3, ReadType, PublishType DEF Follow
  <2>2. generation' \in [Tabs -> Nat]
    BY <1>3, <1>0 DEF Follow, TypeOK
  <2>3. QED
    BY <1>3, <2>1, <2>2 DEF Follow, TypeOK
<1>4. CASE Reload(t)
  <2>1. call[t].changes.focusSeconds > 0 => call[t].changes.focusSeconds \in Nat
    BY DEF TypeOK, Call, Delta
  <2>2. practised' \in Nat /\ unheard' \in Nat /\ takenBack' \in BOOLEAN
    BY <1>4, <2>1 DEF Reload, GivesUp, Disagrees, TypeOK
  <2>3. CallsOK'
    <3>1. /\ call' = [call EXCEPT ![t] = Idle] /\ signed' = [signed EXCEPT ![t] = FALSE]
          /\ booting' = [booting EXCEPT ![t] = TRUE]
      BY <1>4 DEF Reload
    <3>2. /\ ~signed'[t]
          /\ \A u \in Tabs \ {t} : booting'[u] = booting[u] /\ signed'[u] = signed[u]
      BY <3>1 DEF TypeOK
    <3>3. QED
      BY <3>1, <3>2, IdleType, CallStep DEF Idle
  <2>4. generation' \in [Tabs -> Nat]
    BY <1>4, <1>0 DEF Reload, TypeOK
  <2>5. shown' \in [Tabs -> State] /\ view' \in [Tabs -> State] /\ pending' \in [Tabs -> Delta]
    BY <1>4, ReadType, NoChangesType DEF Reload, TypeOK
  <2>6. booting' \in [Tabs -> BOOLEAN] /\ signed' \in [Tabs -> BOOLEAN] /\ reloads' \in Nat
    BY <1>4 DEF Reload, TypeOK
  <2>7. token' \in [Tabs -> Nat]
    BY <1>4 DEF Reload, TypeOK, NoSession
  <2>8. QED
    BY <1>4, <2>2, <2>3, <2>4, <2>5, <2>6, <2>7 DEF Reload, TypeOK, CallsOK
<1>5. CASE Replaced(t)
  <2>1. call[t].before \in State
    BY DEF TypeOK, Call
  <2>2. shown' \in [Tabs -> State] /\ view' \in [Tabs -> State] /\ pending' \in [Tabs -> Delta]
    BY <1>5, <2>1, NoChangesType DEF Replaced, TypeOK
  <2>3. stored' \in [Devices -> State] /\ epoch' \in [Devices -> Nat]
    BY <1>5, <2>1, <1>0 DEF Replaced, TypeOK
  <2>4. generation' \in [Tabs -> Nat]
    BY <1>5, <1>0 DEF Replaced, TypeOK
  <2>5. CallsOK'
    <3>1. Enter(t, "reconciled", FreshState) /\ UNCHANGED <<booting, signed>> /\ ~booting[t]
      BY <1>5 DEF Replaced, Phase, TypeOK, Idle
    <3>2. QED
      BY <3>1, FreshStateType, EnterType, CallStep DEF Phases
  <2>6. QED
    BY <1>5, <2>2, <2>3, <2>4, <2>5 DEF Replaced, TypeOK, CallsOK
<1>6. QED
  BY <1>1, <1>2, <1>3, <1>4, <1>5

\* A call that leaves the queue with records in its fields is a call.
LEMMA AnswerType ==
    ASSUME TypeOK, NEW t \in Tabs, NEW p \in Phases, NEW n \in Nat, NEW r \in State,
           Answer(t, p, n, r)
    PROVE  /\ call' \in [Tabs -> Call]
           /\ call'[t].phase = p /\ call'[t].session = n
           /\ \A u \in Tabs \ {t} : call'[u] = call[u]
<1>1. call[t] \in Call
  BY DEF TypeOK
<1>2. [[[call[t] EXCEPT !.phase = p] EXCEPT !.session = n] EXCEPT !.reply = r] \in Call
  BY <1>1 DEF Call
<1>3. call' = [call EXCEPT ![t] = [[[call[t] EXCEPT !.phase = p] EXCEPT !.session = n] EXCEPT !.reply = r]]
  BY <1>1 DEF Answer, TypeOK
<1>4. QED
  BY <1>2, <1>3 DEF TypeOK

\* No step of the sync client makes a record that is not one.
LEMMA TypeCalls ==
    ASSUME TypeOK, NEW t \in Tabs,
           \/ Restore(t) \/ Join(t) \/ Fetch(t) \/ Push(t) \/ Serve(t) \/ Lose(t)
           \/ SignedOut(t) \/ Merge(t) \/ Reconcile(t) \/ SaveEnds(t) \/ Logout(t)
           \/ Damage(t)
    PROVE  TypeOK'
<1> USE DEF vars, service, disk, session, page, bounds, storageFaults, history
<1>0. /\ D(t) \in Devices
      /\ call[t] \in Call
      /\ baseline[D(t)] \in Agreement
      /\ ReadState(t) \in State
      /\ Idle \in Call
      /\ Presented(t) \in Nat
  BY DeviceType, ReadType, IdleType, PresentedType DEF TypeOK
<1>1. CASE Restore(t)
  <2>1. booting' = [booting EXCEPT ![t] = FALSE] /\ call' = call
    BY <1>1 DEF Restore
  <2>2. signed' = signed \/ \E b \in BOOLEAN : signed' = [signed EXCEPT ![t] = b]
    <3>1. (Presented(t) \in sessions) \in BOOLEAN
      OBVIOUS
    <3>2. signed' = signed \/ signed' = [signed EXCEPT ![t] = Presented(t) \in sessions]
      BY <1>1 DEF Restore
    <3>3. QED
      BY <3>1, <3>2
  <2>3. booting' \in [Tabs -> BOOLEAN] /\ signed' \in [Tabs -> BOOLEAN]
    BY <2>1, <2>2 DEF TypeOK
  <2>4. \A u \in Tabs : booting'[u] => booting[u] /\ signed'[u] = signed[u]
    BY <2>1, <2>2 DEF TypeOK
  <2>5. lost' \in Nat
    BY <1>1 DEF Restore, TypeOK
  <2>6. QED
    BY <1>1, <2>1, <2>3, <2>4, <2>5 DEF Restore, TypeOK, Phase
<1>2. CASE Join(t)
  <2> DEFINE c == [Idle EXCEPT !.phase = "joining", !.session = joins', !.before = ReadState(t)]
  <2>1. joins' \in Nat /\ joins' # NoSession
    BY <1>2 DEF Join, TypeOK, NoSession
  <2>2. c \in Call /\ c.session = joins'
    BY <1>0, <2>1 DEF Call, Phases, Idle
  <2>3. call' = [call EXCEPT ![t] = c] /\ ~booting'[t] /\ UNCHANGED <<booting, signed>>
    BY <1>2 DEF Join
  <2>4. CallsOK'
    <3> HIDE DEF c
    <3> QED BY <2>1, <2>2, <2>3, CallStep
  <2>5. QED
    BY <1>2, <2>1, <2>4 DEF Join, TypeOK, CallsOK
<1>3. CASE Fetch(t)
  <2> DEFINE c == [Idle EXCEPT !.phase = "fetching", !.session = Presented(t)]
  <2>1. c \in Call /\ c.phase = "fetching"
    BY <1>0 DEF Call, Phases, Idle
  <2>2. /\ call' = [call EXCEPT ![t] = c] /\ ~booting'[t]
        /\ UNCHANGED <<booting, signed>>
    BY <1>3 DEF Fetch, TypeOK
  <2>3. CallsOK'
    <3> HIDE DEF c
    <3> QED BY <2>1, <2>2, CallStep
  <2>4. QED
    BY <1>3, <2>3 DEF Fetch, TypeOK, CallsOK
<1>4. CASE Push(t)
  <2>1. PICK base \in {baseline[D(t)].state, call[t].reply} :
          call' = [call EXCEPT ![t] =
            [Idle EXCEPT !.phase = "sending", !.session = Presented(t), !.before = ReadState(t),
                         !.changes = ProgressChanges(base, ReadState(t))]]
    BY <1>4 DEF Push
  <2> DEFINE d == ProgressChanges(base, ReadState(t))
             c == [Idle EXCEPT !.phase = "sending", !.session = Presented(t),
                               !.before = ReadState(t), !.changes = d]
  <2>2. d \in Delta
    <3>1. base \in State
      BY <1>0 DEF Agreement, Call
    <3>2. QED
      BY <1>0, <3>1, ChangesType
  <2>3. ~booting'[t] /\ UNCHANGED <<booting, signed>>
    BY <1>4 DEF Push, TypeOK, Phase, Idle
  <2>4. c \in Call /\ c.phase = "sending"
    <3> HIDE DEF d
    <3> QED BY <1>0, <2>2 DEF Call, Phases, Idle
  <2>5. call' = [call EXCEPT ![t] = c]
    BY <2>1
  <2>6. CallsOK'
    <3> HIDE DEF c
    <3> QED BY <2>3, <2>4, <2>5, CallStep
  <2>7. QED
    BY <1>4, <2>6 DEF Push, TypeOK, CallsOK
<1>5. CASE Serve(t)
  <2>1. ~booting[t]
    BY <1>5 DEF Serve, Phase, TypeOK, Idle
  <2>2. PICK p \in {"replied", "fetched", "joined", "refused"}, n \in Nat, r \in State :
          /\ Answer(t, p, n, r) /\ (p = "joined" => n # NoSession)
          /\ account' \in State /\ created' \in BOOLEAN
          /\ sessions' \subseteq Nat \ {NoSession}
    <3>1. CASE Phase(t) = "sending" /\ call[t].session \in sessions
      <4>1. SanitizeState(ApplyProgressChanges(account, call[t].changes)) \in State
        BY <1>0, ApplyType, SanitizeType DEF TypeOK, Call
      <4>2. /\ account' \in State /\ created' \in BOOLEAN /\ sessions' = sessions
            /\ Answer(t, "replied", NoSession, account')
        BY <1>5, <3>1, <4>1 DEF Serve, TypeOK
      <4>3. QED
        BY <4>2 DEF TypeOK, NoSession
    <3>2. CASE Phase(t) = "fetching" /\ call[t].session \in sessions
      <4>1. UNCHANGED service /\ Answer(t, "fetched", NoSession, account)
        BY <1>5, <3>2 DEF Serve
      <4>2. QED
        BY <4>1 DEF TypeOK, NoSession
    <3>3. CASE Phase(t) = "joining"
      <4>1. account' \in State /\ created' \in BOOLEAN
        BY <1>5, <1>0, <3>3 DEF Serve, TypeOK, Call
      <4>2. call[t].session \in Nat \ {NoSession}
        BY <1>0, <3>3 DEF TypeOK, Call, Phase
      <4>3. sessions' = sessions \cup {call[t].session} /\ Answer(t, "joined", call[t].session, account')
        BY <1>5, <3>3 DEF Serve
      <4>4. QED
        BY <4>1, <4>2, <4>3 DEF TypeOK
    <3>4. CASE Phase(t) \in {"sending", "fetching"} /\ call[t].session \notin sessions
      <4>1. UNCHANGED service /\ Answer(t, "refused", NoSession, FreshState)
        BY <1>5, <3>4 DEF Serve, Refuse
      <4>2. QED
        BY <4>1, FreshStateType DEF TypeOK, NoSession
    <3>5. QED
      BY <1>5, <3>1, <3>2, <3>3, <3>4 DEF Serve
  <2>3. /\ call' \in [Tabs -> Call] /\ call'[t].phase = p /\ call'[t].session = n
        /\ \A u \in Tabs \ {t} : call'[u] = call[u]
    BY <2>2, AnswerType DEF Phases
  <2>4. CallsOK'
    <3>1. booting' = booting /\ signed' = signed
      BY <1>5 DEF Serve
    <3>2. \A u \in Tabs : booting'[u] => call'[u] = Idle /\ ~signed'[u]
      BY <2>1, <2>3, <3>1 DEF TypeOK
    <3>3. \A u \in Tabs : call'[u].phase \in {"joining", "joined"} => call'[u].session # NoSession
      BY <2>2, <2>3 DEF TypeOK, Phase
    <3>4. QED
      BY <2>3, <3>2, <3>3 DEF CallsOK, Phase
  <2>5. takenBack' \in BOOLEAN
    BY <1>5 DEF Serve, Refuse, TypeOK
  <2>6. QED
    BY <1>5, <2>2, <2>4, <2>5 DEF Serve, TypeOK, CallsOK
<1>6. CASE Lose(t)
  <2>1. call[t].changes.focusSeconds > 0 => call[t].changes.focusSeconds \in Nat
    BY <1>0 DEF Call, Delta
  <2>2. practised' \in Nat /\ unheard' \in Nat /\ takenBack' \in BOOLEAN /\ lost' \in Nat
    BY <1>6, <2>1 DEF Lose, GivesUp, Disagrees, TypeOK
  <2>3. CallsOK'
    <3>1. call' = [call EXCEPT ![t] = Idle] /\ booting' = booting /\ signed' = signed
      BY <1>6 DEF Lose
    <3>2. QED
      BY <3>1, IdleType, CallStep DEF Idle, TypeOK
  <2>4. QED
    BY <1>6, <2>2, <2>3 DEF Lose, TypeOK, CallsOK
<1>7. CASE SignedOut(t)
  <2>1. /\ call' = [call EXCEPT ![t] = Idle] /\ booting' = booting
        /\ signed' = [signed EXCEPT ![t] = FALSE]
    BY <1>7 DEF SignedOut
  <2>2. signed' \in [Tabs -> BOOLEAN] /\ ~signed'[t] /\ \A u \in Tabs \ {t} : signed'[u] = signed[u]
    BY <2>1 DEF TypeOK
  <2>3. CallsOK'
    BY <2>1, <2>2, IdleType, CallStep DEF Idle
  <2>4. token' \in [Tabs -> Nat]
    <3>1. token' = [token EXCEPT ![t] = NoSession]
      BY <1>7 DEF SignedOut
    <3>2. QED
      BY <3>1 DEF TypeOK, NoSession
  <2>5. QED
    BY <1>7, <2>2, <2>3, <2>4 DEF SignedOut, TypeOK, CallsOK
<1>8. CASE Merge(t)
  <2>1. call[t].reply \in State /\ call[t].before \in State
    BY <1>0 DEF Call
  <2>2. ApplyProgressChanges(call[t].reply,
          ProgressChanges(call[t].before, ReadState(t))) \in State
    BY <2>1, <1>0, ChangesType, ApplyType
  <2>3. pending' \in [Tabs -> Delta] /\ view' \in [Tabs -> State]
    BY <1>8, <2>2, StoreSaveType DEF Merge
  <2>4. /\ baseline' \in [Devices -> Agreement] /\ full' \in Nat /\ unheard' \in Nat
        /\ UNCHANGED <<edits, joins, reloads, lost, damaged, practised, takenBack>>
    BY <1>8, <2>1, AgreeType DEF Merge
  <2>5. CallsOK'
    <3>1. Enter(t, "saving", FreshState) /\ UNCHANGED <<booting, signed>> /\ ~booting[t]
      BY <1>8 DEF Merge, Phase, TypeOK, Idle
    <3>2. QED
      BY <3>1, FreshStateType, EnterType, CallStep DEF Phases
  <2>6. QED
    BY <1>8, <2>3, <2>4, <2>5 DEF Merge, TypeOK, CallsOK
<1>9. CASE Reconcile(t)
  <2>1. call[t].reply \in State /\ baseline[D(t)].state \in State
    BY <1>0 DEF Call, Agreement
  <2>2. ApplyProgressChanges(call[t].reply,
          ProgressChanges(baseline[D(t)].state, ReadState(t))) \in State
    BY <2>1, <1>0, ChangesType, ApplyType
  <2>3. /\ baseline' \in [Devices -> Agreement] /\ full' \in Nat /\ unheard' \in Nat
        /\ UNCHANGED <<edits, joins, reloads, lost, damaged, practised, takenBack>>
    BY <1>9, <2>1, AgreeType DEF Reconcile
  <2>4. ~booting[t] /\ booting' = booting
    BY <1>9 DEF Reconcile, Phase, TypeOK, Idle
  <2>5. /\ signed' \in [Tabs -> BOOLEAN] /\ \A u \in Tabs \ {t} : signed'[u] = signed[u]
        /\ cookie' \in [Devices -> Nat] /\ token' \in [Tabs -> Nat]
    BY <1>9, <1>0 DEF Reconcile, TypeOK, Call
  <2>6. /\ pending' \in [Tabs -> Delta] /\ view' \in [Tabs -> State]
        /\ \E c \in Call : c.phase \in {"merging", "replacing"} /\ call' = [call EXCEPT ![t] = c]
    <3>1. CASE baseline[D(t)].known
      <4>1. pending' \in [Tabs -> Delta] /\ view' \in [Tabs -> State]
        BY <1>9, <2>2, <3>1, StoreSaveType DEF Reconcile
      <4>2. Enter(t, "merging", FreshState)
        BY <1>9, <3>1 DEF Reconcile
      <4>3. QED
        BY <4>1, <4>2, FreshStateType, EnterType DEF Phases
    <3>2. CASE ~baseline[D(t)].known
      <4>1. AdoptState(call[t].reply, ReadState(t)) \in State
        BY <2>1, <1>0, AdoptType
      <4>2. /\ Enter(t, "replacing", AdoptState(call[t].reply, ReadState(t)))
            /\ UNCHANGED <<pending, view>>
        BY <1>9, <3>2 DEF Reconcile
      <4>3. QED
        BY <4>1, <4>2, EnterType DEF Phases, TypeOK
    <3>3. QED
      BY <3>1, <3>2
  <2>7. CallsOK'
    BY <2>4, <2>5, <2>6, CallStep
  <2>8. QED
    BY <1>9, <2>3, <2>4, <2>5, <2>6, <2>7 DEF Reconcile, TypeOK, CallsOK
<1>10. CASE SaveEnds(t)
  <2>1. UNCHANGED <<booting, signed>> /\ ~booting[t]
    BY <1>10 DEF SaveEnds, Phase, TypeOK, Idle
  <2>2. CallsOK'
    <3>1. CASE call' = [call EXCEPT ![t] = Idle]
      BY <2>1, <3>1, IdleType, CallStep DEF Idle
    <3>2. CASE Enter(t, "reconciled", FreshState)
      BY <2>1, <3>2, FreshStateType, EnterType, CallStep DEF Phases
    <3>3. QED
      BY <1>10, <3>1, <3>2 DEF SaveEnds
  <2>3. QED
    BY <1>10, <2>2 DEF SaveEnds, TypeOK, CallsOK
<1>11. CASE Logout(t)
  <2>1. baseline' \in [Devices -> Agreement]
    <3>1. NoAgreement \in Agreement
      BY FreshStateType DEF NoAgreement, Agreement
    <3>2. QED
      BY <1>11, <3>1 DEF Logout, TypeOK
  <2>2. /\ signed' \in [Tabs -> BOOLEAN] /\ token' \in [Tabs -> Nat]
        /\ \A u \in Tabs : booting[u] => ~signed'[u]
    <3>1. /\ signed \in [Tabs -> BOOLEAN] /\ token \in [Tabs -> Nat]
          /\ \A u \in Tabs : booting[u] => ~signed[u]
      BY DEF TypeOK
    <3>2. signed' = [signed EXCEPT ![t] = FALSE] /\ token' = [token EXCEPT ![t] = NoSession]
      BY <1>11 DEF Logout
    <3>3. QED
      BY <3>1, <3>2 DEF NoSession
  <2>3. /\ cookie' \in [Devices -> Nat] /\ sessions' \subseteq Nat \ {NoSession}
        /\ lost' \in Nat
    <3>1. cookie' = cookie \/ cookie' = [cookie EXCEPT ![D(t)] = NoSession]
      BY <1>11 DEF Logout
    <3>2. sessions' \subseteq sessions
      BY <1>11 DEF Logout
    <3>3. lost' = lost \/ lost' = lost + 1
      BY <1>11 DEF Logout
    <3>4. cookie' \in [Devices -> Nat]
      BY <3>1 DEF TypeOK, NoSession
    <3>5. lost' \in Nat
      BY <3>3 DEF TypeOK
    <3>6. QED
      BY <3>2, <3>4, <3>5 DEF TypeOK
  <2>4. UNCHANGED <<created, account, stored, epoch, shown, view, pending, generation,
                    booting, call, edits, joins, reloads, full, damaged, practised, unheard, takenBack>>
    BY <1>11 DEF Logout
  <2>5. QED
    BY <2>1, <2>2, <2>3, <2>4 DEF TypeOK, Phase
<1>12. CASE Damage(t)
  <2>1. NoAgreement \in Agreement
    BY FreshStateType DEF NoAgreement, Agreement
  <2>2. baseline' \in [Devices -> Agreement]
    BY <1>12, <2>1 DEF Damage, TypeOK
  <2>3. damaged' \in Nat
    BY <1>12 DEF Damage, TypeOK
  <2>4. QED
    BY <1>12, <2>2, <2>3 DEF Damage, TypeOK, Phase
<1>13. QED
  BY <1>1, <1>2, <1>3, <1>4, <1>5, <1>6, <1>7, <1>8, <1>9, <1>10, <1>11, <1>12

\* A step of any tab, or of none, keeps the records records.
LEMMA TypeStep == TypeOK /\ [Next]_vars => TypeOK'
<1> SUFFICES ASSUME TypeOK, [Next]_vars PROVE TypeOK'
  OBVIOUS
<1> USE DEF disk, session, page, bounds, storageFaults, history
<1>1. CASE \E t \in Tabs : TabStep(t)
  BY <1>1, TypePage, TypeCalls DEF TabStep
<1>2. CASE Expire
  BY <1>2 DEF Expire, TypeOK
<1>3. CASE UNCHANGED vars
  BY <1>3 DEF vars, service, TypeOK
<1>4. QED
  BY <1>1, <1>2, <1>3 DEF Next

\* Every record a page, a store, a device, a call or the account holds is a
\* record, and a page that is opening has no call (sync-client.js queue).
THEOREM TypesHold == Spec => []TypeOK
BY TypeInit, TypeStep, PTL DEF Spec
-----------------------------------------------------------------------------

\* Why an agreement is on the account: it is set to a reply, every reply on its
\* way holds only lessons the account has, the account never loses one, and
\* before there is an account nobody has a session.
HeardInv == /\ \A t \in Tabs : call[t].reply.completed \subseteq account.completed
            /\ ~created => account.completed = {} /\ sessions = {}
            /\ AgreementIsOnTheAccount

\* Nobody is signed in before the first account.
LEMMA HeardInit == Init => HeardInv
BY DEF Init, HeardInv, AgreementIsOnTheAccount, Idle, NoAgreement, FreshState

\* A step that leaves the account and the agreements alone, adds no session, and
\* leaves a call as it is, without a reply or with the reply it has, keeps every
\* reply on the account.
LEMMA HeardQuiet ==
    ASSUME TypeOK, HeardInv, NEW t \in Tabs,
           UNCHANGED <<created, account>>,
           sessions' \subseteq sessions,
           \A d \in Devices : baseline'[d] = baseline[d] \/ baseline'[d] = NoAgreement,
           \/ call' = call
           \/ \E c \in Call : /\ c.reply \in {FreshState, call[t].reply}
                            /\ call' = [call EXCEPT ![t] = c]
    PROVE  HeardInv'
<1>1. \A u \in Tabs : call'[u].reply \in {call[u].reply, FreshState}
  BY DEF TypeOK
<1>2. FreshState.completed = {} /\ NoAgreement.state = FreshState
  BY DEF FreshState, NoAgreement
<1>3. \A u \in Tabs : call'[u].reply.completed \subseteq account'.completed
  BY <1>1, <1>2 DEF HeardInv
<1>4. AgreementIsOnTheAccount'
  BY <1>2 DEF HeardInv, AgreementIsOnTheAccount
<1>5. QED
  BY <1>3, <1>4 DEF HeardInv

\* Replaying changes takes no lesson off the account.
LEMMA HeardServe ==
    ASSUME TypeOK, HeardInv, NEW t \in Tabs, Serve(t)
    PROVE  HeardInv'
<1>1. UNCHANGED baseline
  BY DEF Serve, session
<1>2. call \in [Tabs -> Call]
  BY DEF TypeOK
<1>3. ASSUME account.completed \subseteq account'.completed,
             created' \/ (~created /\ UNCHANGED <<account, sessions>>),
             NEW p, NEW n, NEW r, Answer(t, p, n, r), r.completed \subseteq account'.completed
      PROVE  HeardInv'
  <2>1. \A u \in Tabs : call'[u].reply = call[u].reply \/ call'[u].reply = r
    BY <1>2, <1>3 DEF Answer, Call
  <2>2. QED
    BY <1>1, <1>3, <2>1 DEF HeardInv, AgreementIsOnTheAccount
<1>4. CASE Phase(t) = "sending" /\ call[t].session \in sessions
  <2>1. created' /\ Answer(t, "replied", NoSession, account')
    BY <1>4 DEF Serve, HeardInv
  <2>2. account' = SanitizeState(ApplyProgressChanges(account, call[t].changes))
    BY <1>4 DEF Serve
  <2>3. account.completed \subseteq account'.completed
    BY <2>2 DEF SanitizeState, ApplyProgressChanges
  <2>4. QED
    BY <1>3, <2>1, <2>3
<1>5. CASE Phase(t) = "fetching" /\ call[t].session \in sessions
  <2>1. created' /\ UNCHANGED account /\ Answer(t, "fetched", NoSession, account)
    BY <1>5 DEF Serve, HeardInv, service
  <2>2. QED
    BY <1>3, <2>1
<1>6. CASE Phase(t) = "joining"
  <2>1. created' /\ account' = IF created THEN account ELSE call[t].before
    BY <1>6 DEF Serve
  <2>2. account.completed \subseteq account'.completed
    BY <2>1 DEF HeardInv
  <2>3. Answer(t, "joined", call[t].session, account')
    BY <1>6 DEF Serve
  <2>4. QED
    BY <1>3, <2>1, <2>2, <2>3
<1>7. CASE Phase(t) \in {"sending", "fetching"} /\ call[t].session \notin sessions
  <2>1. UNCHANGED <<created, account, sessions>> /\ Answer(t, "refused", NoSession, FreshState)
    BY <1>7 DEF Serve, Refuse, service
  <2>2. FreshState.completed = {}
    BY DEF FreshState
  <2>3. created \in BOOLEAN
    BY DEF TypeOK
  <2>4. QED
    BY <1>3, <2>1, <2>2, <2>3
<1>8. QED
  BY <1>4, <1>5, <1>6, <1>7 DEF Serve

\* A merged or combined record makes the account's record the agreement.
LEMMA HeardAgree ==
    ASSUME TypeOK, HeardInv, NEW t \in Tabs, Merge(t) \/ Reconcile(t)
    PROVE  HeardInv'
<1>1. UNCHANGED <<created, account, sessions>>
  BY DEF Merge, Reconcile, service
<1>2. Agree(t, call[t].reply)
  BY DEF Merge, Reconcile
<1>3. \A d \in Devices : baseline'[d] \in {baseline[d], [known |-> TRUE, state |-> call[t].reply]}
  BY <1>2 DEF Agree, TypeOK
<1>4. AgreementIsOnTheAccount'
  BY <1>1, <1>3 DEF HeardInv, AgreementIsOnTheAccount
<1>5. \E next \in State, p \in Phases : Enter(t, p, next)
  <2>1. AdoptState(call[t].reply, ReadState(t)) \in State
    BY ReadType, AdoptType DEF TypeOK, Call
  <2>2. QED
    BY <2>1, FreshStateType DEF Merge, Reconcile, Phases
<1>6. \A u \in Tabs : call'[u].reply = call[u].reply
  BY <1>5, EnterType DEF TypeOK
<1>7. \A u \in Tabs : call'[u].reply.completed \subseteq account'.completed
  BY <1>1, <1>6 DEF HeardInv
<1>8. QED
  BY <1>1, <1>4, <1>7 DEF HeardInv

\* Every step keeps every agreement on the account.
LEMMA HeardStep == TypeOK /\ HeardInv /\ [Next]_vars => HeardInv'
<1> SUFFICES ASSUME TypeOK, HeardInv, [Next]_vars PROVE HeardInv'
  OBVIOUS
<1> USE DEF service, session
<1>1. ASSUME NEW t \in Tabs, TabStep(t) PROVE HeardInv'
  <2>0. Idle \in Call /\ Idle.reply = FreshState
    BY IdleType DEF Idle
  <2>1. CASE Save(t) \/ Flush(t) \/ Follow(t) \/ Restore(t)
    <3>1. UNCHANGED <<created, account, sessions, baseline, call>>
      BY <2>1 DEF Save, Flush, Follow, Restore
    <3>2. QED
      BY <3>1, HeardQuiet
  <2>2. CASE Reload(t) \/ Lose(t) \/ SignedOut(t) \/ SaveEnds(t) \/ Replaced(t)
    <3>1. /\ UNCHANGED <<created, account, sessions, baseline>>
          /\ call' = [call EXCEPT ![t] = Idle] \/ Enter(t, "reconciled", FreshState)
      BY <2>2 DEF Reload, Lose, SignedOut, SaveEnds, Replaced
    <3>2. \E c \in Call : c.reply \in {FreshState, call[t].reply} /\ call' = [call EXCEPT ![t] = c]
      BY <2>0, <3>1, FreshStateType, EnterType DEF Phases
    <3>3. QED
      BY <3>1, <3>2, HeardQuiet
  <2>3. CASE Join(t) \/ Fetch(t) \/ Push(t)
    <3>1. UNCHANGED <<created, account, sessions, baseline>>
      BY <2>3 DEF Join, Fetch, Push
    <3>2. \A u \in Tabs : call'[u] = call[u] \/ call'[u].reply = FreshState
      <4>1. CASE Join(t)
        BY <4>1 DEF Join, Idle, TypeOK
      <4>2. CASE Fetch(t)
        BY <4>2 DEF Fetch, Idle, TypeOK
      <4>3. CASE Push(t)
        BY <4>3 DEF Push, Idle, TypeOK
      <4>4. QED
        BY <2>3, <4>1, <4>2, <4>3
    <3>3. QED
      BY <3>1, <3>2 DEF HeardInv, AgreementIsOnTheAccount, FreshState
  <2>4. CASE Serve(t)
    BY <2>4, HeardServe
  <2>5. CASE Merge(t) \/ Reconcile(t)
    BY <2>5, HeardAgree
  <2>6. CASE Logout(t)
    <3>1. UNCHANGED <<created, account, call>> /\ sessions' \subseteq sessions
      BY <2>6 DEF Logout
    <3>2. baseline' = [baseline EXCEPT ![D(t)] = NoAgreement]
      BY <2>6 DEF Logout
    <3>3. \A d \in Devices : baseline'[d] = baseline[d] \/ baseline'[d] = NoAgreement
      BY <3>2 DEF TypeOK
    <3>4. QED
      BY <3>1, <3>3, HeardQuiet
  <2>7. CASE Damage(t)
    <3>1. UNCHANGED <<created, account, sessions, call>>
      BY <2>7 DEF Damage
    <3>2. baseline' = [baseline EXCEPT ![D(t)] = NoAgreement]
      BY <2>7 DEF Damage
    <3>3. \A d \in Devices : baseline'[d] = baseline[d] \/ baseline'[d] = NoAgreement
      BY <3>2 DEF TypeOK
    <3>4. QED
      BY <3>1, <3>3, HeardQuiet
  <2>8. QED
    BY <1>1, <2>1, <2>2, <2>3, <2>4, <2>5, <2>6, <2>7 DEF TabStep
<1>2. CASE Expire
  BY <1>2 DEF Expire, HeardInv, AgreementIsOnTheAccount
<1>3. CASE UNCHANGED vars
  BY <1>3 DEF vars, HeardInv, AgreementIsOnTheAccount
<1>4. QED
  BY <1>1, <1>2, <1>3 DEF Next

\* Whatever is lost, reordered, reloaded or signed out, and however many tabs share
\* a device, a lesson missing from the account is missing from what the device
\* believes the account has, so the next delta carries it (sync-client.js:159-166).
THEOREM AgreementsAreHonest == Spec => []AgreementIsOnTheAccount
<1>1. HeardInv => AgreementIsOnTheAccount
  BY DEF HeardInv
<1>2. QED
  BY <1>1, TypeInit, TypeStep, HeardInit, HeardStep, PTL DEF Spec

-----------------------------------------------------------------------------

(* Practice, counted.  A tab is looked at through its numbers alone; what it *)
(* may still give to the account is a number that covers every way it could. *)

\* No two tabs on one device.
OneTabPerDevice == \A t, u \in Tabs : D(t) = D(u) => t = u

TabNumbers == [phase: Phases, known: BOOLEAN, joined: BOOLEAN, total: Int,
               shows: Int, views: Int, stores: Int, pends: Int,
               agreed: Int, sent: Int, delta: Int, told: Int, fenced: BOOLEAN]

\* The seconds in the copies of a tab, its agreement and its call; joined says
\* whether there is an account, total is what it holds.
Numbers(t) ==
    [phase |-> Phase(t), known |-> baseline[D(t)].known, joined |-> created,
     total |-> account.focusSeconds, shows |-> shown[t].focusSeconds,
     views |-> view[t].focusSeconds, stores |-> stored[D(t)].focusSeconds,
     pends |-> pending[t].focusSeconds, agreed |-> baseline[D(t)].state.focusSeconds,
     sent |-> call[t].before.focusSeconds, delta |-> call[t].changes.focusSeconds,
     told |-> call[t].reply.focusSeconds, fenced |-> Fenced(t)]

\* How a tab's numbers stand to each other and to the account while nothing is taken
\* back: the store shows what is saved and what is pending, an agreement and a
\* reply are at most the account, and a request took the page as it was.
InStep(n) ==
    /\ n.total >= 0 /\ (~n.joined => n.total = 0)
    /\ n.shows >= 0 /\ n.views >= 0 /\ n.stores >= 0
    /\ ~n.fenced /\ n.views = n.stores + n.pends
    /\ 0 <= n.agreed /\ n.agreed <= n.total
    /\ 0 <= n.told /\ n.told <= n.total
    /\ n.known \/ n.phase \in {"replied", "fetched", "joined"} => n.joined
    /\ n.phase \in {"fetched", "joined", "replied", "merging", "replacing", "reconciled"}
         => n.agreed <= n.told
    /\ n.phase \in {"sending", "replied"} =>
         n.agreed <= n.sent - n.delta /\ n.sent - n.delta <= n.total
    /\ n.phase \in {"sending", "replied", "joining"} => 0 <= n.sent /\ n.sent <= n.shows
    /\ n.phase = "replied" => n.sent <= n.told /\ n.delta >= 0
    /\ n.phase = "replacing" => n.sent >= 0

\* What the device counts its practice from: the agreement, with what the account
\* has of this push already; without one, what the reply says the account has.
CountedFrom(n) ==
    IF n.known
    THEN IF n.phase = "replied" THEN n.agreed + n.delta ELSE n.agreed
    ELSE IF n.phase \in {"fetched", "joined", "replied"} THEN n.told ELSE n.total

\* With m seconds the tab can give no more to the account than m, whichever of its
\* copies comes to be sent.
Covers(n, m) ==
    /\ n.shows - CountedFrom(n) <= m
    /\ n.views - CountedFrom(n) <= m
    /\ n.stores - CountedFrom(n) <= m
    /\ n.phase = "sending" => n.shows - n.sent + n.delta <= m
    /\ n.phase = "replied" => n.shows - n.sent <= m
    /\ n.phase \in {"merging", "reconciled"} => n.shows - n.told <= m
    /\ n.phase = "replacing" => n.sent - n.told <= m /\ n.sent - CountedFrom(n) <= m

\* The numbers of a tab are numbers.
LEMMA NumbersType == ASSUME TypeOK, NEW t \in Tabs PROVE Numbers(t) \in TabNumbers
<1>1. /\ shown[t] \in State /\ view[t] \in State /\ stored[D(t)] \in State /\ account \in State
      /\ pending[t] \in Delta /\ baseline[D(t)] \in Agreement /\ call[t] \in Call
      /\ created \in BOOLEAN
  BY DeviceType DEF TypeOK
<1>2. /\ shown[t].focusSeconds \in Int /\ view[t].focusSeconds \in Int
      /\ stored[D(t)].focusSeconds \in Int /\ account.focusSeconds \in Int
  BY <1>1 DEF State
<1>3. pending[t].focusSeconds \in Int
  BY <1>1 DEF Delta
<1>4. /\ baseline[D(t)].known \in BOOLEAN /\ baseline[D(t)].state \in State
      /\ call[t].phase \in Phases /\ call[t].before \in State /\ call[t].reply \in State
      /\ call[t].changes \in Delta
  BY <1>1 DEF Agreement, Call
<1>5. /\ baseline[D(t)].state.focusSeconds \in Int /\ call[t].before.focusSeconds \in Int
      /\ call[t].reply.focusSeconds \in Int /\ call[t].changes.focusSeconds \in Int
  BY <1>4 DEF State, Delta
<1>6. Fenced(t) \in BOOLEAN
  BY DEF Fenced
<1>7. QED
  BY <1>1, <1>2, <1>3, <1>4, <1>5, <1>6 DEF Numbers, TabNumbers, Phase

-----------------------------------------------------------------------------

\* The seconds tabs may still give, one element for each.
Owed(f) == {x \in Tabs \X Nat : 1 <= x[2] /\ x[2] <= f[x[1]]}

\* When one tab comes to owe another amount and no other owes more, the seconds owed
\* change by at most the difference.
LEMMA OwedByOne ==
    ASSUME NEW t \in Tabs, NEW f \in [Tabs -> Nat], IsFiniteSet(Owed(f)), NEW m \in Nat
    PROVE  /\ IsFiniteSet(Owed([f EXCEPT ![t] = m]))
           /\ Cardinality(Owed([f EXCEPT ![t] = m])) = Cardinality(Owed(f)) + m - f[t]
<1> DEFINE Mine(k) == {x \in Tabs \X Nat : x[1] = t /\ 1 <= x[2] /\ x[2] <= k}
           Rest == {x \in Owed(f) : x[1] # t}
<1>1. ASSUME NEW k \in Nat PROVE IsFiniteSet(Mine(k)) /\ Cardinality(Mine(k)) = k
  <2> DEFINE g == [i \in 1 .. k |-> <<t, i>>]
  <2>1. g \in [1 .. k -> Mine(k)]
    OBVIOUS
  <2>2. \A i, j \in 1 .. k : i # j => g[i] # g[j]
    OBVIOUS
  <2>3. \A x \in Mine(k) : \E i \in 1 .. k : g[i] = x
    <3> SUFFICES ASSUME NEW x \in Mine(k) PROVE \E i \in 1 .. k : g[i] = x
      OBVIOUS
    <3>1. x = <<t, x[2]>> /\ x[2] \in 1 .. k
      OBVIOUS
    <3>2. QED
      BY <3>1
  <2>4. g \in Bijection(1 .. k, Mine(k))
    <3> HIDE DEF g, Mine
    <3> QED BY <2>1, <2>2, <2>3 DEF Bijection, Injection, Surjection, IsInjective
  <2>5. IsFiniteSet(1 .. k) /\ Cardinality(1 .. k) = k
    BY FS_Interval
  <2>6. QED
    <3> HIDE DEF g, Mine
    <3> QED BY <2>4, <2>5, FS_Bijection DEF ExistsBijection
<1>2. IsFiniteSet(Rest)
  BY FS_Subset
<1>3. ASSUME NEW k \in Nat
      PROVE  /\ IsFiniteSet(Rest \cup Mine(k))
             /\ Cardinality(Rest \cup Mine(k)) = Cardinality(Rest) + k
  <2>1. Rest \cap Mine(k) = {}
    OBVIOUS
  <2>2. Cardinality({}) = 0 /\ Cardinality(Rest) \in Nat
    BY <1>2, FS_EmptySet, FS_CardinalityType
  <2>3. IsFiniteSet(Mine(k)) /\ Cardinality(Mine(k)) = k
    BY <1>1
  <2>4. /\ IsFiniteSet(Rest \cup Mine(k))
        /\ Cardinality(Rest \cup Mine(k)) =
             Cardinality(Rest) + Cardinality(Mine(k)) - Cardinality(Rest \cap Mine(k))
    <3> HIDE DEF Rest, Mine
    <3> QED BY <1>2, <2>3, FS_Union
  <2>5. Cardinality(Rest \cap Mine(k)) = 0
    <3> HIDE DEF Rest, Mine
    <3> QED BY <2>1, <2>2, Zenon
  <2>6. QED
    <3> HIDE DEF Rest, Mine
    <3> QED BY <2>2, <2>3, <2>4, <2>5
<1>4. Owed(f) = Rest \cup Mine(f[t])
  BY DEF Owed
<1>5. Owed([f EXCEPT ![t] = m]) = Rest \cup Mine(m)
  BY DEF Owed
<1>6. f[t] \in Nat /\ Cardinality(Rest) \in Nat
  BY <1>2, FS_CardinalityType
<1>7. /\ Cardinality(Rest \cup Mine(f[t])) = Cardinality(Rest) + f[t]
      /\ IsFiniteSet(Rest \cup Mine(m))
      /\ Cardinality(Rest \cup Mine(m)) = Cardinality(Rest) + m
  BY <1>3, <1>6
<1>8. /\ Cardinality(Owed(f)) = Cardinality(Rest) + f[t]
      /\ IsFiniteSet(Owed([f EXCEPT ![t] = m]))
      /\ Cardinality(Owed([f EXCEPT ![t] = m])) = Cardinality(Rest) + m
  <2> HIDE DEF Rest, Mine
  <2> QED BY <1>4, <1>5, <1>7, Zenon
<1>9. QED
  BY <1>6, <1>8

-----------------------------------------------------------------------------

\* What other tabs do: the account grows.
LEMMA OthersCover ==
    ASSUME NEW n \in TabNumbers, NEW m \in Nat, InStep(n), Covers(n, m),
           NEW total \in Int, n.total <= total, NEW joined \in BOOLEAN,
           n.joined => joined, ~joined => total = 0
    PROVE  /\ InStep([n EXCEPT !.joined = joined, !.total = total])
           /\ Covers([n EXCEPT !.joined = joined, !.total = total], m)
BY DEF TabNumbers, InStep, Covers, CountedFrom

\* A save makes what the page shows what the store shows.
LEMMA SavingCovers ==
    ASSUME NEW n \in TabNumbers, NEW m \in Nat, InStep(n), Covers(n, m),
           NEW r, r = [n EXCEPT !.views = n.shows, !.pends = n.pends + (n.shows - n.views)]
    PROVE  InStep(r) /\ Covers(r, m)
BY DEF TabNumbers, InStep, Covers, CountedFrom

\* A flush saves what the store shows, with a second more for each earned.
LEMMA FlushingCovers ==
    ASSUME NEW n \in TabNumbers, NEW m \in Nat, InStep(n), Covers(n, m), NEW credit \in {0, 1},
           n.phase # "replacing", NEW r,
           r = [n EXCEPT !.stores = n.views + credit, !.views = n.views + credit, !.pends = 0,
                         !.shows = n.shows + credit]
    PROVE  InStep(r) /\ Covers(r, m + credit)
BY DEF TabNumbers, InStep, Covers, CountedFrom

\* What is owed again when a reply is not heard.
Unheard(n) == IF n.phase = "replied" THEN n.delta ELSE 0

\* A call that comes to nothing, or ends; the page may be opened again.
LEMMA EndingCovers ==
    ASSUME NEW n \in TabNumbers, NEW m \in Nat, InStep(n), Covers(n, m), NEW r,
           \/ r = [n EXCEPT !.phase = "idle", !.sent = 0, !.delta = 0, !.told = 0]
           \/ r = [n EXCEPT !.phase = "idle", !.sent = 0, !.delta = 0, !.told = 0,
                            !.shows = n.stores, !.views = n.stores, !.pends = 0]
    PROVE  /\ InStep(r) /\ Covers(r, m + Unheard(n))
           /\ Unheard(n) \in Nat
<1>1. CASE r = [n EXCEPT !.phase = "idle", !.sent = 0, !.delta = 0, !.told = 0]
  BY <1>1 DEF TabNumbers, InStep, Covers, CountedFrom, Unheard
<1>2. CASE r = [n EXCEPT !.phase = "idle", !.sent = 0, !.delta = 0, !.told = 0,
                        !.shows = n.stores, !.views = n.stores, !.pends = 0]
  BY <1>2 DEF TabNumbers, InStep, Covers, CountedFrom, Unheard
<1>3. QED
  BY <1>1, <1>2

\* An agreement is given up, or damaged: then practice counts from the account.
LEMMA ForgettingCovers ==
    ASSUME NEW n \in TabNumbers, NEW m \in Nat, InStep(n), Covers(n, m), NEW r,
           r = [n EXCEPT !.known = FALSE, !.agreed = 0]
    PROVE  InStep(r) /\ Covers(r, m)
BY DEF TabNumbers, InStep, Covers, CountedFrom

\* Signing in and asking for the account's record take nothing with them that
\* counts as sent.
LEMMA AskingCovers ==
    ASSUME NEW n \in TabNumbers, NEW m \in Nat, InStep(n), Covers(n, m), n.phase = "idle", NEW r,
           \/ r = [n EXCEPT !.phase = "joining", !.sent = n.shows, !.delta = 0, !.told = 0]
           \/ r = [n EXCEPT !.phase = "fetching", !.sent = 0, !.delta = 0, !.told = 0]
    PROVE  InStep(r) /\ Covers(r, m)
<1>1. CASE r = [n EXCEPT !.phase = "joining", !.sent = n.shows, !.delta = 0, !.told = 0]
  BY <1>1 DEF TabNumbers, InStep, Covers, CountedFrom
<1>2. CASE r = [n EXCEPT !.phase = "fetching", !.sent = 0, !.delta = 0, !.told = 0]
  BY <1>2 DEF TabNumbers, InStep, Covers, CountedFrom
<1>3. QED
  BY <1>1, <1>2

\* A push sends the difference from the agreement, or from what the sign-in told.
LEMMA PushingCovers ==
    ASSUME NEW n \in TabNumbers, NEW m \in Nat, InStep(n), Covers(n, m), NEW base \in Int,
           \/ n.phase = "idle" /\ n.known /\ base = n.agreed
           \/ n.phase = "reconciled" /\ base = n.told,
           NEW r,
           r = [n EXCEPT !.phase = "sending", !.sent = n.shows, !.delta = n.shows - base, !.told = 0]
    PROVE  InStep(r) /\ Covers(r, m)
BY DEF TabNumbers, InStep, Covers, CountedFrom

\* A push that is served gives the account what it carries, and is owed no more.
LEMMA GivingCovers ==
    ASSUME NEW n \in TabNumbers, NEW m \in Nat, InStep(n), Covers(n, m),
           n.phase = "sending", n.joined, n.delta >= 0, NEW r,
           r = [n EXCEPT !.phase = "replied", !.total = n.total + n.delta,
                         !.told = n.total + n.delta]
    PROVE  /\ InStep(r) /\ Covers(r, m - n.delta)
           /\ m - n.delta \in Nat
BY DEF TabNumbers, InStep, Covers, CountedFrom

\* The first sign-in makes the page's record the account's.
LEMMA FoundingCovers ==
    ASSUME NEW n \in TabNumbers, NEW m \in Nat, InStep(n), Covers(n, m),
           n.phase = "joining", ~n.joined, NEW r,
           r = [n EXCEPT !.phase = "joined", !.joined = TRUE, !.total = n.sent, !.told = n.sent]
    PROVE  /\ InStep(r) /\ Covers(r, m - n.sent)
           /\ m - n.sent \in Nat
BY DEF TabNumbers, InStep, Covers, CountedFrom

\* Other answers tell the account's record or nothing.
LEMMA TellingCovers ==
    ASSUME NEW n \in TabNumbers, NEW m \in Nat, InStep(n), Covers(n, m), NEW r,
           \/ n.phase = "fetching" /\ n.joined /\ r = [n EXCEPT !.phase = "fetched", !.told = n.total]
           \/ n.phase = "joining" /\ n.joined /\ r = [n EXCEPT !.phase = "joined", !.told = n.total]
           \/ n.phase \in {"sending", "fetching"} /\ r = [n EXCEPT !.phase = "refused", !.told = 0]
    PROVE  InStep(r) /\ Covers(r, m)
<1>1. CASE n.phase = "fetching" /\ n.joined /\ r = [n EXCEPT !.phase = "fetched", !.told = n.total]
  BY <1>1 DEF TabNumbers, InStep, Covers, CountedFrom
<1>2. CASE n.phase = "joining" /\ n.joined /\ r = [n EXCEPT !.phase = "joined", !.told = n.total]
  BY <1>2 DEF TabNumbers, InStep, Covers, CountedFrom
<1>3. CASE n.phase \in {"sending", "fetching"} /\ r = [n EXCEPT !.phase = "refused", !.told = 0]
  BY <1>3 DEF TabNumbers, InStep, Covers, CountedFrom
<1>4. QED
  BY <1>1, <1>2, <1>3

\* What is owed again when an agreement cannot be written.
Unwritten(n) == IF n.told > n.agreed THEN n.told - n.agreed ELSE 0

\* A merge counts from the reply on what the page did since it sent.
LEMMA MergingCovers ==
    ASSUME NEW n \in TabNumbers, NEW m \in Nat, InStep(n), Covers(n, m), n.phase = "replied",
           NEW s, s = [n EXCEPT !.phase = "saving", !.sent = 0, !.delta = 0,
                                !.views = n.told + (n.shows - n.sent),
                                !.pends = n.pends + (n.told + (n.shows - n.sent) - n.views)]
    PROVE  /\ InStep([s EXCEPT !.known = TRUE, !.agreed = n.told])
           /\ Covers([s EXCEPT !.known = TRUE, !.agreed = n.told], m)
           /\ InStep(s) /\ Covers(s, m + Unwritten(n)) /\ Unwritten(n) \in Nat
BY DEF TabNumbers, InStep, Covers, CountedFrom, Unwritten

\* A device with an agreement carries it on.
LEMMA CarryingOnCovers ==
    ASSUME NEW n \in TabNumbers, NEW m \in Nat, InStep(n), Covers(n, m),
           n.phase \in {"fetched", "joined"}, n.known,
           NEW s, s = [n EXCEPT !.phase = "merging", !.sent = 0, !.delta = 0,
                                !.views = n.told + (n.shows - n.agreed),
                                !.pends = n.pends + (n.told + (n.shows - n.agreed) - n.views)]
    PROVE  /\ InStep([s EXCEPT !.known = TRUE, !.agreed = n.told])
           /\ Covers([s EXCEPT !.known = TRUE, !.agreed = n.told], m)
           /\ InStep(s) /\ Covers(s, m + Unwritten(n)) /\ Unwritten(n) \in Nat
BY DEF TabNumbers, InStep, Covers, CountedFrom, Unwritten

\* A device without one takes the larger side.
LEMMA CombiningCovers ==
    ASSUME NEW n \in TabNumbers, NEW m \in Nat, InStep(n), Covers(n, m),
           n.phase \in {"fetched", "joined"}, ~n.known,
           NEW s, s = [n EXCEPT !.phase = "replacing", !.delta = 0,
                                !.sent = IF n.told >= n.shows THEN n.told ELSE n.shows]
    PROVE  /\ InStep([s EXCEPT !.known = TRUE, !.agreed = n.told])
           /\ Covers([s EXCEPT !.known = TRUE, !.agreed = n.told], m)
           /\ InStep(s) /\ Covers(s, m + Unwritten(n)) /\ Unwritten(n) \in Nat
BY DEF TabNumbers, InStep, Covers, CountedFrom, Unwritten

\* The combined record replaces every copy.
LEMMA ReplacingCovers ==
    ASSUME NEW n \in TabNumbers, NEW m \in Nat, InStep(n), Covers(n, m), n.phase = "replacing",
           NEW r, r = [n EXCEPT !.phase = "reconciled", !.stores = n.sent, !.views = n.sent,
                                !.shows = n.sent, !.pends = 0, !.sent = 0, !.delta = 0]
    PROVE  InStep(r) /\ Covers(r, m)
BY DEF TabNumbers, InStep, Covers, CountedFrom

\* A save that was waited for ends, and after a sign-in the push is still to come.
LEMMA SaveEndingCovers ==
    ASSUME NEW n \in TabNumbers, NEW m \in Nat, InStep(n), Covers(n, m), NEW r,
           \/ n.phase = "saving" /\ r = [n EXCEPT !.phase = "idle", !.sent = 0, !.delta = 0, !.told = 0]
           \/ n.phase = "merging" /\ r = [n EXCEPT !.phase = "reconciled", !.sent = 0, !.delta = 0]
    PROVE  InStep(r) /\ Covers(r, m)
<1>1. CASE n.phase = "saving" /\ r = [n EXCEPT !.phase = "idle", !.sent = 0, !.delta = 0, !.told = 0]
  BY <1>1 DEF TabNumbers, InStep, Covers, CountedFrom
<1>2. CASE n.phase = "merging" /\ r = [n EXCEPT !.phase = "reconciled", !.sent = 0, !.delta = 0]
  BY <1>2 DEF TabNumbers, InStep, Covers, CountedFrom
<1>3. QED
  BY <1>1, <1>2

-----------------------------------------------------------------------------

\* The practice the account has and the seconds still owed to it, f[t] by each tab,
\* are no more than was practised or given unheard.
Counts(f) ==
    /\ \A t \in Tabs : InStep(Numbers(t)) /\ Covers(Numbers(t), f[t])
    /\ IsFiniteSet(Owed(f))
    /\ account.focusSeconds + Cardinality(Owed(f)) <= practised + unheard

CountInv == takenBack \/ \E f \in [Tabs -> Nat] : Counts(f)

\* What the numbers of a tab are.
FieldsOf(n, t) ==
    /\ n.phase = Phase(t) /\ n.known = baseline[D(t)].known /\ n.joined = created
    /\ n.total = account.focusSeconds /\ n.shows = shown[t].focusSeconds
    /\ n.views = view[t].focusSeconds /\ n.stores = stored[D(t)].focusSeconds
    /\ n.pends = pending[t].focusSeconds /\ n.agreed = baseline[D(t)].state.focusSeconds
    /\ n.sent = call[t].before.focusSeconds /\ n.delta = call[t].changes.focusSeconds
    /\ n.told = call[t].reply.focusSeconds /\ n.fenced = Fenced(t)

\* A tab's numbers are what they are called, now and after a step.
LEMMA NumbersAre ==
    ASSUME NEW t \in Tabs
    PROVE  FieldsOf(Numbers(t), t) /\ FieldsOf(Numbers(t), t)'
BY DEF FieldsOf, Numbers

\* The numbers of every tab are numbers, named so that a next state can be
\* spoken of.
AllNumbers == \A t \in Tabs : Numbers(t) \in TabNumbers

\* With the types it is so in every state.
LEMMA NumbersStay == TypeOK => AllNumbers
BY NumbersType DEF AllNumbers

\* And in the state a step leads to.
LEMMA NumbersNext == TypeOK' => AllNumbers'
BY NumbersStay, PTL

\* A step of a tab that has its device to itself touches no other tab's copies.
LeavesOthers(t) ==
    /\ \A u \in Tabs \ {t} : /\ shown'[u] = shown[u] /\ view'[u] = view[u]
                             /\ pending'[u] = pending[u] /\ generation'[u] = generation[u]
                             /\ call'[u] = call[u]
    /\ \A d \in Devices \ {D(t)} : /\ stored'[d] = stored[d] /\ epoch'[d] = epoch[d]
                                   /\ baseline'[d] = baseline[d]

\* Seconds add up, whatever else is in a record or in a list of changes.
LEMMA SecondsAddUp ==
    ASSUME NEW p \in Delta, NEW d \in Delta, NEW a \in State, NEW b \in State
    PROVE  /\ Compose(p, d).focusSeconds = p.focusSeconds + d.focusSeconds
           /\ ProgressChanges(a, b).focusSeconds = b.focusSeconds - a.focusSeconds
           /\ ApplyProgressChanges(a, d).focusSeconds = a.focusSeconds + d.focusSeconds
           /\ SanitizeState(a).focusSeconds = IF a.focusSeconds >= 0 THEN a.focusSeconds ELSE 0
BY DEF Compose, ProgressChanges, ApplyProgressChanges, SanitizeState, State

\* The larger side of two counters that are not negative.
LEMMA SecondsAdopted ==
    ASSUME NEW a \in State, NEW b \in State, a.focusSeconds >= 0, b.focusSeconds >= 0
    PROVE  AdoptState(a, b).focusSeconds =
             IF a.focusSeconds >= b.focusSeconds THEN a.focusSeconds ELSE b.focusSeconds
BY DEF AdoptState, SanitizeState, State

\* Every step of a tab leaves the others and their devices alone, and the account
\* it found taken back or founded stays so.
LEMMA StepLeavesOthers ==
    ASSUME TypeOK, NEW t \in Tabs, TabStep(t)
    PROVE  /\ LeavesOthers(t)
           /\ takenBack => takenBack'
           /\ created => created'
<1> USE DEF service, disk, session, page, bounds, storageFaults, history
<1>0. D(t) \in Devices
  BY DeviceType
<1>1. CASE Save(t)
  BY <1>1 DEF Save, StoreSave, LeavesOthers, TypeOK
<1>2. CASE Flush(t)
  BY <1>2 DEF Flush, Publish, LeavesOthers, TypeOK
<1>3. CASE Follow(t)
  BY <1>3 DEF Follow, Publish, LeavesOthers, TypeOK
<1>4. CASE Reload(t)
  BY <1>4 DEF Reload, GivesUp, LeavesOthers, TypeOK
<1>5. CASE Damage(t) \/ Logout(t)
  BY <1>5 DEF Damage, Logout, LeavesOthers, TypeOK
<1>6. CASE Restore(t)
  BY <1>6 DEF Restore, LeavesOthers, TypeOK
<1>7. CASE Join(t) \/ Fetch(t) \/ Push(t)
  BY <1>7 DEF Join, Fetch, Push, LeavesOthers, TypeOK
<1>8. CASE Serve(t)
  <2>1. \A u \in Tabs \ {t} : call'[u] = call[u]
    BY <1>8 DEF Serve, Answer, Refuse, TypeOK
  <2>2. (takenBack => takenBack') /\ (created => created')
    <3>1. takenBack' \in {takenBack, takenBack \/ account'.focusSeconds < account.focusSeconds}
      BY <1>8 DEF Serve, Refuse
    <3>2. created' = TRUE \/ created' = created
      BY <1>8 DEF Serve, Refuse
    <3>3. QED
      BY <3>1, <3>2 DEF TypeOK
  <2>3. QED
    BY <1>8, <2>1, <2>2 DEF Serve, LeavesOthers
<1>9. CASE Lose(t) \/ SignedOut(t)
  BY <1>9 DEF Lose, GivesUp, SignedOut, LeavesOthers, TypeOK
<1>10. CASE Merge(t)
  BY <1>10 DEF Merge, Agree, StoreSave, Enter, LeavesOthers, TypeOK
<1>11. CASE Reconcile(t)
  <2>1. \A u \in Tabs \ {t} : call'[u] = call[u]
    BY <1>11 DEF Reconcile, Enter, TypeOK
  <2>2. \A u \in Tabs \ {t} : view'[u] = view[u] /\ pending'[u] = pending[u]
    BY <1>11 DEF Reconcile, StoreSave, TypeOK
  <2>3. /\ \A d \in Devices \ {D(t)} : baseline'[d] = baseline[d]
        /\ takenBack' = takenBack
    BY <1>11 DEF Reconcile, Agree, TypeOK
  <2>4. QED
    BY <1>11, <2>1, <2>2, <2>3 DEF Reconcile, LeavesOthers
<1>12. CASE Replaced(t)
  BY <1>12 DEF Replaced, Enter, LeavesOthers, TypeOK
<1>13. CASE SaveEnds(t)
  BY <1>13 DEF SaveEnds, Enter, LeavesOthers, TypeOK
<1>14. QED
  BY <1>1, <1>2, <1>3, <1>4, <1>5, <1>6, <1>7, <1>8, <1>9, <1>10, <1>11, <1>12, <1>13 DEF TabStep

\* A step after which one tab is covered by m seconds keeps the count, if what the
\* account gained and m are paid for.
LEMMA CountMoves ==
    ASSUME OneTabPerDevice, TypeOK, TypeOK', NEW t \in Tabs, LeavesOthers(t), created => created',
           NEW f \in [Tabs -> Nat], Counts(f), NEW m \in Nat,
           InStep(Numbers(t)'), Covers(Numbers(t)', m),
           account.focusSeconds <= account'.focusSeconds,
           account'.focusSeconds + m + practised + unheard
             <= account.focusSeconds + f[t] + practised' + unheard'
    PROVE  CountInv'
<1> DEFINE g == [f EXCEPT ![t] = m]
<1>1. /\ account.focusSeconds \in Int /\ account'.focusSeconds \in Int
      /\ created' \in BOOLEAN
      /\ practised \in Nat /\ unheard \in Nat /\ practised' \in Nat /\ unheard' \in Nat
  BY DEF TypeOK, State
<1>2. ~created' => account'.focusSeconds = 0
  BY DEF InStep, Numbers
<1>3. ASSUME NEW u \in Tabs \ {t}
      PROVE  InStep(Numbers(u)') /\ Covers(Numbers(u)', f[u])
  <2> DEFINE r == [Numbers(u) EXCEPT !.joined = created', !.total = account'.focusSeconds]
  <2>1. D(u) \in Devices \ {D(t)}
    BY DeviceType DEF OneTabPerDevice
  <2>2. /\ shown'[u] = shown[u] /\ view'[u] = view[u] /\ pending'[u] = pending[u]
        /\ generation'[u] = generation[u] /\ call'[u] = call[u]
        /\ stored'[DeviceOf[u]] = stored[DeviceOf[u]] /\ epoch'[DeviceOf[u]] = epoch[DeviceOf[u]]
        /\ baseline'[DeviceOf[u]] = baseline[DeviceOf[u]]
    BY <2>1 DEF LeavesOthers, D
  <2>3. Numbers(u)' = r
    <3>1. Fenced(u)' = Fenced(u)
      BY <2>2 DEF Fenced, D
    <3>2. /\ Phase(u)' = Phase(u) /\ stored'[D(u)'] = stored[D(u)] /\ baseline'[D(u)'] = baseline[D(u)]
      BY <2>2 DEF Phase, D
    <3>3. FieldsOf(Numbers(u), u)
      BY NumbersAre
    <3>4. FieldsOf(Numbers(u), u)' /\ Numbers(u)' \in TabNumbers
      BY NumbersAre, NumbersNext DEF AllNumbers
    <3>5. Numbers(u) \in TabNumbers
      BY NumbersType
    <3> DEFINE a == Numbers(u)
               b == Numbers(u)'
    <3>6. /\ b.phase = a.phase /\ b.known = a.known /\ b.joined = created'
          /\ b.total = account'.focusSeconds /\ b.shows = a.shows /\ b.views = a.views
          /\ b.stores = a.stores /\ b.pends = a.pends /\ b.agreed = a.agreed
          /\ b.sent = a.sent /\ b.delta = a.delta /\ b.told = a.told /\ b.fenced = a.fenced
      BY <2>2, <3>1, <3>2, <3>3, <3>4 DEF FieldsOf
    <3>7. b = [a EXCEPT !.joined = created', !.total = account'.focusSeconds]
      <4>1. a \in TabNumbers /\ b \in TabNumbers
        BY <3>4, <3>5
      <4> HIDE DEF a, b
      <4>2. QED
        BY <1>1, <3>6, <4>1 DEF TabNumbers
    <3>8. QED
      BY <3>7
  <2>4. /\ Numbers(u) \in TabNumbers /\ f[u] \in Nat
        /\ InStep(Numbers(u)) /\ Covers(Numbers(u), f[u])
    BY NumbersType DEF Counts
  <2>5. Numbers(u).total = account.focusSeconds /\ Numbers(u).joined = created
    BY DEF Numbers
  <2>6. InStep(r) /\ Covers(r, f[u])
    BY <1>1, <1>2, <2>4, <2>5, OthersCover
  <2>7. QED
    <3> HIDE DEF r
    <3> QED BY <2>3, <2>6
<1>4. g \in [Tabs -> Nat] /\ g[t] = m /\ \A u \in Tabs \ {t} : g[u] = f[u]
  OBVIOUS
<1>5. \A u \in Tabs : InStep(Numbers(u)') /\ Covers(Numbers(u)', g[u])
  <2> HIDE DEF g
  <2> QED BY <1>3, <1>4
<1>6. /\ IsFiniteSet(Owed(g))
      /\ Cardinality(Owed(g)) = Cardinality(Owed(f)) + m - f[t]
  BY OwedByOne DEF Counts
<1>7. account'.focusSeconds + Cardinality(Owed(g)) <= practised' + unheard'
  <2>1. Cardinality(Owed(f)) \in Nat /\ f[t] \in Nat
    BY FS_CardinalityType DEF Counts
  <2>2. account.focusSeconds + Cardinality(Owed(f)) <= practised + unheard
    BY DEF Counts
  <2> HIDE DEF g
  <2>3. QED
    BY <1>1, <1>6, <2>1, <2>2
<1>8. Counts(g)'
  <2> HIDE DEF g
  <2> QED BY <1>5, <1>6, <1>7 DEF Counts, Owed
<1>9. QED
  <2> HIDE DEF g
  <2> QED BY <1>4, <1>8 DEF CountInv

-----------------------------------------------------------------------------

\* What a step of a tab starts from, and what its numbers are after it.
LEMMA CountingStarts ==
    ASSUME TypeOK, TypeOK', NEW t \in Tabs, NEW f \in [Tabs -> Nat], Counts(f)
    PROVE  /\ Numbers(t) \in TabNumbers /\ Numbers(t)' \in TabNumbers /\ f[t] \in Nat
           /\ InStep(Numbers(t)) /\ Covers(Numbers(t), f[t])
           /\ FieldsOf(Numbers(t), t)
           /\ LET r == Numbers(t)' IN
                /\ r.phase = call'[t].phase /\ r.known = baseline'[D(t)].known
                /\ r.joined = created' /\ r.total = account'.focusSeconds
                /\ r.shows = shown'[t].focusSeconds /\ r.views = view'[t].focusSeconds
                /\ r.stores = stored'[D(t)].focusSeconds /\ r.pends = pending'[t].focusSeconds
                /\ r.agreed = baseline'[D(t)].state.focusSeconds
                /\ r.sent = call'[t].before.focusSeconds /\ r.delta = call'[t].changes.focusSeconds
                /\ r.told = call'[t].reply.focusSeconds
                /\ r.fenced = (generation'[t] # epoch'[D(t)])
<1>1. Numbers(t) \in TabNumbers /\ FieldsOf(Numbers(t), t)
  BY NumbersType, NumbersAre
<1>2. Numbers(t)' \in TabNumbers
  BY NumbersNext DEF AllNumbers
<1>3. f[t] \in Nat /\ InStep(Numbers(t)) /\ Covers(Numbers(t), f[t])
  BY DEF Counts
<1>4. FieldsOf(Numbers(t), t)'
  BY NumbersAre
<1> DEFINE r == Numbers(t)'
<1>5. /\ r.phase = call'[t].phase /\ r.known = baseline'[D(t)].known
      /\ r.joined = created' /\ r.total = account'.focusSeconds
      /\ r.shows = shown'[t].focusSeconds /\ r.views = view'[t].focusSeconds
      /\ r.stores = stored'[D(t)].focusSeconds /\ r.pends = pending'[t].focusSeconds
      /\ r.agreed = baseline'[D(t)].state.focusSeconds
      /\ r.sent = call'[t].before.focusSeconds /\ r.delta = call'[t].changes.focusSeconds
      /\ r.told = call'[t].reply.focusSeconds
      /\ r.fenced = (generation'[t] # epoch'[D(t)])
  BY <1>4 DEF FieldsOf, D, Phase, Fenced
<1>6. QED
  BY <1>1, <1>2, <1>3, <1>5

\* A step that leaves the account alone keeps the count when what it adds to a tab's
\* cover is paid for.
LEMMA CountQuiet ==
    ASSUME OneTabPerDevice, TypeOK, TypeOK', NEW t \in Tabs, TabStep(t),
           NEW f \in [Tabs -> Nat], Counts(f), NEW more \in Nat,
           InStep(Numbers(t)'), Covers(Numbers(t)', f[t] + more), account' = account,
           practised + unheard + more <= practised' + unheard'
    PROVE  CountInv'
<1>1. /\ f[t] + more \in Nat /\ account.focusSeconds \in Int /\ f[t] \in Nat
      /\ account'.focusSeconds = account.focusSeconds
  BY DEF TypeOK, State
<1>2. practised \in Nat /\ unheard \in Nat /\ practised' \in Nat /\ unheard' \in Nat
  BY DEF TypeOK
<1>3. LeavesOthers(t) /\ (created => created')
  BY StepLeavesOthers
<1>4. account'.focusSeconds + (f[t] + more) + practised + unheard
        <= account.focusSeconds + f[t] + practised' + unheard'
  <2> DEFINE a == account.focusSeconds
             b == account'.focusSeconds
             k == f[t]
             p == practised'
             w == unheard'
  <2>1. a \in Int /\ b = a /\ k \in Nat /\ p \in Nat /\ w \in Nat /\ practised + unheard + more <= p + w
    BY <1>1, <1>2
  <2> HIDE DEF a, b, k, p, w
  <2>2. b + (k + more) + practised + unheard <= a + k + p + w
    BY <1>2, <2>1
  <2>3. QED
    BY <2>2 DEF a, b, k, p, w
<1>5. account.focusSeconds <= account'.focusSeconds
  BY <1>1
<1>6. QED
  BY <1>1, <1>3, <1>4, <1>5, CountMoves

\* What the page and its store do keeps the count: only practice adds to it.
LEMMA CountPage ==
    ASSUME OneTabPerDevice, TypeOK, TypeOK', NEW t \in Tabs, TabStep(t),
           NEW f \in [Tabs -> Nat], Counts(f), Save(t) \/ Flush(t) \/ Follow(t) \/ Replaced(t)
    PROVE  CountInv'
<1> USE DEF service, disk, session, page, bounds, storageFaults, history
<1> DEFINE n == Numbers(t)
           r == Numbers(t)'
<1>1. /\ n \in TabNumbers /\ r \in TabNumbers /\ f[t] \in Nat
      /\ InStep(n) /\ Covers(n, f[t])
  BY CountingStarts
<1>2. /\ n.phase = call[t].phase /\ n.known = baseline[D(t)].known
      /\ n.joined = created /\ n.total = account.focusSeconds
      /\ n.shows = shown[t].focusSeconds /\ n.views = view[t].focusSeconds
      /\ n.stores = stored[D(t)].focusSeconds /\ n.pends = pending[t].focusSeconds
      /\ n.agreed = baseline[D(t)].state.focusSeconds
      /\ n.sent = call[t].before.focusSeconds /\ n.delta = call[t].changes.focusSeconds
      /\ n.told = call[t].reply.focusSeconds
      /\ n.fenced = (generation[t] # epoch[D(t)])
  BY CountingStarts DEF FieldsOf, Phase, Fenced
<1>3. /\ r.phase = call'[t].phase /\ r.known = baseline'[D(t)].known
      /\ r.joined = created' /\ r.total = account'.focusSeconds
      /\ r.shows = shown'[t].focusSeconds /\ r.views = view'[t].focusSeconds
      /\ r.stores = stored'[D(t)].focusSeconds /\ r.pends = pending'[t].focusSeconds
      /\ r.agreed = baseline'[D(t)].state.focusSeconds
      /\ r.sent = call'[t].before.focusSeconds /\ r.delta = call'[t].changes.focusSeconds
      /\ r.told = call'[t].reply.focusSeconds
      /\ r.fenced = (generation'[t] # epoch'[D(t)])
  BY CountingStarts
<1>4. /\ practised \in Nat /\ unheard \in Nat /\ f[t] + 0 = f[t] /\ D(t) \in Devices
      /\ shown[t] \in State /\ view[t] \in State /\ stored[D(t)] \in State
      /\ pending[t] \in Delta /\ call[t] \in Call
      /\ Saved(t) \in State /\ Saved(t).focusSeconds = n.stores
  <2>1. stored[D(t)] \in State /\ stored[D(t)].focusSeconds >= 0
    BY <1>1, <1>2, DeviceType DEF TypeOK, InStep
  <2>2. Saved(t).focusSeconds = n.stores /\ Saved(t) \in State
    BY <1>2, <2>1, SanitizeType DEF Saved, SanitizeState, State
  <2>3. QED
    BY <1>1, <2>1, <2>2, DeviceType DEF TypeOK
<1> HIDE DEF n, r
<1>5. CASE Save(t)
  <2>1. PICK next \in {s \in Edits(shown[t]) : s.focusSeconds = shown[t].focusSeconds} \cup {shown[t]} :
          shown' = [shown EXCEPT ![t] = next] /\ StoreSave(t, next)
    BY <1>5 DEF Save
  <2>2. next \in State /\ next.focusSeconds = n.shows
    BY <1>2, <1>4, <2>1, EditsType
  <2>3. UNCHANGED <<service, disk, session, generation, call, history>>
    BY <1>5 DEF Save
  <2>4. ProgressChanges(view[t], next) \in Delta
        /\ ProgressChanges(view[t], next).focusSeconds = n.shows - n.views
    <3>1. ProgressChanges(view[t], next) \in Delta
      BY <1>4, <2>2, ChangesType
    <3>2. ProgressChanges(view[t], next).focusSeconds = next.focusSeconds - view[t].focusSeconds
      BY <1>4, <2>2, <3>1, SecondsAddUp
    <3>3. QED
      BY <1>2, <2>2, <3>1, <3>2
  <2>5. /\ pending'[t].focusSeconds = n.pends + (n.shows - n.views)
        /\ view'[t].focusSeconds = n.shows /\ shown'[t].focusSeconds = n.shows
    <3>1. pending' = [pending EXCEPT ![t] = Compose(@, ProgressChanges(view[t], next))]
          /\ view' = [view EXCEPT ![t] = next]
      BY <2>1 DEF StoreSave
    <3>2. Compose(pending[t], ProgressChanges(view[t], next)).focusSeconds
            = n.pends + (n.shows - n.views)
      BY <1>2, <1>4, <2>4, SecondsAddUp
    <3>3. QED
      BY <2>1, <2>2, <3>1, <3>2 DEF TypeOK
  <2>6. r = [n EXCEPT !.views = n.shows, !.pends = n.pends + (n.shows - n.views)]
    BY <1>1, <1>2, <1>3, <2>3, <2>5 DEF TabNumbers
  <2>7. InStep(r) /\ Covers(r, f[t] + 0)
    BY <1>1, <1>4, <2>6, SavingCovers
  <2>8. QED
    BY <1>4, <2>3, <2>7, CountQuiet DEF r
<1>6. CASE Flush(t)
  <2>1. PICK credit \in {0, 1} :
          LET merged == ApplyProgressChanges(Saved(t), pending[t])
              next == [merged EXCEPT !.focusSeconds = @ + credit] IN
          /\ practised' = practised + credit
          /\ stored' = [stored EXCEPT ![D(t)] = next]
          /\ Publish(t, next)
    BY <1>6 DEF Flush
  <2> DEFINE merged == ApplyProgressChanges(Saved(t), pending[t])
             next == [merged EXCEPT !.focusSeconds = @ + credit]
  <2>2. merged \in State /\ merged.focusSeconds = n.views
    <3>1. merged.focusSeconds = Saved(t).focusSeconds + pending[t].focusSeconds
      BY <1>4, SecondsAddUp
    <3>2. n.views = n.stores + n.pends
      BY <1>1 DEF InStep
    <3>3. merged \in State
      BY <1>4, ApplyType
    <3> HIDE DEF merged
    <3>4. QED
      BY <1>2, <1>4, <3>1, <3>2, <3>3
  <2>3. next \in State /\ next.focusSeconds = n.views + credit
    <3> HIDE DEF merged
    <3> QED BY <2>2 DEF State
  <2>4. PICK followed \in State : followed.focusSeconds = n.shows + credit /\
          view' = [view EXCEPT ![t] = next] /\
          shown' \in {[shown EXCEPT ![t] = followed]} \cup (IF next = view[t] THEN {shown} ELSE {})
    <3> DEFINE w == ApplyProgressChanges(next, ProgressChanges(view[t], shown[t]))
    <3> HIDE DEF next
    <3>1. ProgressChanges(view[t], shown[t]) \in Delta
          /\ ProgressChanges(view[t], shown[t]).focusSeconds = n.shows - n.views
      BY <1>2, <1>4, ChangesType, SecondsAddUp, NoChangesType
    <3>2. w \in State /\ w.focusSeconds = next.focusSeconds + (n.shows - n.views)
      BY <2>3, <3>1, ApplyType, SecondsAddUp
    <3>3. w.focusSeconds = n.shows + credit
      BY <1>1, <2>3, <3>2 DEF TabNumbers
    <3>4. Publish(t, next)
      BY <2>1 DEF next
    <3>5. QED
      BY <3>2, <3>3, <3>4 DEF Publish
  <2>5. /\ shown'[t].focusSeconds = n.shows + credit /\ view'[t].focusSeconds = n.views + credit
        /\ stored'[D(t)].focusSeconds = n.views + credit
    <3> HIDE DEF next
    <3>1. stored' = [stored EXCEPT ![D(t)] = next]
      BY <2>1 DEF next
    <3>2. next = view[t] => credit = 0
      BY <1>1, <1>2, <2>3 DEF TabNumbers
    <3>3. QED
      BY <1>1, <1>2, <1>4, <2>3, <2>4, <3>1, <3>2 DEF TypeOK, TabNumbers
  <2>6. /\ pending'[t].focusSeconds = 0 /\ practised' = practised + credit /\ unheard' = unheard
        /\ UNCHANGED <<service, epoch, session, generation, call>> /\ n.phase # "replacing"
    BY <1>2, <1>6, <2>1 DEF Flush, NoChanges, TypeOK, Phase
  <2>7. r = [n EXCEPT !.stores = n.views + credit, !.views = n.views + credit, !.pends = 0,
                      !.shows = n.shows + credit]
    <3>1. /\ r.stores = n.views + credit /\ r.views = n.views + credit /\ r.pends = 0
          /\ r.shows = n.shows + credit /\ n.views + credit \in Int /\ n.shows + credit \in Int
      BY <1>1, <1>3, <2>5, <2>6 DEF TabNumbers
    <3>2. /\ r.phase = n.phase /\ r.known = n.known /\ r.joined = n.joined /\ r.total = n.total
          /\ r.agreed = n.agreed /\ r.sent = n.sent /\ r.delta = n.delta /\ r.told = n.told
          /\ r.fenced = n.fenced
      BY <1>2, <1>3, <2>6
    <3>3. QED
      BY <1>1, <3>1, <3>2 DEF TabNumbers
  <2>8. InStep(r) /\ Covers(r, f[t] + credit)
    BY <1>1, <2>6, <2>7, FlushingCovers
  <2>9. QED
    BY <1>4, <2>6, <2>8, CountQuiet DEF r
<1>7. CASE Follow(t)
  <2>1. /\ pending[t] = NoChanges /\ Publish(t, Saved(t))
        /\ generation'[t] = epoch[D(t)]
        /\ UNCHANGED <<service, disk, session, pending, call, history>>
    BY <1>7 DEF Follow, TypeOK
  <2>2. n.pends = 0 /\ n.views = n.stores /\ ~n.fenced
    BY <1>1, <1>2, <2>1 DEF NoChanges, InStep, TabNumbers
  <2>3. shown'[t].focusSeconds = n.shows /\ view'[t].focusSeconds = n.views
    <3> DEFINE w == ApplyProgressChanges(Saved(t), ProgressChanges(view[t], shown[t]))
    <3>1. ProgressChanges(view[t], shown[t]) \in Delta
          /\ ProgressChanges(view[t], shown[t]).focusSeconds = n.shows - n.views
      BY <1>2, <1>4, ChangesType, SecondsAddUp, NoChangesType
    <3>2. w.focusSeconds = n.stores + (n.shows - n.views)
      BY <1>4, <3>1, SecondsAddUp
    <3>3. w.focusSeconds = n.shows
      BY <1>1, <2>2, <3>2 DEF TabNumbers
    <3>4. view'[t] = Saved(t) /\ shown'[t] \in {w, shown[t]}
      BY <2>1 DEF Publish, TypeOK
    <3> HIDE DEF w
    <3>5. QED
      BY <1>2, <1>4, <2>2, <3>3, <3>4
  <2>4. r = n
    BY <1>1, <1>2, <1>3, <2>1, <2>2, <2>3 DEF TabNumbers
  <2>5. QED
    BY <1>1, <1>4, <2>1, <2>4, CountQuiet DEF r
<1>8. CASE Replaced(t)
  <2>1. /\ Enter(t, "reconciled", FreshState) /\ n.phase = "replacing"
        /\ UNCHANGED <<service, session, history>>
        /\ stored' = [stored EXCEPT ![D(t)] = call[t].before]
        /\ shown' = [shown EXCEPT ![t] = call[t].before]
        /\ view' = [view EXCEPT ![t] = call[t].before]
        /\ pending' = [pending EXCEPT ![t] = NoChanges]
        /\ epoch' = [epoch EXCEPT ![D(t)] = @ + 1]
        /\ generation' = [generation EXCEPT ![t] = epoch[D(t)] + 1]
    BY <1>2, <1>8 DEF Replaced, Phase
  <2>2. /\ stored'[D(t)].focusSeconds = n.sent /\ shown'[t].focusSeconds = n.sent
        /\ view'[t].focusSeconds = n.sent /\ pending'[t].focusSeconds = 0
        /\ epoch'[D(t)] = generation'[t]
    BY <1>2, <1>4, <2>1 DEF TypeOK, NoChanges
  <2>3. /\ call'[t].phase = "reconciled" /\ call'[t].reply = call[t].reply
        /\ call'[t].before.focusSeconds = 0 /\ call'[t].changes.focusSeconds = 0
    BY <2>1 DEF Enter, Idle, TypeOK, FreshState, NoChanges
  <2>4. ~n.fenced
    BY <1>1 DEF InStep
  <2>5. r = [n EXCEPT !.phase = "reconciled", !.stores = n.sent, !.views = n.sent,
                      !.shows = n.sent, !.pends = 0, !.sent = 0, !.delta = 0]
    <3>1. /\ r.stores = n.sent /\ r.views = n.sent /\ r.pends = 0 /\ r.shows = n.sent
          /\ r.phase = "reconciled" /\ r.sent = 0 /\ r.delta = 0 /\ r.told = n.told
      BY <1>2, <1>3, <2>2, <2>3
    <3>2. r.known = n.known /\ r.joined = n.joined /\ r.total = n.total /\ r.agreed = n.agreed
      BY <1>2, <1>3, <2>1
    <3>3. r.fenced = n.fenced
      BY <1>1, <1>3, <2>2, <2>4 DEF TabNumbers
    <3>4. QED
      BY <1>1, <3>1, <3>2, <3>3 DEF TabNumbers
  <2>6. InStep(r) /\ Covers(r, f[t] + 0)
    BY <1>1, <1>4, <2>1, <2>5, ReplacingCovers
  <2>7. QED
    BY <1>4, <2>1, <2>6, CountQuiet DEF r
<1>9. QED
  BY <1>5, <1>6, <1>7, <1>8

-----------------------------------------------------------------------------

\* A call that is given up, refused or damaged leaves the tab with what it had to
\* give, and with what the account has got and the tab has not heard.
LEMMA CountEnds ==
    ASSUME OneTabPerDevice, TypeOK, TypeOK', NEW t \in Tabs, TabStep(t),
           NEW f \in [Tabs -> Nat], Counts(f),
           Reload(t) \/ Lose(t) \/ SignedOut(t) \/ Damage(t) \/ Logout(t) \/ Restore(t)
    PROVE  CountInv'
<1> USE DEF service, disk, session, page, bounds, storageFaults, history
<1> DEFINE n == Numbers(t)
           r == Numbers(t)'
<1>1. /\ n \in TabNumbers /\ r \in TabNumbers /\ f[t] \in Nat /\ f[t] + 0 = f[t]
      /\ InStep(n) /\ Covers(n, f[t])
      /\ practised \in Nat /\ unheard \in Nat
  BY CountingStarts DEF TypeOK
<1>2. /\ n.phase = call[t].phase /\ n.known = baseline[D(t)].known
      /\ n.joined = created /\ n.total = account.focusSeconds
      /\ n.shows = shown[t].focusSeconds /\ n.views = view[t].focusSeconds
      /\ n.stores = stored[D(t)].focusSeconds /\ n.pends = pending[t].focusSeconds
      /\ n.agreed = baseline[D(t)].state.focusSeconds
      /\ n.sent = call[t].before.focusSeconds /\ n.delta = call[t].changes.focusSeconds
      /\ n.told = call[t].reply.focusSeconds
      /\ n.fenced = (generation[t] # epoch[D(t)])
  BY CountingStarts DEF FieldsOf, Phase, Fenced
<1>3. /\ r.phase = call'[t].phase /\ r.known = baseline'[D(t)].known
      /\ r.joined = created' /\ r.total = account'.focusSeconds
      /\ r.shows = shown'[t].focusSeconds /\ r.views = view'[t].focusSeconds
      /\ r.stores = stored'[D(t)].focusSeconds /\ r.pends = pending'[t].focusSeconds
      /\ r.agreed = baseline'[D(t)].state.focusSeconds
      /\ r.sent = call'[t].before.focusSeconds /\ r.delta = call'[t].changes.focusSeconds
      /\ r.told = call'[t].reply.focusSeconds
      /\ r.fenced = (generation'[t] # epoch'[D(t)])
  BY CountingStarts
<1>4. /\ D(t) \in Devices /\ call[t] \in Call /\ baseline[D(t)] \in Agreement
      /\ shown[t] \in State /\ view[t] \in State /\ stored[D(t)] \in State
      /\ ReadState(t) \in State /\ ReadState(t).focusSeconds = n.shows
  <2>1. shown[t] \in State /\ shown[t].focusSeconds >= 0
    BY <1>1, <1>2 DEF TypeOK, InStep
  <2>2. ReadState(t).focusSeconds = n.shows /\ ReadState(t) \in State
    BY <1>2, <2>1, SanitizeType DEF ReadState, SanitizeState, State
  <2>3. QED
    BY <2>1, <2>2, DeviceType DEF TypeOK
<1>5. Idle.phase = "idle" /\ Idle.before.focusSeconds = 0
      /\ Idle.changes.focusSeconds = 0 /\ Idle.reply.focusSeconds = 0
  BY DEF Idle, FreshState, NoChanges
<1>6. FreshState.focusSeconds = 0 /\ NoAgreement.state.focusSeconds = 0 /\ ~NoAgreement.known
  BY DEF FreshState, NoAgreement
<1> HIDE DEF n, r
<1>7. CASE Lose(t) \/ Reload(t)
  <2>1. GivesUp(t) /\ call'[t] = Idle /\ UNCHANGED <<service, disk, baseline>>
    BY <1>7 DEF Lose, Reload, TypeOK
  <2>2. Unheard(n) \in Nat
    BY <1>1, EndingCovers
  <2>3. practised' = practised /\ unheard' = unheard + Unheard(n)
    <3>1. n.phase = "replied" => n.delta \in Nat
      BY <1>1 DEF InStep, TabNumbers
    <3>2. practised' = practised
          /\ IF n.phase = "replied" THEN Disagrees(n.delta) ELSE unheard' = unheard
      BY <1>2, <2>1 DEF GivesUp, Phase
    <3>3. QED
      BY <1>1, <3>1, <3>2 DEF Disagrees, Unheard
  <2>4. /\ r.phase = "idle" /\ r.sent = 0 /\ r.delta = 0 /\ r.told = 0
        /\ r.known = n.known /\ r.joined = n.joined /\ r.total = n.total
        /\ r.agreed = n.agreed /\ r.stores = n.stores
    BY <1>2, <1>3, <1>5, <2>1
  <2>5. InStep(r) /\ Covers(r, f[t] + Unheard(n))
    <3>1. CASE Lose(t)
      <4>1. r.shows = n.shows /\ r.views = n.views /\ r.pends = n.pends /\ r.fenced = n.fenced
        BY <1>2, <1>3, <3>1 DEF Lose
      <4>2. r = [n EXCEPT !.phase = "idle", !.sent = 0, !.delta = 0, !.told = 0]
        BY <1>1, <2>4, <4>1 DEF TabNumbers
      <4>3. QED
        BY <1>1, <4>2, EndingCovers
    <3>2. CASE Reload(t)
      <4>1. Saved(t).focusSeconds = n.stores
        BY <1>1, <1>2, <1>4 DEF Saved, SanitizeState, InStep, State
      <4>2. /\ shown'[t] = Saved(t) /\ view'[t] = Saved(t) /\ pending'[t] = NoChanges
            /\ generation'[t] = epoch[D(t)] /\ epoch' = epoch
        BY <3>2 DEF Reload, TypeOK
      <4>3. r.shows = n.stores /\ r.views = n.stores /\ r.pends = 0
        BY <1>3, <4>1, <4>2 DEF NoChanges
      <4>4. r.fenced = n.fenced
        BY <1>1, <1>3, <4>2 DEF InStep, TabNumbers
      <4>5. r = [n EXCEPT !.phase = "idle", !.sent = 0, !.delta = 0, !.told = 0,
                          !.shows = n.stores, !.views = n.stores, !.pends = 0]
        BY <1>1, <2>4, <4>3, <4>4 DEF TabNumbers
      <4>6. QED
        BY <1>1, <4>5, EndingCovers
    <3>3. QED
      BY <1>7, <3>1, <3>2
  <2>6. practised + unheard + Unheard(n) <= practised' + unheard'
    BY <1>1, <2>2, <2>3
  <2>7. QED
    BY <2>1, <2>2, <2>5, <2>6, CountQuiet DEF r
<1>8. CASE SignedOut(t)
  <2>1. /\ call'[t] = Idle /\ n.phase = "refused"
        /\ UNCHANGED <<service, disk, baseline, page, history>>
    BY <1>2, <1>8 DEF SignedOut, Phase, TypeOK
  <2>2. r = [n EXCEPT !.phase = "idle", !.sent = 0, !.delta = 0, !.told = 0]
    <3>1. r.phase = "idle" /\ r.sent = 0 /\ r.delta = 0 /\ r.told = 0
      BY <1>3, <1>5, <2>1
    <3>2. /\ r.known = n.known /\ r.joined = n.joined /\ r.total = n.total /\ r.shows = n.shows
          /\ r.views = n.views /\ r.stores = n.stores /\ r.pends = n.pends
          /\ r.agreed = n.agreed /\ r.fenced = n.fenced
      BY <1>2, <1>3, <2>1
    <3>3. QED
      BY <1>1, <3>1, <3>2 DEF TabNumbers
  <2>3. Unheard(n) = 0
    BY <2>1 DEF Unheard
  <2>4. InStep(r) /\ Covers(r, f[t] + 0)
    BY <1>1, <2>2, <2>3, EndingCovers
  <2>5. QED
    BY <1>1, <2>1, <2>4, CountQuiet DEF r
<1>9. CASE Damage(t) \/ Logout(t)
  <2>1. /\ baseline'[D(t)] = NoAgreement
        /\ UNCHANGED <<account, created, disk, page, call, history>>
    BY <1>4, <1>9 DEF Damage, Logout, TypeOK
  <2>2. r = [n EXCEPT !.known = FALSE, !.agreed = 0]
    BY <1>1, <1>2, <1>3, <1>6, <2>1 DEF TabNumbers
  <2>3. InStep(r) /\ Covers(r, f[t] + 0)
    BY <1>1, <2>2, ForgettingCovers
  <2>4. QED
    BY <1>1, <2>1, <2>3, CountQuiet DEF r
<1>10. CASE Restore(t)
  <2>1. UNCHANGED <<service, disk, baseline, page, call, history>>
    BY <1>10 DEF Restore
  <2>2. r = n
    BY <1>1, <1>2, <1>3, <2>1 DEF TabNumbers
  <2>3. QED
    BY <1>1, <2>1, <2>2, CountQuiet DEF r
<1>11. QED
  BY <1>7, <1>8, <1>9, <1>10

\* What a request takes with it the tab still has to give.
LEMMA CountAsks ==
    ASSUME OneTabPerDevice, TypeOK, TypeOK', NEW t \in Tabs, TabStep(t),
           NEW f \in [Tabs -> Nat], Counts(f),
           Join(t) \/ Fetch(t) \/ Push(t) \/ SaveEnds(t)
    PROVE  CountInv'
<1> USE DEF service, disk, session, page, bounds, storageFaults, history
<1> DEFINE n == Numbers(t)
           r == Numbers(t)'
<1>1. /\ n \in TabNumbers /\ r \in TabNumbers /\ f[t] \in Nat /\ f[t] + 0 = f[t]
      /\ InStep(n) /\ Covers(n, f[t])
      /\ practised \in Nat /\ unheard \in Nat
  BY CountingStarts DEF TypeOK
<1>2. /\ n.phase = call[t].phase /\ n.known = baseline[D(t)].known
      /\ n.joined = created /\ n.total = account.focusSeconds
      /\ n.shows = shown[t].focusSeconds /\ n.views = view[t].focusSeconds
      /\ n.stores = stored[D(t)].focusSeconds /\ n.pends = pending[t].focusSeconds
      /\ n.agreed = baseline[D(t)].state.focusSeconds
      /\ n.sent = call[t].before.focusSeconds /\ n.delta = call[t].changes.focusSeconds
      /\ n.told = call[t].reply.focusSeconds
      /\ n.fenced = (generation[t] # epoch[D(t)])
  BY CountingStarts DEF FieldsOf, Phase, Fenced
<1>3. /\ r.phase = call'[t].phase /\ r.known = baseline'[D(t)].known
      /\ r.joined = created' /\ r.total = account'.focusSeconds
      /\ r.shows = shown'[t].focusSeconds /\ r.views = view'[t].focusSeconds
      /\ r.stores = stored'[D(t)].focusSeconds /\ r.pends = pending'[t].focusSeconds
      /\ r.agreed = baseline'[D(t)].state.focusSeconds
      /\ r.sent = call'[t].before.focusSeconds /\ r.delta = call'[t].changes.focusSeconds
      /\ r.told = call'[t].reply.focusSeconds
      /\ r.fenced = (generation'[t] # epoch'[D(t)])
  BY CountingStarts
<1>4. /\ D(t) \in Devices /\ call[t] \in Call /\ baseline[D(t)] \in Agreement
      /\ shown[t] \in State /\ view[t] \in State /\ stored[D(t)] \in State
      /\ ReadState(t) \in State /\ ReadState(t).focusSeconds = n.shows
  <2>1. shown[t] \in State /\ shown[t].focusSeconds >= 0
    BY <1>1, <1>2 DEF TypeOK, InStep
  <2>2. ReadState(t).focusSeconds = n.shows /\ ReadState(t) \in State
    BY <1>2, <2>1, SanitizeType DEF ReadState, SanitizeState, State
  <2>3. QED
    BY <2>1, <2>2, DeviceType DEF TypeOK
<1>5. Idle.phase = "idle" /\ Idle.before.focusSeconds = 0
      /\ Idle.changes.focusSeconds = 0 /\ Idle.reply.focusSeconds = 0
  BY DEF Idle, FreshState, NoChanges
<1>6. FreshState.focusSeconds = 0 /\ NoAgreement.state.focusSeconds = 0 /\ ~NoAgreement.known
  BY DEF FreshState, NoAgreement
<1> HIDE DEF n, r
<1>7. UNCHANGED <<service, disk, baseline, page, history>>
  BY DEF Join, Fetch, Push, SaveEnds
<1>8. /\ r.known = n.known /\ r.joined = n.joined /\ r.total = n.total /\ r.shows = n.shows
      /\ r.views = n.views /\ r.stores = n.stores /\ r.pends = n.pends /\ r.agreed = n.agreed
      /\ r.fenced = n.fenced
  BY <1>2, <1>3, <1>7
<1>9. InStep(r) /\ Covers(r, f[t])
  <2>1. CASE Join(t)
    <3>1. /\ call'[t] = [Idle EXCEPT !.phase = "joining", !.session = joins', !.before = ReadState(t)]
          /\ n.phase = "idle"
      BY <1>2, <2>1 DEF Join, TypeOK, Phase
    <3>2. r.phase = "joining" /\ r.sent = n.shows /\ r.delta = 0 /\ r.told = 0
      BY <1>3, <1>4, <1>5, <3>1 DEF Idle
    <3>3. r = [n EXCEPT !.phase = "joining", !.sent = n.shows, !.delta = 0, !.told = 0]
      BY <1>1, <1>8, <3>2 DEF TabNumbers
    <3>4. QED
      BY <1>1, <3>1, <3>3, AskingCovers
  <2>2. CASE Fetch(t)
    <3>1. /\ call'[t] = [Idle EXCEPT !.phase = "fetching", !.session = Presented(t)]
          /\ n.phase = "idle"
      BY <1>2, <2>2 DEF Fetch, TypeOK, Phase
    <3>2. r.phase = "fetching" /\ r.sent = 0 /\ r.delta = 0 /\ r.told = 0
      BY <1>3, <1>5, <3>1 DEF Idle
    <3>3. r = [n EXCEPT !.phase = "fetching", !.sent = 0, !.delta = 0, !.told = 0]
      BY <1>1, <1>8, <3>2 DEF TabNumbers
    <3>4. QED
      BY <1>1, <3>1, <3>3, AskingCovers
  <2>3. CASE Push(t)
    <3>1. PICK base \in {baseline[D(t)].state, call[t].reply} :
            /\ \/ n.phase = "idle" /\ n.known /\ base = baseline[D(t)].state
               \/ n.phase = "reconciled" /\ base = call[t].reply
            /\ call'[t] = [Idle EXCEPT !.phase = "sending", !.session = Presented(t),
                                       !.before = ReadState(t),
                                       !.changes = ProgressChanges(base, ReadState(t))]
      <4>1. PICK base \in {baseline[D(t)].state, call[t].reply} :
              /\ \/ Phase(t) = "idle" /\ signed[t] /\ baseline[D(t)].known
                    /\ base = baseline[D(t)].state
                 \/ Phase(t) = "reconciled" /\ base = call[t].reply
              /\ call' = [call EXCEPT ![t] =
                    [Idle EXCEPT !.phase = "sending", !.session = Presented(t),
                                 !.before = ReadState(t),
                                 !.changes = ProgressChanges(base, ReadState(t))]]
        BY <2>3 DEF Push
      <4>2. n.phase = Phase(t) /\ n.known = baseline[D(t)].known
        BY <1>2 DEF Phase
      <4>3. call \in [Tabs -> Call]
        BY DEF TypeOK
      <4>4. QED
        BY <4>1, <4>2, <4>3
    <3>2. base \in State
      BY <1>4 DEF Agreement, Call
    <3>3. ProgressChanges(base, ReadState(t)).focusSeconds = n.shows - base.focusSeconds
      BY <1>4, <3>2 DEF ProgressChanges
    <3>4. /\ r.phase = "sending" /\ r.sent = n.shows /\ r.told = 0
          /\ r.delta = n.shows - base.focusSeconds
      <4> DEFINE d == ProgressChanges(base, ReadState(t))
      <4>1. d.focusSeconds = n.shows - base.focusSeconds
        BY <3>3
      <4>2. call'[t] = [Idle EXCEPT !.phase = "sending", !.session = Presented(t),
                                    !.before = ReadState(t), !.changes = d]
        BY <3>1
      <4> HIDE DEF d
      <4>3. QED
        BY <1>3, <1>4, <1>5, <4>1, <4>2 DEF Idle
    <3>5. /\ base.focusSeconds \in Int
          /\ \/ n.phase = "idle" /\ n.known /\ base.focusSeconds = n.agreed
             \/ n.phase = "reconciled" /\ base.focusSeconds = n.told
      BY <1>2, <3>1, <3>2 DEF State
    <3>6. r = [n EXCEPT !.phase = "sending", !.sent = n.shows,
                        !.delta = n.shows - base.focusSeconds, !.told = 0]
      BY <1>1, <1>8, <3>4 DEF TabNumbers
    <3>7. QED
      BY <1>1, <3>5, <3>6, PushingCovers
  <2>4. CASE SaveEnds(t)
    <3>1. CASE Phase(t) = "saving"
      <4>1. call'[t] = Idle /\ n.phase = "saving"
        BY <1>2, <2>4, <3>1 DEF SaveEnds, TypeOK, Phase
      <4>2. r = [n EXCEPT !.phase = "idle", !.sent = 0, !.delta = 0, !.told = 0]
        BY <1>1, <1>3, <1>5, <1>8, <4>1 DEF TabNumbers
      <4>3. QED
        BY <1>1, <4>1, <4>2, SaveEndingCovers
    <3>2. CASE Phase(t) = "merging"
      <4>1. /\ call'[t] = [Idle EXCEPT !.phase = "reconciled", !.before = FreshState,
                                       !.reply = call[t].reply]
            /\ n.phase = "merging"
        BY <1>2, <2>4, <3>2 DEF SaveEnds, Enter, TypeOK, Phase
      <4>2. r.phase = "reconciled" /\ r.sent = 0 /\ r.delta = 0 /\ r.told = n.told
        BY <1>2, <1>3, <1>5, <1>6, <4>1 DEF Idle
      <4>3. r = [n EXCEPT !.phase = "reconciled", !.sent = 0, !.delta = 0]
        BY <1>1, <1>8, <4>2 DEF TabNumbers
      <4>4. QED
        BY <1>1, <4>1, <4>3, SaveEndingCovers
    <3>3. QED
      BY <2>4, <3>1, <3>2 DEF SaveEnds
  <2>5. QED
    BY <2>1, <2>2, <2>3, <2>4
<1>10. QED
  BY <1>1, <1>7, <1>9, CountQuiet DEF r

-----------------------------------------------------------------------------

\* An answer changes what a call is told and nothing of what it sent.
LEMMA AnswerFields ==
    ASSUME TypeOK, NEW t \in Tabs, NEW p, NEW s, NEW a, Answer(t, p, s, a)
    PROVE  /\ call'[t].phase = p /\ call'[t].reply = a
           /\ call'[t].before = call[t].before /\ call'[t].changes = call[t].changes
<1>1. call[t] \in Call
  BY DEF TypeOK
<1>2. call'[t] = [[[call[t] EXCEPT !.phase = p] EXCEPT !.session = s] EXCEPT !.reply = a]
  BY <1>1 DEF Answer, TypeOK
<1>3. QED
  BY <1>1, <1>2 DEF Call

\* The service takes off what a tab has to give what it adds to the account.
LEMMA CountServe ==
    ASSUME OneTabPerDevice, TypeOK, TypeOK', NEW t \in Tabs, TabStep(t),
           NEW f \in [Tabs -> Nat], Counts(f),
           HeardInv, ~takenBack', Serve(t)
    PROVE  CountInv'
<1> USE DEF service, disk, session, page, bounds, storageFaults, history
<1> DEFINE n == Numbers(t)
           r == Numbers(t)'
<1>1. /\ n \in TabNumbers /\ r \in TabNumbers /\ f[t] \in Nat /\ f[t] + 0 = f[t]
      /\ InStep(n) /\ Covers(n, f[t])
      /\ practised \in Nat /\ unheard \in Nat
  BY CountingStarts DEF TypeOK
<1>2. /\ n.phase = call[t].phase /\ n.known = baseline[D(t)].known
      /\ n.joined = created /\ n.total = account.focusSeconds
      /\ n.shows = shown[t].focusSeconds /\ n.views = view[t].focusSeconds
      /\ n.stores = stored[D(t)].focusSeconds /\ n.pends = pending[t].focusSeconds
      /\ n.agreed = baseline[D(t)].state.focusSeconds
      /\ n.sent = call[t].before.focusSeconds /\ n.delta = call[t].changes.focusSeconds
      /\ n.told = call[t].reply.focusSeconds
      /\ n.fenced = (generation[t] # epoch[D(t)])
  BY CountingStarts DEF FieldsOf, Phase, Fenced
<1>3. /\ r.phase = call'[t].phase /\ r.known = baseline'[D(t)].known
      /\ r.joined = created' /\ r.total = account'.focusSeconds
      /\ r.shows = shown'[t].focusSeconds /\ r.views = view'[t].focusSeconds
      /\ r.stores = stored'[D(t)].focusSeconds /\ r.pends = pending'[t].focusSeconds
      /\ r.agreed = baseline'[D(t)].state.focusSeconds
      /\ r.sent = call'[t].before.focusSeconds /\ r.delta = call'[t].changes.focusSeconds
      /\ r.told = call'[t].reply.focusSeconds
      /\ r.fenced = (generation'[t] # epoch'[D(t)])
  BY CountingStarts
<1>4. /\ D(t) \in Devices /\ call[t] \in Call /\ baseline[D(t)] \in Agreement
      /\ shown[t] \in State /\ view[t] \in State /\ stored[D(t)] \in State
      /\ ReadState(t) \in State /\ ReadState(t).focusSeconds = n.shows
  <2>1. shown[t] \in State /\ shown[t].focusSeconds >= 0
    BY <1>1, <1>2 DEF TypeOK, InStep
  <2>2. ReadState(t).focusSeconds = n.shows /\ ReadState(t) \in State
    BY <1>2, <2>1, SanitizeType DEF ReadState, SanitizeState, State
  <2>3. QED
    BY <2>1, <2>2, DeviceType DEF TypeOK
<1>5. Idle.phase = "idle" /\ Idle.before.focusSeconds = 0
      /\ Idle.changes.focusSeconds = 0 /\ Idle.reply.focusSeconds = 0
  BY DEF Idle, FreshState, NoChanges
<1>6. FreshState.focusSeconds = 0 /\ NoAgreement.state.focusSeconds = 0 /\ ~NoAgreement.known
  BY DEF FreshState, NoAgreement
<1> HIDE DEF n, r
<1>7. /\ UNCHANGED <<disk, session, page, practised, unheard>>
      /\ account \in State /\ created \in BOOLEAN
  BY DEF Serve, TypeOK
<1>8. /\ r.known = n.known /\ r.shows = n.shows /\ r.views = n.views /\ r.stores = n.stores
      /\ r.pends = n.pends /\ r.agreed = n.agreed /\ r.fenced = n.fenced
  BY <1>2, <1>3, <1>7
<1>9. CASE Phase(t) = "sending" /\ call[t].session \in sessions
  <2>1. /\ account' = SanitizeState(ApplyProgressChanges(account, call[t].changes))
        /\ Answer(t, "replied", NoSession, account') /\ created' = created /\ created
        /\ takenBack' = (takenBack \/ account'.focusSeconds < account.focusSeconds)
    BY <1>7, <1>9 DEF Serve, HeardInv
  <2>2. account'.focusSeconds = IF n.total + n.delta >= 0 THEN n.total + n.delta ELSE 0
    <3> DEFINE s == ApplyProgressChanges(account, call[t].changes)
    <3>1. call[t].changes \in Delta
      BY <1>4 DEF Call
    <3>2. s \in State /\ s.focusSeconds = n.total + n.delta
      BY <1>2, <1>7, <3>1, ApplyType, SecondsAddUp
    <3>3. account' = SanitizeState(s)
      BY <2>1
    <3> HIDE DEF s
    <3>4. QED
      BY <3>2, <3>3 DEF SanitizeState, State
  <2>3. n.phase = "sending" /\ n.joined
    BY <1>2, <1>9, <2>1 DEF Phase
  <2>4. n.delta >= 0 /\ account'.focusSeconds = n.total + n.delta
    <3>1. ~(account'.focusSeconds < n.total)
      BY <1>2, <2>1
    <3>2. n.sent - n.delta <= n.total /\ n.sent >= 0 /\ n.total >= 0
      BY <1>1, <2>3 DEF InStep
    <3>3. QED
      BY <1>1, <2>2, <3>1, <3>2 DEF TabNumbers
  <2>5. /\ r.phase = "replied" /\ r.told = n.total + n.delta /\ r.total = n.total + n.delta
        /\ r.sent = n.sent /\ r.delta = n.delta /\ r.joined = n.joined
    BY <1>2, <1>3, <2>1, <2>4, AnswerFields
  <2>6. r = [n EXCEPT !.phase = "replied", !.total = n.total + n.delta, !.told = n.total + n.delta]
    BY <1>1, <1>8, <2>5 DEF TabNumbers
  <2>7. InStep(r) /\ Covers(r, f[t] - n.delta) /\ f[t] - n.delta \in Nat
    BY <1>1, <2>3, <2>4, <2>6, GivingCovers
  <2>8. /\ account.focusSeconds = n.total /\ n.total \in Int /\ n.delta \in Int
        /\ account'.focusSeconds = n.total + n.delta
    BY <1>1, <1>2, <2>4 DEF TabNumbers
  <2>9. /\ account.focusSeconds <= account'.focusSeconds
        /\ account'.focusSeconds + (f[t] - n.delta) + practised + unheard
             <= account.focusSeconds + f[t] + practised' + unheard'
    BY <1>1, <1>7, <2>4, <2>8
  <2>10. LeavesOthers(t) /\ (created => created')
    BY StepLeavesOthers
  <2>11. QED
    BY <2>7, <2>9, <2>10, CountMoves DEF r
<1>10. CASE Phase(t) = "joining" /\ ~created
  <2>1. /\ account' = call[t].before /\ created' = TRUE
        /\ Answer(t, "joined", call[t].session, account')
    BY <1>10 DEF Serve
  <2>2. n.phase = "joining" /\ ~n.joined
    BY <1>2, <1>10 DEF Phase
  <2>3. /\ r.phase = "joined" /\ r.told = n.sent /\ r.total = n.sent /\ r.joined = TRUE
        /\ r.sent = n.sent /\ r.delta = n.delta
    BY <1>2, <1>3, <2>1, AnswerFields
  <2>4. r = [n EXCEPT !.phase = "joined", !.joined = TRUE, !.total = n.sent, !.told = n.sent]
    BY <1>1, <1>8, <2>3 DEF TabNumbers
  <2>5. InStep(r) /\ Covers(r, f[t] - n.sent) /\ f[t] - n.sent \in Nat
    BY <1>1, <2>2, <2>4, FoundingCovers
  <2>6. /\ account.focusSeconds = 0 /\ account'.focusSeconds = n.sent /\ n.sent \in Int
        /\ n.sent >= 0
    BY <1>1, <1>2, <2>1, <2>2 DEF TabNumbers, InStep
  <2>7. /\ account.focusSeconds <= account'.focusSeconds
        /\ account'.focusSeconds + (f[t] - n.sent) + practised + unheard
             <= account.focusSeconds + f[t] + practised' + unheard'
    BY <1>1, <1>7, <2>6
  <2>8. LeavesOthers(t) /\ (created => created')
    BY StepLeavesOthers
  <2>9. QED
    BY <2>5, <2>7, <2>8, CountMoves DEF r
<1>11. CASE \/ Phase(t) = "fetching" /\ call[t].session \in sessions
            \/ Phase(t) = "joining" /\ created
            \/ Phase(t) \in {"sending", "fetching"} /\ call[t].session \notin sessions
  <2>1. account' = account /\ created' = created
    BY <1>7, <1>11 DEF Serve, Refuse
  <2>2. r.joined = n.joined /\ r.total = n.total
    BY <1>2, <1>3, <2>1
  <2>3. InStep(r) /\ Covers(r, f[t])
    <3>1. CASE Phase(t) = "fetching" /\ call[t].session \in sessions
      <4>1. Answer(t, "fetched", NoSession, account) /\ created
        BY <1>7, <3>1 DEF Serve, HeardInv
      <4>2. /\ r.phase = "fetched" /\ r.told = n.total /\ r.sent = n.sent /\ r.delta = n.delta
            /\ n.phase = "fetching" /\ n.joined
        BY <1>2, <1>3, <3>1, <4>1, AnswerFields DEF Phase
      <4>3. r = [n EXCEPT !.phase = "fetched", !.told = n.total]
        BY <1>1, <1>8, <2>2, <4>2 DEF TabNumbers
      <4>4. QED
        BY <1>1, <4>2, <4>3, TellingCovers
    <3>2. CASE Phase(t) = "joining" /\ created
      <4>1. Answer(t, "joined", call[t].session, account')
        BY <3>2 DEF Serve
      <4>2. /\ r.phase = "joined" /\ r.told = n.total /\ r.sent = n.sent /\ r.delta = n.delta
            /\ n.phase = "joining" /\ n.joined
        BY <1>2, <1>3, <2>1, <3>2, <4>1, AnswerFields DEF Phase
      <4>3. r = [n EXCEPT !.phase = "joined", !.told = n.total]
        BY <1>1, <1>8, <2>2, <4>2 DEF TabNumbers
      <4>4. QED
        BY <1>1, <4>2, <4>3, TellingCovers
    <3>3. CASE Phase(t) \in {"sending", "fetching"} /\ call[t].session \notin sessions
      <4>1. Answer(t, "refused", NoSession, FreshState)
        BY <3>3 DEF Serve, Refuse
      <4>2. /\ r.phase = "refused" /\ r.told = 0 /\ r.sent = n.sent /\ r.delta = n.delta
            /\ n.phase \in {"sending", "fetching"}
        BY <1>2, <1>3, <1>6, <3>3, <4>1, AnswerFields DEF Phase
      <4>3. r = [n EXCEPT !.phase = "refused", !.told = 0]
        BY <1>1, <1>8, <2>2, <4>2 DEF TabNumbers
      <4>4. QED
        BY <1>1, <4>2, <4>3, TellingCovers
    <3>4. QED
      BY <1>11, <3>1, <3>2, <3>3
  <2>4. QED
    BY <1>1, <1>7, <2>1, <2>3, CountQuiet DEF r
<1>12. QED
  BY <1>9, <1>10, <1>11 DEF Serve

\* A merge counts from the reply; what it could not agree on counts again, once.
LEMMA CountMerges ==
    ASSUME OneTabPerDevice, TypeOK, TypeOK', NEW t \in Tabs, TabStep(t),
           NEW f \in [Tabs -> Nat], Counts(f),
           Merge(t) \/ Reconcile(t)
    PROVE  CountInv'
<1> USE DEF service, disk, session, page, bounds, storageFaults, history
<1> DEFINE n == Numbers(t)
           r == Numbers(t)'
<1>1. /\ n \in TabNumbers /\ r \in TabNumbers /\ f[t] \in Nat /\ f[t] + 0 = f[t]
      /\ InStep(n) /\ Covers(n, f[t])
      /\ practised \in Nat /\ unheard \in Nat
  BY CountingStarts DEF TypeOK
<1>2. /\ n.phase = call[t].phase /\ n.known = baseline[D(t)].known
      /\ n.joined = created /\ n.total = account.focusSeconds
      /\ n.shows = shown[t].focusSeconds /\ n.views = view[t].focusSeconds
      /\ n.stores = stored[D(t)].focusSeconds /\ n.pends = pending[t].focusSeconds
      /\ n.agreed = baseline[D(t)].state.focusSeconds
      /\ n.sent = call[t].before.focusSeconds /\ n.delta = call[t].changes.focusSeconds
      /\ n.told = call[t].reply.focusSeconds
      /\ n.fenced = (generation[t] # epoch[D(t)])
  BY CountingStarts DEF FieldsOf, Phase, Fenced
<1>3. /\ r.phase = call'[t].phase /\ r.known = baseline'[D(t)].known
      /\ r.joined = created' /\ r.total = account'.focusSeconds
      /\ r.shows = shown'[t].focusSeconds /\ r.views = view'[t].focusSeconds
      /\ r.stores = stored'[D(t)].focusSeconds /\ r.pends = pending'[t].focusSeconds
      /\ r.agreed = baseline'[D(t)].state.focusSeconds
      /\ r.sent = call'[t].before.focusSeconds /\ r.delta = call'[t].changes.focusSeconds
      /\ r.told = call'[t].reply.focusSeconds
      /\ r.fenced = (generation'[t] # epoch'[D(t)])
  BY CountingStarts
<1>4. /\ D(t) \in Devices /\ call[t] \in Call /\ baseline[D(t)] \in Agreement
      /\ shown[t] \in State /\ view[t] \in State /\ stored[D(t)] \in State
      /\ ReadState(t) \in State /\ ReadState(t).focusSeconds = n.shows
  <2>1. shown[t] \in State /\ shown[t].focusSeconds >= 0
    BY <1>1, <1>2 DEF TypeOK, InStep
  <2>2. ReadState(t).focusSeconds = n.shows /\ ReadState(t) \in State
    BY <1>2, <2>1, SanitizeType DEF ReadState, SanitizeState, State
  <2>3. QED
    BY <2>1, <2>2, DeviceType DEF TypeOK
<1>5. Idle.phase = "idle" /\ Idle.before.focusSeconds = 0
      /\ Idle.changes.focusSeconds = 0 /\ Idle.reply.focusSeconds = 0
  BY DEF Idle, FreshState, NoChanges
<1>6. FreshState.focusSeconds = 0 /\ NoAgreement.state.focusSeconds = 0 /\ ~NoAgreement.known
  BY DEF FreshState, NoAgreement
<1> HIDE DEF n, r
<1>7. Agree(t, call[t].reply) /\ UNCHANGED <<service, disk, shown, generation>>
  BY DEF Merge, Reconcile
<1>8. /\ r.joined = n.joined /\ r.total = n.total /\ r.shows = n.shows
      /\ r.stores = n.stores /\ r.fenced = n.fenced
  BY <1>2, <1>3, <1>7
<1>9. call[t].reply \in State /\ call[t].before \in State /\ baseline[D(t)].state \in State
      /\ pending[t] \in Delta
  BY <1>4 DEF Call, Agreement, TypeOK
<1>10. /\ practised' = practised
       /\ \/ r.known = TRUE /\ r.agreed = n.told /\ unheard' = unheard
          \/ r.known = n.known /\ r.agreed = n.agreed /\ unheard' = unheard + Unwritten(n)
  <2>1. CASE baseline' = [baseline EXCEPT ![D(t)] = [known |-> TRUE, state |-> call[t].reply]]
             /\ unheard' = unheard
    BY <1>2, <1>3, <1>4, <1>7, <2>1 DEF TypeOK, Agree
  <2>2. CASE baseline' = baseline
             /\ Disagrees(call[t].reply.focusSeconds - baseline[D(t)].state.focusSeconds)
    <3>1. Disagrees(n.told - n.agreed)
      BY <1>2, <2>2
    <3>2. unheard' = unheard + Unwritten(n)
      BY <1>1, <3>1 DEF Disagrees, Unwritten, TabNumbers
    <3>3. QED
      BY <1>2, <1>3, <1>7, <2>2, <3>2 DEF Agree
  <2>3. QED
    BY <1>7, <2>1, <2>2 DEF Agree
<1>11. ASSUME NEW p \in {"saving", "merging", "replacing"}, NEW next \in State, Enter(t, p, next)
       PROVE  r.phase = p /\ r.sent = next.focusSeconds /\ r.delta = 0 /\ r.told = n.told
  <2>1. call'[t] = [Idle EXCEPT !.phase = p, !.before = next, !.reply = call[t].reply]
    BY <1>11 DEF Enter, TypeOK
  <2>2. QED
    BY <1>2, <1>3, <1>5, <2>1 DEF Idle
<1>12. ASSUME NEW s \in TabNumbers,
              InStep([s EXCEPT !.known = TRUE, !.agreed = n.told]),
              Covers([s EXCEPT !.known = TRUE, !.agreed = n.told], f[t]),
              InStep(s), Covers(s, f[t] + Unwritten(n)), Unwritten(n) \in Nat,
              s.known = n.known, s.agreed = n.agreed,
              r.phase = s.phase, r.joined = s.joined, r.total = s.total, r.shows = s.shows,
              r.views = s.views, r.stores = s.stores, r.pends = s.pends, r.sent = s.sent,
              r.delta = s.delta, r.told = s.told, r.fenced = s.fenced
       PROVE  CountInv'
  <2>1. CASE r.known = TRUE /\ r.agreed = n.told /\ unheard' = unheard
    <3>1. r = [s EXCEPT !.known = TRUE, !.agreed = n.told]
      BY <1>1, <1>12, <2>1 DEF TabNumbers
    <3>2. InStep(r) /\ Covers(r, f[t] + 0)
      BY <1>1, <1>12, <3>1
    <3>3. QED
      BY <1>1, <1>7, <1>10, <2>1, <3>2, CountQuiet DEF r
  <2>2. CASE r.known = n.known /\ r.agreed = n.agreed /\ unheard' = unheard + Unwritten(n)
    <3>1. r = s
      BY <1>1, <1>12, <2>2 DEF TabNumbers
    <3>2. practised + unheard + Unwritten(n) <= practised' + unheard'
      BY <1>1, <1>10, <1>12, <2>2
    <3>3. QED
      BY <1>7, <1>12, <3>1, <3>2, CountQuiet DEF r
  <2>3. QED
    BY <1>10, <2>1, <2>2
<1>13. ASSUME NEW next \in State, StoreSave(t, next)
       PROVE  /\ r.views = next.focusSeconds
              /\ r.pends = n.pends + (next.focusSeconds - n.views)
  <2>1. /\ pending' = [pending EXCEPT ![t] = Compose(@, ProgressChanges(view[t], next))]
        /\ view' = [view EXCEPT ![t] = next]
    BY <1>13 DEF StoreSave
  <2>2. ProgressChanges(view[t], next) \in Delta
    BY <1>4, ChangesType
  <2>3. /\ ProgressChanges(view[t], next).focusSeconds = next.focusSeconds - n.views
        /\ Compose(pending[t], ProgressChanges(view[t], next)).focusSeconds =
             pending[t].focusSeconds + ProgressChanges(view[t], next).focusSeconds
    BY <1>2, <1>4, <1>9, <2>2, SecondsAddUp
  <2>4. QED
    BY <1>2, <1>3, <2>1, <2>3 DEF TypeOK
<1>14. CASE Merge(t)
  <2> DEFINE d == ProgressChanges(call[t].before, ReadState(t))
             next == ApplyProgressChanges(call[t].reply, d)
             s == [n EXCEPT !.phase = "saving", !.sent = 0, !.delta = 0,
                            !.views = n.told + (n.shows - n.sent),
                            !.pends = n.pends + (n.told + (n.shows - n.sent) - n.views)]
  <2>1. n.phase = "replied" /\ StoreSave(t, next) /\ Enter(t, "saving", FreshState)
    BY <1>2, <1>14 DEF Merge, Phase
  <2>2. d \in Delta /\ d.focusSeconds = n.shows - n.sent
    <3>1. d \in Delta
      BY <1>4, <1>9, ChangesType
    <3>2. d.focusSeconds = ReadState(t).focusSeconds - call[t].before.focusSeconds
      BY DEF ProgressChanges
    <3>3. QED
      BY <1>2, <1>4, <3>1, <3>2
  <2>3. next \in State /\ next.focusSeconds = n.told + (n.shows - n.sent)
    <3> HIDE DEF d
    <3>1. next \in State /\ next.focusSeconds = call[t].reply.focusSeconds + d.focusSeconds
      BY <1>9, <2>2, ApplyType, SecondsAddUp
    <3>2. QED
      BY <1>2, <2>2, <3>1
  <2>4. /\ r.views = n.told + (n.shows - n.sent)
        /\ r.pends = n.pends + (n.told + (n.shows - n.sent) - n.views)
    <3> HIDE DEF next
    <3>1. /\ r.views = next.focusSeconds
          /\ r.pends = n.pends + (next.focusSeconds - n.views)
      BY <1>13, <2>1, <2>3
    <3>2. next.focusSeconds = n.told + (n.shows - n.sent)
      BY <2>3
    <3>3. /\ n.told \in Int /\ n.shows \in Int /\ n.sent \in Int /\ n.agreed \in Int
          /\ n.pends \in Int /\ n.views \in Int
      BY <1>1 DEF TabNumbers
    <3> HIDE DEF s
    <3> QED BY <3>1, <3>2, <3>3
  <2>5. r.phase = "saving" /\ r.sent = 0 /\ r.delta = 0 /\ r.told = n.told
    BY <1>6, <1>11, <2>1, FreshStateType
  <2>6. /\ s \in TabNumbers /\ s.known = n.known /\ s.agreed = n.agreed
        /\ r.phase = s.phase /\ r.joined = s.joined /\ r.total = s.total /\ r.shows = s.shows
        /\ r.views = s.views /\ r.stores = s.stores /\ r.pends = s.pends /\ r.sent = s.sent
        /\ r.delta = s.delta /\ r.told = s.told /\ r.fenced = s.fenced
    BY <1>1, <1>8, <2>4, <2>5 DEF TabNumbers, Phases
  <2>7. /\ InStep([s EXCEPT !.known = TRUE, !.agreed = n.told])
        /\ Covers([s EXCEPT !.known = TRUE, !.agreed = n.told], f[t])
        /\ InStep(s) /\ Covers(s, f[t] + Unwritten(n)) /\ Unwritten(n) \in Nat
    <3>1. s = [n EXCEPT !.phase = "saving", !.sent = 0, !.delta = 0,
                       !.views = n.told + (n.shows - n.sent),
                       !.pends = n.pends + (n.told + (n.shows - n.sent) - n.views)]
      OBVIOUS
    <3> HIDE DEF s
    <3> QED BY <1>1, <2>1, <3>1, MergingCovers
  <2>8. QED
    <3> HIDE DEF s
    <3> QED BY <1>12, <2>6, <2>7
<1>15. CASE Reconcile(t) /\ baseline[D(t)].known
  <2> DEFINE d == ProgressChanges(baseline[D(t)].state, ReadState(t))
             next == ApplyProgressChanges(call[t].reply, d)
             s == [n EXCEPT !.phase = "merging", !.sent = 0, !.delta = 0,
                            !.views = n.told + (n.shows - n.agreed),
                            !.pends = n.pends + (n.told + (n.shows - n.agreed) - n.views)]
  <2>1. /\ n.phase \in {"fetched", "joined"} /\ n.known
        /\ StoreSave(t, next) /\ Enter(t, "merging", FreshState)
    BY <1>2, <1>15 DEF Reconcile, Phase
  <2>2. d \in Delta /\ d.focusSeconds = n.shows - n.agreed
    <3>1. d \in Delta
      BY <1>4, <1>9, ChangesType
    <3>2. d.focusSeconds = ReadState(t).focusSeconds - baseline[D(t)].state.focusSeconds
      BY DEF ProgressChanges
    <3>3. QED
      BY <1>2, <1>4, <3>1, <3>2
  <2>3. next \in State /\ next.focusSeconds = n.told + (n.shows - n.agreed)
    <3> HIDE DEF d
    <3>1. next \in State /\ next.focusSeconds = call[t].reply.focusSeconds + d.focusSeconds
      BY <1>9, <2>2, ApplyType, SecondsAddUp
    <3>2. QED
      BY <1>2, <2>2, <3>1
  <2>4. /\ r.views = n.told + (n.shows - n.agreed)
        /\ r.pends = n.pends + (n.told + (n.shows - n.agreed) - n.views)
    <3> HIDE DEF next
    <3>1. /\ r.views = next.focusSeconds
          /\ r.pends = n.pends + (next.focusSeconds - n.views)
      BY <1>13, <2>1, <2>3
    <3>2. next.focusSeconds = n.told + (n.shows - n.agreed)
      BY <2>3
    <3>3. /\ n.told \in Int /\ n.shows \in Int /\ n.sent \in Int /\ n.agreed \in Int
          /\ n.pends \in Int /\ n.views \in Int
      BY <1>1 DEF TabNumbers
    <3> HIDE DEF s
    <3> QED BY <3>1, <3>2, <3>3
  <2>5. r.phase = "merging" /\ r.sent = 0 /\ r.delta = 0 /\ r.told = n.told
    BY <1>6, <1>11, <2>1, FreshStateType
  <2>6. /\ s \in TabNumbers /\ s.known = n.known /\ s.agreed = n.agreed
        /\ r.phase = s.phase /\ r.joined = s.joined /\ r.total = s.total /\ r.shows = s.shows
        /\ r.views = s.views /\ r.stores = s.stores /\ r.pends = s.pends /\ r.sent = s.sent
        /\ r.delta = s.delta /\ r.told = s.told /\ r.fenced = s.fenced
    BY <1>1, <1>8, <2>4, <2>5 DEF TabNumbers, Phases
  <2>7. /\ InStep([s EXCEPT !.known = TRUE, !.agreed = n.told])
        /\ Covers([s EXCEPT !.known = TRUE, !.agreed = n.told], f[t])
        /\ InStep(s) /\ Covers(s, f[t] + Unwritten(n)) /\ Unwritten(n) \in Nat
    <3>1. s = [n EXCEPT !.phase = "merging", !.sent = 0, !.delta = 0,
                       !.views = n.told + (n.shows - n.agreed),
                       !.pends = n.pends + (n.told + (n.shows - n.agreed) - n.views)]
      OBVIOUS
    <3> HIDE DEF s
    <3> QED BY <1>1, <2>1, <3>1, CarryingOnCovers
  <2>8. QED
    <3> HIDE DEF s
    <3> QED BY <1>12, <2>6, <2>7
<1>16. CASE Reconcile(t) /\ ~baseline[D(t)].known
  <2> DEFINE next == AdoptState(call[t].reply, ReadState(t))
             s == [n EXCEPT !.phase = "replacing", !.delta = 0,
                            !.sent = IF n.told >= n.shows THEN n.told ELSE n.shows]
  <2>1. /\ n.phase \in {"fetched", "joined"} /\ ~n.known
        /\ Enter(t, "replacing", next) /\ UNCHANGED <<pending, view>>
    BY <1>2, <1>16 DEF Reconcile, Phase
  <2>2. next \in State /\ next.focusSeconds = IF n.told >= n.shows THEN n.told ELSE n.shows
    <3>1. call[t].reply.focusSeconds >= 0 /\ ReadState(t).focusSeconds >= 0
      BY <1>1, <1>2, <1>4 DEF InStep
    <3>2. next \in State
      BY <1>4, <1>9, AdoptType
    <3>3. QED
      BY <1>2, <1>4, <1>9, <3>1, <3>2, SecondsAdopted
  <2>3. /\ r.phase = "replacing" /\ r.delta = 0 /\ r.told = n.told
        /\ r.sent = IF n.told >= n.shows THEN n.told ELSE n.shows
    <3> HIDE DEF next
    <3> QED BY <1>11, <2>1, <2>2
  <2>4. r.views = n.views /\ r.pends = n.pends
    BY <1>2, <1>3, <2>1
  <2>5. /\ s \in TabNumbers /\ s.known = n.known /\ s.agreed = n.agreed
        /\ r.phase = s.phase /\ r.joined = s.joined /\ r.total = s.total /\ r.shows = s.shows
        /\ r.views = s.views /\ r.stores = s.stores /\ r.pends = s.pends /\ r.sent = s.sent
        /\ r.delta = s.delta /\ r.told = s.told /\ r.fenced = s.fenced
    BY <1>1, <1>8, <2>3, <2>4 DEF TabNumbers, Phases
  <2>6. /\ InStep([s EXCEPT !.known = TRUE, !.agreed = n.told])
        /\ Covers([s EXCEPT !.known = TRUE, !.agreed = n.told], f[t])
        /\ InStep(s) /\ Covers(s, f[t] + Unwritten(n)) /\ Unwritten(n) \in Nat
    <3>1. s = [n EXCEPT !.phase = "replacing", !.delta = 0,
                       !.sent = IF n.told >= n.shows THEN n.told ELSE n.shows]
      OBVIOUS
    <3> HIDE DEF s
    <3> QED BY <1>1, <2>1, <3>1, CombiningCovers
  <2>7. QED
    <3> HIDE DEF s
    <3> QED BY <1>12, <2>5, <2>6
<1>17. QED
  BY <1>14, <1>15, <1>16

\* Before anybody practises nothing is owed.
LEMMA CountInit == Init => CountInv
<1> SUFFICES ASSUME Init PROVE CountInv
  OBVIOUS
<1> DEFINE f == [t \in Tabs |-> 0]
<1>1. FreshState.focusSeconds = 0 /\ NoChanges.focusSeconds = 0
  BY DEF FreshState, NoChanges
<1>2. ASSUME NEW t \in Tabs PROVE InStep(Numbers(t)) /\ Covers(Numbers(t), f[t])
  <2> DEFINE n == Numbers(t)
  <2>1. FieldsOf(n, t) /\ D(t) \in Devices
    BY NumbersAre, DeviceType
  <2>2. /\ n.phase = "idle" /\ n.known = FALSE /\ n.joined = FALSE /\ n.total = 0
        /\ n.shows = 0 /\ n.views = 0 /\ n.stores = 0 /\ n.pends = 0 /\ n.agreed = 0
        /\ n.sent = 0 /\ n.delta = 0 /\ n.told = 0 /\ ~n.fenced
    BY <1>1, <2>1 DEF Init, FieldsOf, Phase, Fenced, Idle, NoAgreement
  <2> HIDE DEF n
  <2>3. InStep(n) /\ Covers(n, 0)
    BY <2>2 DEF InStep, Covers, CountedFrom
  <2>4. QED
    BY <2>3 DEF n
<1>3. Owed(f) = {}
  BY DEF Owed
<1>4. IsFiniteSet(Owed(f)) /\ Cardinality(Owed(f)) = 0
  <2> HIDE DEF f
  <2> QED BY <1>3, FS_EmptySet, Zenon
<1>5. account.focusSeconds + Cardinality(Owed(f)) <= practised + unheard
  <2> HIDE DEF f
  <2> QED BY <1>1, <1>4 DEF Init
<1>6. f \in [Tabs -> Nat]
  OBVIOUS
<1>7. Counts(f)
  <2> HIDE DEF f
  <2> QED BY <1>2, <1>4, <1>5 DEF Counts
<1>8. QED
  BY <1>6, <1>7 DEF CountInv

\* With one tab per device, no step makes practice count again that was heard of.
LEMMA CountStep ==
    OneTabPerDevice /\ TypeOK /\ TypeOK' /\ HeardInv /\ CountInv /\ [Next]_vars => CountInv'
<1> SUFFICES ASSUME OneTabPerDevice, TypeOK, TypeOK', HeardInv, CountInv, [Next]_vars
             PROVE  CountInv'
  OBVIOUS
<1>1. ASSUME NEW t \in Tabs, TabStep(t) PROVE CountInv'
  <2>1. CASE takenBack'
    BY <2>1 DEF CountInv
  <2>2. CASE ~takenBack'
    <3>1. ~takenBack
      BY <1>1, <2>2, StepLeavesOthers
    <3>2. PICK f \in [Tabs -> Nat] : Counts(f)
      BY <3>1 DEF CountInv
    <3>3. CASE Save(t) \/ Flush(t) \/ Follow(t) \/ Replaced(t)
      BY <1>1, <3>2, <3>3, CountPage
    <3>4. CASE Reload(t) \/ Lose(t) \/ SignedOut(t) \/ Damage(t) \/ Logout(t) \/ Restore(t)
      BY <1>1, <3>2, <3>4, CountEnds
    <3>5. CASE Join(t) \/ Fetch(t) \/ Push(t) \/ SaveEnds(t)
      BY <1>1, <3>2, <3>5, CountAsks
    <3>6. CASE Serve(t)
      BY <1>1, <2>2, <3>2, <3>6, CountServe
    <3>7. CASE Merge(t) \/ Reconcile(t)
      BY <1>1, <3>2, <3>7, CountMerges
    <3>8. QED
      BY <1>1, <3>3, <3>4, <3>5, <3>6, <3>7 DEF TabStep
  <2>3. QED
    BY <2>1, <2>2
<1>2. CASE Expire \/ UNCHANGED vars
  <2>1. UNCHANGED <<created, account, stored, epoch, baseline, shown, view, pending, generation,
                    call, practised, unheard, takenBack>>
    BY <1>2 DEF Expire, vars, service, disk, session, page, history
  <2>2. \A t \in Tabs : Numbers(t)' = Numbers(t)
    BY <2>1 DEF Numbers, Phase, Fenced, D
  <2>3. CASE takenBack
    BY <2>1, <2>3 DEF CountInv
  <2>4. CASE ~takenBack
    <3>1. PICK f \in [Tabs -> Nat] : Counts(f)
      BY <2>4 DEF CountInv
    <3>2. Counts(f)'
      BY <2>1, <2>2, <3>1 DEF Counts, Owed
    <3>3. QED
      BY <3>2 DEF CountInv
  <2>5. QED
    BY <2>3, <2>4
<1>3. QED
  BY <1>1, <1>2 DEF Next

\* With one tab to a device and while no delta took practice off the account, however
\* many devices sync it, the account counts no second twice but for a reply not heard
\* or an agreement not written, and those once each (sync-client.js:159-206,
\* core.js adoptState).
THEOREM PracticeCountsOnce == OneTabPerDevice => (Spec => []CountedAgainOnlyUnheard)
<1> SUFFICES ASSUME OneTabPerDevice PROVE Spec => []CountedAgainOnlyUnheard
  OBVIOUS
<1>1. TypeOK /\ CountInv => CountedAgainOnlyUnheard
  <2> SUFFICES ASSUME TypeOK, CountInv, ~takenBack
               PROVE  account.focusSeconds <= practised + unheard
    BY DEF CountedAgainOnlyUnheard
  <2>1. PICK f \in [Tabs -> Nat] : Counts(f)
    BY DEF CountInv
  <2>2. /\ Cardinality(Owed(f)) \in Nat
        /\ account.focusSeconds + Cardinality(Owed(f)) <= practised + unheard
    BY <2>1, FS_CardinalityType DEF Counts
  <2>3. account.focusSeconds \in Int /\ practised \in Nat /\ unheard \in Nat
    BY DEF TypeOK, State
  <2>4. QED
    BY <2>2, <2>3
<1>2. TypeOK /\ TypeOK' /\ HeardInv /\ CountInv /\ [Next]_vars => CountInv'
  BY CountStep
<1>3. QED
  BY <1>1, <1>2, TypeInit, TypeStep, HeardInit, HeardStep, CountInit, PTL DEF Spec
=============================================================================
