------------------------------ MODULE SyncPanel ------------------------------
(***************************************************************************)
(* When a page of the static edition syncs, and what its account panel     *)
(* does: the timer, the queue, the back-off and the session's renewal of   *)
(* public/sync-client.js, and the gestures of public/app.js that wait for  *)
(* them.  AccountSync says what a call does to the records; here a record  *)
(* is the number of changes in it.                                         *)
(*                                                                         *)
(* A self-hosted service keeps its session in a cookie ("cookies"); the    *)
(* web edition's gives a token that expires and one to renew it            *)
(* ("tokens").  Both are held in memory only.                              *)
(***************************************************************************)
EXTENDS Integers, Sequences

CONSTANTS MaxChanges, MaxGestured, MaxWorks, MaxMishaps      \* bounds

ASSUME PanelAssumption == {MaxChanges, MaxGestured, MaxWorks, MaxMishaps} \subseteq Nat

VARIABLES edition,                         \* of the service
          latest, agreed,                  \* changes made; of them, in the baseline
          known,                           \* this device has a baseline (readRecord)
          timer, paused,                   \* the debounce; now() < pausedUntil
          signed, bearer, renewable, jar,   \* account, token, refreshToken, cookie
          revoked,                         \* the service ended the session
          works,                           \* the queue, its head in progress
          stage,                           \* where the head is
          busy, arming, message,           \* the panel: syncBusy, deleteArming, ...
          stalled,                         \* history: the last try failed or was put off
          gestured, mishaps                \* how much of the bounds is used

records == <<latest, agreed, known>>
keys == <<signed, bearer, renewable, jar>>
panel == <<busy, arming, message>>
spentUp == <<edition, gestured, mishaps>>
panelVars == <<records, timer, paused, keys, revoked, works, stage, panel, stalled, spentUp>>

\* at: what it waits for; "unread" is a body that never ends.  step: the request
\* the head of the queue makes.  replay: it was renewed after a 401.  before: the
\* changes it carries.
Stage == [at: {"idle", "renew", "out", "unread"},
          step: {"login", "me", "fetch", "push", "logout", "delete", "reset"},
          replay: BOOLEAN, before: Nat]
AtRest == [at |-> "idle", step |-> "me", replay |-> FALSE, before |-> 0]

Works == {"restore", "login", "signup", "reset", "logout", "delete", "sync", "timed", "flush"}

PanelInit ==
    /\ edition \in {"cookies", "tokens"}
    /\ latest = 0 /\ agreed = 0 /\ known \in BOOLEAN
    /\ timer = FALSE /\ paused = FALSE
    /\ signed = FALSE /\ bearer = "none" /\ renewable = FALSE
    /\ jar \in BOOLEAN /\ (jar => edition = "cookies")
    /\ revoked = FALSE
    /\ works = <<"restore">> /\ stage = AtRest
    /\ busy = FALSE /\ arming = FALSE /\ message = "none"
    /\ stalled = FALSE /\ gestured = 0 /\ mishaps = 0

Gestured == gestured < MaxGestured /\ gestured' = gestured + 1 /\ UNCHANGED <<edition, mishaps>>
Mishap == mishaps < MaxMishaps /\ mishaps' = mishaps + 1 /\ UNCHANGED <<edition, gestured>>

Enqueue(work) == Len(works) < MaxWorks /\ works' = Append(works, work)

\* Mutant: a save made while a call is out counts on that call.
ScheduleWhenIdle == timer' = (timer \/ (signed /\ works = << >>))

\* schedule(): only when there is an account to sync with.
Schedule == timer' = (timer \/ signed)

-----------------------------------------------------------------------------
\* The learner.

\* save() of a change, in either form of the page.
Change ==
    /\ latest < MaxChanges /\ latest' = latest + 1
    /\ Schedule /\ stalled' = FALSE
    /\ UNCHANGED <<agreed, known, paused, keys, revoked, works, stage, panel, spentUp>>

\* The page gets the focus: save() of whatever there is.
ComeBack ==
    /\ signed /\ ~timer
    /\ Schedule /\ stalled' = FALSE
    /\ UNCHANGED <<records, paused, keys, revoked, works, stage, panel, spentUp>>

\* The page is hidden: save(), then flush(), which does not wait for the timer.
Hide ==
    /\ Gestured /\ signed /\ latest > agreed
    /\ timer' = FALSE /\ Enqueue("flush")
    /\ UNCHANGED <<records, paused, keys, revoked, stage, panel, stalled>>

SyncNow ==
    /\ Gestured /\ signed /\ ~busy
    /\ message' = "none" /\ busy' = TRUE
    /\ paused' = FALSE /\ timer' = FALSE /\ Enqueue("sync")
    /\ UNCHANGED <<records, keys, revoked, stage, arming, stalled>>

\* submitAccount() and the forgotten password: the form shows when signed out.
Submit(work) ==
    /\ Gestured /\ ~signed /\ ~busy
    /\ message' = "none" /\ busy' = TRUE /\ Enqueue(work)
    /\ UNCHANGED <<records, timer, paused, keys, revoked, stage, arming, stalled>>

\* The only button a running call does not disable.
LogOut ==
    /\ Gestured /\ signed
    /\ message' = "none" /\ timer' = FALSE /\ Enqueue("logout")
    /\ UNCHANGED <<records, paused, keys, revoked, stage, busy, arming, stalled>>

\* A backup is downloaded and its date saved; then the address is asked for.
ArmDeletion ==
    /\ Gestured /\ signed /\ ~busy /\ latest < MaxChanges
    /\ latest' = latest + 1 /\ Schedule /\ stalled' = FALSE
    /\ message' = "none" /\ arming' = TRUE
    /\ UNCHANGED <<agreed, known, paused, keys, revoked, works, stage, busy>>

CancelDeletion ==
    /\ arming /\ signed /\ ~busy
    /\ arming' = FALSE /\ message' = "none"
    /\ UNCHANGED <<records, timer, paused, keys, revoked, works, stage, busy, stalled, spentUp>>

\* The address was typed; typing it enables the button though a call runs.
ConfirmDeletion ==
    /\ Gestured /\ arming /\ signed
    /\ message' = "none" /\ busy' = TRUE
    /\ timer' = FALSE /\ Enqueue("delete")
    /\ UNCHANGED <<records, paused, keys, revoked, stage, arming, stalled>>

\* The debounce is over.
TimerFires ==
    /\ timer /\ timer' = FALSE /\ Enqueue("timed")
    /\ UNCHANGED <<records, paused, keys, revoked, stage, panel, stalled, spentUp>>

-----------------------------------------------------------------------------
\* The queue.

Work == Head(works)

\* Mutant: a gesture that fails leaves the panel busy.
SettleWithoutFinally(work, ok) ==
    /\ works' = Tail(works) /\ stage' = AtRest
    /\ busy' = IF ok /\ work \in {"sync", "login", "signup", "reset", "delete"} THEN FALSE ELSE busy
    /\ arming' = (arming /\ ~(ok /\ work = "delete"))
    /\ message' = IF ok THEN message ELSE "failed"

\* The promise of the work settles and whoever waited for it goes on.
Settle(work, ok) ==
    /\ works' = Tail(works) /\ stage' = AtRest
    /\ busy' = IF work \in {"sync", "login", "signup", "reset", "delete"} THEN FALSE ELSE busy
    /\ arming' = (arming /\ ~(ok /\ work = "delete"))
    /\ message' = CASE work \in {"restore", "flush", "logout"} -> message
                    [] work = "timed" -> IF ok THEN message ELSE "failed"
                    [] work \in {"sync", "login"} -> IF ok THEN "none" ELSE "failed"
                    [] work = "signup" /\ signed -> IF ok THEN "none" ELSE "failed"
                    [] work = "delete" -> IF ok THEN "deleted" ELSE "failed"
                    [] OTHER -> IF ok THEN "told" ELSE "failed"

\* A request that presents the session is sent, or its token renewed first when
\* it is about to expire.
Send(step, replay) ==
    stage' = [at |-> IF /\ step \notin {"login", "reset"} /\ ~replay
                        /\ bearer = "expiring" /\ renewable THEN "renew" ELSE "out",
              step |-> step, replay |-> replay, before |-> latest]

SyncStep == IF known THEN "push" ELSE "fetch"

\* The head of the queue begins.
Begin ==
    /\ works # << >> /\ stage.at = "idle"
    /\ Work \in {"sync", "timed", "flush"} => signed /\ ~paused
    /\ Send(CASE Work = "restore" -> "me" [] Work \in {"login", "signup"} -> "login"
              [] Work \in {"sync", "timed", "flush"} -> SyncStep [] OTHER -> Work, FALSE)
    /\ UNCHANGED <<records, timer, paused, keys, revoked, works, panel, stalled, spentUp>>

\* syncNow() without an account, or while the service asked for a pause.
PutOff ==
    /\ works # << >> /\ stage.at = "idle"
    /\ Work \in {"sync", "timed", "flush"} /\ ~(signed /\ ~paused)
    /\ Settle(Work, TRUE)
    /\ stalled' = (stalled \/ latest > agreed)
    /\ UNCHANGED <<records, timer, paused, keys, revoked, spentUp>>

NoKeys == bearer' = "none" /\ renewable' = FALSE

Forget == NoKeys /\ signed' = FALSE

\* Asking for what the request did not get done: no timer will.
Missed == stalled' = (stalled \/ (latest > agreed /\ ~timer))

\* The service knows the session a request presents; a token about to expire
\* may have done so when it arrives.
Presents == ~revoked /\ (jar \/ bearer # "none")
Unheeded == ~Presents \/ bearer = "expiring"

Renewed ==
    /\ stage.at = "renew" /\ ~revoked
    /\ bearer' = "live" /\ stage' = [stage EXCEPT !.at = "out"]
    /\ UNCHANGED <<records, timer, paused, signed, renewable, jar, revoked, works, panel, stalled, spentUp>>

\* It was refused, failed or has to wait: the tokens are dropped and the request
\* goes without, or is not repeated.  An answer without a token drops nothing.
NotRenewed ==
    /\ stage.at = "renew"
    /\ \/ revoked /\ Forget /\ UNCHANGED <<paused, spentUp>>
       \/ /\ Mishap /\ NoKeys /\ signed' = (signed /\ ~stage.replay)
          /\ paused' \in {paused, TRUE}
       \/ Mishap /\ ~stage.replay /\ UNCHANGED <<signed, bearer, renewable, paused>>
    /\ IF stage.replay
       THEN Settle(Work, Work \in {"logout"}) /\ Missed
            /\ known' = (known /\ Work # "logout")
       ELSE stage' = [stage EXCEPT !.at = "out"] /\ UNCHANGED <<works, panel, stalled, known>>
    /\ UNCHANGED <<latest, agreed, timer, jar, revoked>>

\* 401 for a session that might be renewed.
Expired ==
    /\ stage.at = "out" /\ stage.step \notin {"login", "reset"}
    /\ Unheeded /\ renewable /\ ~stage.replay
    /\ stage' = [stage EXCEPT !.at = "renew", !.replay = TRUE]
    /\ UNCHANGED <<records, timer, paused, keys, revoked, works, panel, stalled, spentUp>>

\* 401 for good: of a session, or of a wrong password.
SignedOutByService ==
    /\ stage.at = "out" /\ stage.step # "reset"
    /\ IF stage.step = "login" THEN Work = "login" ELSE Unheeded /\ (~renewable \/ stage.replay)
    /\ Forget
    /\ Settle(Work, Work = "logout") /\ Missed
    /\ known' = (known /\ Work # "logout")
    /\ UNCHANGED <<latest, agreed, timer, paused, jar, revoked, spentUp>>

\* The fifteen seconds are for the headers only.  Where the body never ends the
\* queue stops for good, and what the service did is not asked about again.
BodyStalls ==
    /\ stage.at \in {"renew", "out"} /\ Mishap
    /\ stage' = [stage EXCEPT !.at = "unread"]
    /\ UNCHANGED <<records, timer, paused, keys, revoked, works, panel, stalled>>

\* The network, the service or the fifteen seconds: a request that failed.  One
\* that asks for a pause gets it.  A logout is done here all the same.
Fails ==
    /\ stage.at = "out" /\ Mishap
    /\ paused' \in {paused, TRUE}
    /\ Settle(Work, Work = "logout") /\ Missed
    /\ IF Work = "logout" THEN Forget /\ known' = FALSE /\ UNCHANGED jar
       ELSE UNCHANGED <<keys, known>>
    /\ UNCHANGED <<latest, agreed, timer, revoked>>

Succeeds == stage.at = "out" /\ (stage.step \in {"login", "reset"} \/ Presents)

\* A session, or "confirm your address first".
LoggedIn ==
    /\ Succeeds /\ stage.step = "login" /\ UNCHANGED <<latest, agreed, timer, paused, stalled, spentUp>>
    /\ \/ /\ Work = "signup" /\ edition = "tokens" /\ Settle(Work, TRUE)
          /\ UNCHANGED <<known, keys, revoked>>
       \/ /\ signed' = TRUE /\ bearer' = "live" /\ renewable' = (edition = "tokens")
          /\ jar' = (edition = "cookies") /\ revoked' = FALSE /\ known' = TRUE
          /\ stage' = [AtRest EXCEPT !.at = "out", !.step = "push", !.before = latest]
          /\ UNCHANGED <<works, panel>>

\* The visit finds its session, and syncs at once.
Restored ==
    /\ Succeeds /\ stage.step = "me" /\ signed' = TRUE
    /\ IF paused THEN Settle(Work, TRUE) /\ stalled' = TRUE
       ELSE Send(SyncStep, FALSE) /\ UNCHANGED <<works, panel, stalled>>
    /\ UNCHANGED <<records, timer, paused, bearer, renewable, jar, revoked, spentUp>>

\* reconcile(): the baseline is what the account had.
Fetched ==
    /\ Succeeds /\ stage.step = "fetch"
    /\ known' = TRUE /\ Send("push", FALSE)
    /\ UNCHANGED <<latest, agreed, timer, paused, keys, revoked, works, panel, stalled, spentUp>>

\* The reply becomes the baseline; without an account, there is no name for it.
Pushed ==
    /\ Succeeds /\ stage.step = "push"
    /\ agreed' = IF signed THEN stage.before ELSE agreed
    /\ Settle(Work, signed) /\ stalled' = (stalled /\ latest > stage.before)
    /\ UNCHANGED <<latest, known, timer, paused, keys, revoked, spentUp>>

ResetSent ==
    /\ Succeeds /\ stage.step = "reset" /\ Settle(Work, TRUE)
    /\ UNCHANGED <<records, timer, paused, keys, revoked, stalled, spentUp>>

\* Signing out and deleting end the session on both sides.
Left ==
    /\ Succeeds /\ stage.step \in {"logout", "delete"}
    /\ Forget /\ jar' = FALSE /\ known' = FALSE /\ revoked' = TRUE
    /\ Settle(Work, TRUE)
    /\ UNCHANGED <<latest, agreed, timer, paused, stalled, spentUp>>

\* Time and the service, unasked.
PauseEnds ==
    /\ paused /\ paused' = FALSE
    /\ UNCHANGED <<records, timer, keys, revoked, works, stage, panel, stalled, spentUp>>

TokenExpires ==
    /\ bearer = "live" /\ edition = "tokens" /\ Mishap
    /\ bearer' = "expiring"
    /\ UNCHANGED <<records, timer, paused, signed, renewable, jar, revoked, works, stage, panel, stalled>>

Revoke ==
    /\ Mishap /\ ~revoked /\ revoked' = TRUE
    /\ UNCHANGED <<records, timer, paused, keys, works, stage, panel, stalled>>

Settling == Begin \/ PutOff \/ Renewed \/ NotRenewed \/ Expired \/ SignedOutByService
            \/ LoggedIn \/ Restored \/ Fetched \/ Pushed \/ ResetSent \/ Left \/ Fails

PanelNext ==
    \/ Change \/ ComeBack \/ Hide \/ SyncNow \/ LogOut
    \/ \E work \in {"login", "signup", "reset"} : Submit(work)
    \/ ArmDeletion \/ CancelDeletion \/ ConfirmDeletion
    \/ TimerFires \/ Settling
    \/ BodyStalls \/ PauseEnds \/ TokenExpires \/ Revoke

\* Timers fire, a request whose headers do not come is given up after fifteen
\* seconds, and a body that comes is read.
PanelFairness == WF_panelVars(TimerFires) /\ WF_panelVars(Settling)

PanelSpec == PanelInit /\ [][PanelNext]_panelVars /\ PanelFairness

-----------------------------------------------------------------------------

PanelTypeOK ==
    /\ edition \in {"cookies", "tokens"}
    /\ latest \in Nat /\ agreed \in 0 .. latest /\ known \in BOOLEAN
    /\ timer \in BOOLEAN /\ paused \in BOOLEAN /\ signed \in BOOLEAN
    /\ bearer \in {"none", "live", "expiring"} /\ renewable \in BOOLEAN /\ jar \in BOOLEAN
    /\ revoked \in BOOLEAN /\ works \in Seq(Works) /\ stage \in Stage
    /\ busy \in BOOLEAN /\ arming \in BOOLEAN
    /\ message \in {"none", "told", "failed", "deleted"}
    /\ stalled \in BOOLEAN /\ gestured \in Nat /\ mishaps \in Nat

\* A change made on a signed-in page, while a call was out or not, is on its
\* way by itself: it reaches the account unless the learner signs out or a try
\* failed or was put off after it, and then only the next visit, save or "Sync
\* now" tries again; or unless the body of a reply never ends, after which this
\* page sends nothing more.  (sync-client.js schedule(), queue(), syncNow())
ChangesAreSent ==
    (signed /\ latest > agreed)
        ~> (latest = agreed \/ ~signed \/ stalled \/ stage.at = "unread")

\* Whatever fails, the account panel's buttons come back, but for a body that
\* never ends.  (app.js: every gesture ends in `finally { syncBusy = false }`)
PanelComesFree == busy ~> (~busy \/ stage.at = "unread")
=============================================================================
