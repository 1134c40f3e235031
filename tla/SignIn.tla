------------------------------- MODULE SignIn -------------------------------
(***************************************************************************)
(* The sign-up, sign-in, reset and update-password pages of the web        *)
(* edition, in tabs of one browser that share the session's cookie, and    *)
(* the route through which the static edition makes its accounts at the    *)
(* same auth service.  That service, its letters, the other providers and  *)
(* the list of breached passwords are external.                            *)
(*                                                                         *)
(* A tab has at most one call out.  One whose page was left goes on        *)
(* ("left"); one whose document was unloaded is done at the service only   *)
(* ("gone").  None of them has a timeout: one may never be answered        *)
(* ("hangs").                                                              *)
(***************************************************************************)
EXTENDS Integers

CONSTANTS Tabs, Emails, Nobody, MaxAttempts

ASSUME SignInAssumption == Nobody \notin Emails /\ MaxAttempts \in Nat

VARIABLES confirms,           \* the service has an address confirmed first
          users, letters,     \* its accounts; its links not opened yet
          cookie,             \* whose session the browser holds
          form, call,         \* per tab
          attempts,           \* how much of the bound is used
          unchecked, told, unadopted      \* history, read by properties only

service == <<confirms, users, letters>>
learned == <<unchecked, told, unadopted>>
signInVars == <<service, cookie, form, call, attempts, learned>>

NewPasswords == {"short", "breached", "good"}
\* by: what set the password.
User == [is: {"none", "unconfirmed", "confirmed"}, password: NewPasswords \cup {"none"},
         by: {"none", "page", "route"}]
Letter == [kind: {"signup", "recovery"}, to: Emails]

\* next: the path to return to, of this site or of another one.
\* wait: the link was just sent.
Form == [screen: {"home", "login", "signup", "checkMail", "reset", "linkSent", "update",
                  "updated", "learn", "asked", "elsewhere"},
         note: {"none", "short", "breached", "refused", "network", "limited", "expired",
                "verify", "auth"},
         busy: BOOLEAN, wait: BOOLEAN, next: {"none", "inside", "outside"}]
At(screen) == [screen |-> screen, note |-> "none", busy |-> FALSE, wait |-> FALSE, next |-> "none"]
LoginSaying(note) == [At("login") EXCEPT !.note = note]

\* goal: the form it was sent from.
Call == [op: {"none", "breach", "signup", "login", "adopt", "reset", "update"},
         goal: {"none", "signup", "login", "reset", "update"},
         email: Emails \cup {Nobody}, password: NewPasswords \cup {"none"},
         heard: {"page", "left", "gone"}, hangs: BOOLEAN]
NoCall == [op |-> "none", goal |-> "none", email |-> Nobody, password |-> "none",
           heard |-> "page", hangs |-> FALSE]

SignInInit ==
    /\ confirms \in BOOLEAN
    /\ users = [e \in Emails |-> [is |-> "none", password |-> "none", by |-> "none"]]
    /\ letters = {} /\ cookie = Nobody
    /\ form = [t \in Tabs |-> At("home")] /\ call = [t \in Tabs |-> NoCall]
    /\ attempts = 0 /\ unchecked = {} /\ told = {} /\ unadopted = {}

-----------------------------------------------------------------------------

\* Mutant: any path that starts with a slash, or with the name of another site, is taken.
AnyNextPath(next, fallback) ==
    IF next = "none" THEN fallback ELSE IF next = "inside" THEN "asked" ELSE "elsewhere"

\* safeNextPath(): only a path of this site is returned to.
SafeNextPath(next, fallback) == IF next = "inside" THEN "asked" ELSE fallback

\* A link of the site is followed: the page goes, the document stays.
Visit(t, screen, next) ==
    /\ screen \in {"login", "signup", "reset", "learn"} /\ (next # "none" => screen = "login")
    /\ form' = [form EXCEPT ![t] = [At(screen) EXCEPT !.next = next]]
    /\ call' = [call EXCEPT ![t].heard = IF @ = "page" THEN "left" ELSE @]
    /\ unadopted' = unadopted \ {t}
    /\ UNCHANGED <<service, cookie, attempts, unchecked, told>>

\* The document is replaced by one that shows f.
Loads(t, f) ==
    /\ form' = [form EXCEPT ![t] = f]
    /\ call' = [call EXCEPT ![t] = IF @.op \in {"none", "breach", "adopt"} THEN NoCall
                                   ELSE [@ EXCEPT !.heard = "gone"]]
    /\ unadopted' = unadopted \ {t}
    /\ UNCHANGED <<attempts, unchecked, told>>

Attempt(t) ==
    /\ ~form[t].busy /\ call[t] = NoCall
    /\ attempts < MaxAttempts /\ attempts' = attempts + 1
    /\ UNCHANGED <<service, cookie, learned>>

Asks(t, op, goal, email, password) ==
    /\ form' = [form EXCEPT ![t].busy = TRUE, ![t].note = "none"]
    /\ call' = [call EXCEPT ![t] = [op |-> op, goal |-> goal, email |-> email,
                                    password |-> password, heard |-> "page", hangs |-> FALSE]]

\* A new password is refused here when it is short, else looked up first.
ChoosePassword(t, goal, email, password) ==
    /\ form[t].screen = goal /\ form[t].note # "expired"
    /\ Attempt(t)
    /\ IF password = "short"
       THEN form' = [form EXCEPT ![t].note = "short"] /\ call' = call
       ELSE Asks(t, "breach", goal, email, password)

SignUp(t, email, password) == ChoosePassword(t, "signup", email, password)
Update(t, password) == ChoosePassword(t, "update", Nobody, password)

SubmitLogin(t, email, password) ==
    /\ form[t].screen = "login" /\ Attempt(t)
    /\ Asks(t, "login", "login", email, password)

SendLink(t, email) ==
    /\ form[t].screen \in {"reset", "linkSent"} /\ ~form[t].wait /\ Attempt(t)
    /\ Asks(t, "reset", "reset", email, "none")

\* Resending is allowed again.
WaitEnds(t) ==
    /\ form[t].wait /\ form' = [form EXCEPT ![t].wait = FALSE]
    /\ UNCHANGED <<service, cookie, call, attempts, learned>>

-----------------------------------------------------------------------------
\* What comes back.

\* The page that asked shows f.
Shows(t, f) == form' = IF call[t].heard = "page" THEN [form EXCEPT ![t] = f] ELSE form
Says(t, note) == Shows(t, [form[t] EXCEPT !.busy = FALSE, !.note = note])
Ends(t) == call' = [call EXCEPT ![t] = NoCall]

\* Mutant: the lookup is awaited, and its answer is not.
LookUpIgnored(t, reached) ==
    /\ call[t].op = "breach"
    /\ call' = [call EXCEPT ![t].op = call[t].goal,
                            ![t].email = IF call[t].goal = "update" THEN cookie ELSE @]
    /\ unchecked' = IF reached THEN unchecked ELSE unchecked \cup {call[t].password}
    /\ UNCHANGED <<service, cookie, form, attempts, told, unadopted>>

\* pwnedCount(): a lookup that fails finds nothing.
LookUp(t, reached) ==
    /\ call[t].op = "breach"
    /\ IF reached /\ call[t].password = "breached"
       THEN Says(t, "breached") /\ Ends(t) /\ UNCHANGED unchecked
       ELSE /\ call' = [call EXCEPT ![t].op = call[t].goal,
                                    ![t].email = IF call[t].goal = "update" THEN cookie ELSE @]
            /\ unchecked' = IF reached THEN unchecked ELSE unchecked \cup {call[t].password}
            /\ UNCHANGED form
    /\ UNCHANGED <<service, cookie, attempts, told, unadopted>>

\* A session was made: adoptLocalProgress() is next.
Enters(t) ==
    IF call[t].heard = "gone" THEN Ends(t) /\ cookie' = cookie
    ELSE call' = [call EXCEPT ![t].op = "adopt"] /\ cookie' = call[t].email

SignedUp(t) ==
    LET e == call[t].email IN
    /\ call[t].op = "signup"
    /\ IF users[e].is # "none"
       THEN /\ users' = users
            /\ letters' = IF users[e].is = "unconfirmed"
                          THEN letters \cup {[kind |-> "signup", to |-> e]} ELSE letters
            /\ IF confirms THEN Shows(t, At("checkMail")) ELSE Says(t, "refused")
            /\ Ends(t) /\ UNCHANGED cookie
       ELSE /\ users' = [users EXCEPT ![e] =
                 [is |-> IF confirms THEN "unconfirmed" ELSE "confirmed",
                  password |-> call[t].password, by |-> "page"]]
            /\ IF confirms
               THEN /\ letters' = letters \cup {[kind |-> "signup", to |-> e]}
                    /\ Shows(t, At("checkMail")) /\ Ends(t) /\ UNCHANGED cookie
               ELSE letters' = letters /\ form' = form /\ Enters(t)
    /\ UNCHANGED <<confirms, attempts, learned>>

SignedIn(t) ==
    LET u == users[call[t].email] IN
    /\ call[t].op = "login"
    /\ IF u.is = "confirmed" /\ u.password = call[t].password
       THEN form' = form /\ Enters(t)
       ELSE Says(t, "refused") /\ Ends(t) /\ UNCHANGED cookie
    /\ UNCHANGED <<service, attempts, learned>>

\* The connection fails, before or after the service did what was asked.
NotReached(t) ==
    /\ call[t].op \in {"signup", "login", "update"}
    /\ Says(t, "network") /\ Ends(t)
    /\ UNCHANGED <<service, cookie, attempts, learned>>

\* Adopted or refused, the learner is taken on, wherever the tab is by now.
Adopted(t) ==
    /\ call[t].op = "adopt"
    /\ form' = [form EXCEPT ![t] = At(IF call[t].goal = "signup" THEN "home"
                                      ELSE SafeNextPath(@.next, "learn"))]
    /\ Ends(t) /\ UNCHANGED <<service, cookie, attempts, learned>>

\* The adoption's connection fails: nothing catches it and the form stays busy.
AdoptionFails(t) ==
    /\ call[t].op = "adopt" /\ Ends(t)
    /\ unadopted' = IF call[t].heard = "page" THEN unadopted \cup {t} ELSE unadopted
    /\ UNCHANGED <<service, cookie, form, attempts, unchecked, told>>

\* Mutant: any error of the service is shown.
ShowsAnyError(answer) == answer # "sent"

\* Only the errors of the connection and of the rate limit are shown.
ShowsError(answer) == answer = "limited"

\* answer: what the service says.  Of an address without an account it may say so.
ResetAnswered(t, answer) ==
    LET known == users[call[t].email].is # "none"
        shows == IF ShowsError(answer) THEN "limited" ELSE "linkSent"
    IN
    /\ call[t].op = "reset" /\ (answer = "unknown" => ~known)
    /\ letters' = IF known /\ answer = "sent"
                  THEN letters \cup {[kind |-> "recovery", to |-> call[t].email]} ELSE letters
    /\ IF shows = "limited" THEN Says(t, "limited")
       ELSE Shows(t, [At("linkSent") EXCEPT !.wait = TRUE])
    /\ told' = told \cup {[limited |-> answer = "limited", known |-> known, shows |-> shows]}
    /\ Ends(t) /\ UNCHANGED <<confirms, users, cookie, attempts, unchecked, unadopted>>

\* A session that ended since may still be taken.
Updated(t) ==
    LET e == call[t].email IN
    /\ call[t].op = "update"
    /\ \/ /\ e # Nobody
          /\ users' = [users EXCEPT ![e].password = call[t].password, ![e].by = "page"]
          /\ Shows(t, At("updated"))
       \/ /\ e # cookie \/ e = Nobody
          /\ users' = users /\ Says(t, "expired")
    /\ Ends(t) /\ UNCHANGED <<confirms, letters, cookie, attempts, learned>>

-----------------------------------------------------------------------------
\* The routes.

\* GET /auth/confirm with a link: one that is used or old is turned away.
OpenLink(t, l) ==
    /\ l \in letters
    /\ letters' = letters \ {l}
    /\ users' = [users EXCEPT ![l.to].is = "confirmed"]
    /\ cookie' = l.to
    /\ Loads(t, At(IF l.kind = "recovery" THEN "update" ELSE "home"))
    /\ UNCHANGED confirms

OpenOldLink(t) ==
    /\ attempts > 0
    /\ Loads(t, LoginSaying("verify")) /\ UNCHANGED <<service, cookie>>

\* Signing in with a provider, and GET /auth/callback.
Provider(t, e) ==
    /\ form[t].screen \in {"login", "signup"}
    /\ users' = [users EXCEPT ![e].is = "confirmed"]
    /\ cookie' = e
    /\ Loads(t, At(IF form[t].screen = "signup" THEN "home" ELSE SafeNextPath(form[t].next, "learn")))
    /\ UNCHANGED <<confirms, letters>>

ProviderFails(t) ==
    /\ form[t].screen \in {"login", "signup"}
    /\ Loads(t, LoginSaying("auth")) /\ UNCHANGED <<service, cookie>>

\* The provider is not even reached, and the form says so.
ProviderUnreached(t) ==
    /\ form[t].screen \in {"login", "signup"}
    /\ attempts < MaxAttempts /\ attempts' = attempts + 1
    /\ form' = [form EXCEPT ![t].note = "network"]
    /\ UNCHANGED <<service, cookie, call, learned>>

SignOut(t) ==
    /\ form[t].screen \in {"learn", "asked"} /\ cookie # Nobody
    /\ cookie' = Nobody /\ Loads(t, At("login")) /\ UNCHANGED service

\* POST /api/auth/signup, for the static edition: any password is taken.  A
\* browser that keeps the cookies of its reply is signed in.
RouteSignUp(e, password) ==
    /\ attempts < MaxAttempts /\ attempts' = attempts + 1
    /\ users[e].is = "none"
    /\ users' = [users EXCEPT ![e] = [is |-> IF confirms THEN "unconfirmed" ELSE "confirmed",
                                      password |-> password, by |-> "route"]]
    /\ IF confirms THEN /\ letters' = letters \cup {[kind |-> "signup", to |-> e]}
                         /\ cookie' = cookie
                    ELSE letters' = letters /\ cookie' \in {cookie, e}
    /\ UNCHANGED <<confirms, form, call, learned>>

AnswersCall(t) ==
    /\ ~call[t].hangs
    /\ \/ \E reached \in BOOLEAN : LookUp(t, reached)
       \/ \E answer \in {"sent", "limited", "unknown"} : ResetAnswered(t, answer)
       \/ SignedUp(t) \/ SignedIn(t) \/ NotReached(t)
       \/ Adopted(t) \/ AdoptionFails(t) \/ Updated(t)

\* No answer comes, and nothing gives the call up.
Hangs(t) ==
    /\ call[t].op # "none" /\ call' = [call EXCEPT ![t].hangs = TRUE]
    /\ UNCHANGED <<service, cookie, form, attempts, learned>>

TabNext(t) ==
    \/ \E s \in {"login", "signup", "reset", "learn"}, n \in {"none", "inside", "outside"} : Visit(t, s, n)
    \/ \E e \in Emails, p \in NewPasswords : SignUp(t, e, p) \/ SubmitLogin(t, e, p)
    \/ \E p \in NewPasswords : Update(t, p)
    \/ \E e \in Emails : SendLink(t, e) \/ Provider(t, e)
    \/ \E l \in letters : OpenLink(t, l)
    \/ AnswersCall(t) \/ Hangs(t) \/ WaitEnds(t) \/ OpenOldLink(t) \/ ProviderFails(t)
    \/ ProviderUnreached(t) \/ SignOut(t)

SignInNext == \/ \E t \in Tabs : TabNext(t)
              \/ \E e \in Emails, p \in NewPasswords : RouteSignUp(e, p)

\* Calls that do not hang are answered.
SignInFairness == \A t \in Tabs : WF_signInVars(AnswersCall(t))
SignInSpec == SignInInit /\ [][SignInNext]_signInVars /\ SignInFairness

-----------------------------------------------------------------------------

SignInTypeOK ==
    /\ users \in [Emails -> User] /\ letters \subseteq Letter
    /\ cookie \in Emails \cup {Nobody}
    /\ form \in [Tabs -> Form] /\ call \in [Tabs -> Call]

\* No page sets a short password, nor one known from a breach unless the list could
\* not be asked: what it looked up is what it sends, though tabs overlap and links are
\* opened meanwhile.  Accounts of the other route keep theirs until a page sets one.
PasswordsAreFit == \A e \in Emails :
    users[e].by = "page" => users[e].password \notin {"short", "breached"} \ unchecked

\* What the reset page shows does not depend on whether the address has an
\* account.
ResetIsBlind == \A x, y \in told : x.limited = y.limited => x.shows = y.shows

\* However they sign in and whatever path they were to return to, learners land
\* in this site.
LandsInside == \A t \in Tabs : form[t].screen # "elsewhere"

SignInIsSound == PasswordsAreFit /\ ResetIsBlind /\ LandsInside

\* What the sign-in pages promise: fit passwords, no word on who has an account, and
\* a way back into the site.  (pwned.ts, reset/page.tsx, auth-helpers.ts)
SignInKeepsItsWord == SignInTypeOK /\ SignInIsSound

\* A busy form comes free again, but for a sign-in whose adoption failed and a call
\* that is never answered.
SignInComesFree ==
    \A t \in Tabs : form[t].busy ~> (~form[t].busy \/ t \in unadopted \/ call[t].hangs)
=============================================================================
