----------------------------- MODULE Companion -----------------------------
(***************************************************************************)
(* The help of the static edition: the ladder of hints of a lesson, the    *)
(* tutor that is asked after each check that fails, offline or through the *)
(* hosted service, and the study buddy that says what it answers.          *)
(*                                                                         *)
(* Two tabs share the buddy's preferences; each read them once.            *)
(***************************************************************************)
EXTENDS Naturals

CONSTANTS Hosted,               \* a build with a tutor's origin
          Authored,             \* hints a lesson brings of its own
          MaxEvents

\* None brings a single one.
ASSUME CompanionAssumption ==
    Hosted \in BOOLEAN /\ Authored \in Nat \ {1} /\ MaxEvents \in Nat

VARIABLES hints,                \* state.hints[lesson]
          rungsShown,           \* what renderHints() drew last
          asks,                 \* consultations of the tutor, in the order of the checks
          stored, prefs,        \* the buddy's preferences: in storage, in this tab
          bubble, mood,         \* what it says, and its face
          hideTimer,
          happenings,
          failedChecks, ownRungs, helped               \* history, read by properties only

buddyVars == <<stored, prefs, bubble, mood, hideTimer>>
helpPast == <<failedChecks, ownRungs, helped>>
companionVars == <<hints, rungsShown, asks, buddyVars, happenings, helpPast>>

\* hintTiers(): its own hints or two of everyone's, and the worked solution.
HintTiers(authored) == 1 + (IF authored > 0 THEN authored ELSE 2)
Rungs == HintTiers(Authored)

ConceptTier == 1
FailingTier == 2
Names == {"Ember", "own", "other"}
BuddyPrefs == [hidden: BOOLEAN, name: Names]

\* What the learner did, with the face the buddy makes: buddyReaction().
Events == {"greet", "solved", "quiz", "complete", "review", "focusGoal", "focusDone",
           "certificate", "stuck", "renamed"}
BuddyReaction(event) ==
    CASE event \in {"greet", "review"} -> "idle"
      [] event = "focusDone" -> "rest"
      [] event = "stuck" -> "think"
      [] OTHER -> "cheer"

CompanionInit ==
    /\ hints = 0 /\ rungsShown = 0 /\ asks = {}
    /\ stored \in [hidden: BOOLEAN, name: {"Ember"}] /\ prefs = stored
    /\ bubble = "none" /\ mood = "idle" /\ hideTimer = FALSE /\ happenings = 0
    /\ failedChecks = 0 /\ ownRungs = 0 /\ helped = TRUE

Happens == happenings < MaxEvents /\ happenings' = happenings + 1

Say(message) ==
    IF prefs.hidden THEN UNCHANGED <<bubble, mood, hideTimer>>
    ELSE bubble' = message /\ mood' = BuddyReaction(message) /\ hideTimer' = TRUE

Reacts(event) == Say(event) /\ UNCHANGED <<stored, prefs>>

-----------------------------------------------------------------------------
\* The ladder.

AtMost(a, b) == IF a < b THEN a ELSE b
AtLeast(a, b) == IF a < b THEN b ELSE a

\* The consultation: what of the ladder was up when the check was made; has more
\* come up since?
Consultation == [no: Nat, tier: Nat, kind: {"error", "check"}, crossed: BOOLEAN]
Crossed(as) == {[a EXCEPT !.crossed = TRUE] : a \in as}

\* heuristicProvider: the tier it suggests.
Suggested(a) == CASE a.kind = "error" -> ConceptTier
                  [] a.tier >= FailingTier -> Rungs
                  [] OTHER -> FailingTier

\* reveal-hint
ShowRung ==
    /\ Happens /\ hints' = AtMost(hints + 1, Rungs) /\ rungsShown' = hints'
    /\ ownRungs' = ownRungs + 1 /\ asks' = Crossed(asks)
    /\ UNCHANGED <<buddyVars, failedChecks, helped>>

\* A check fails.  The worker or the runner is free again while the tutor is asked.
FailedCheck(kind) ==
    /\ Happens
    /\ asks' = asks \cup {[no |-> failedChecks, tier |-> hints, kind |-> kind, crossed |-> FALSE]}
    /\ failedChecks' = failedChecks + 1
    /\ UNCHANGED <<hints, rungsShown, buddyVars, ownRungs, helped>>

Target(a) == AtMost(AtLeast(a.tier + 1, Suggested(a)), Rungs)

\* The offline provider answers before anything else happens; the service's words
\* may come late, or not at all, and what they say of the ladder does not count.
AdviceIsIn(a) ==
    /\ a \in asks /\ (~Hosted => \A b \in asks : a.no <= b.no)
    /\ hints' = IF Target(a) > a.tier THEN Target(a) ELSE hints
    /\ rungsShown' = hints' /\ asks' = Crossed(asks \ {a})
    /\ helped' = (a.crossed \/ hints' > a.tier \/ a.tier = Rungs)
    /\ Reacts("stuck") /\ UNCHANGED <<happenings, failedChecks, ownRungs>>

\* Another tab asked for a hint, from where its own ladder stood: what it saved last
\* is read here, more or less.
HintsElsewhere ==
    /\ Happens /\ hints' \in 0 .. AtMost(hints + 1, Rungs) /\ hints' # hints
    /\ ownRungs' = ownRungs + 1 /\ asks' = Crossed(asks)
    /\ UNCHANGED <<rungsShown, buddyVars, failedChecks, helped>>

-----------------------------------------------------------------------------
\* The buddy.

\* A card, a quiz, a lesson, a session of focus, a poke.
SomethingDone(event) ==
    /\ event \notin {"stuck", "renamed"} /\ Happens /\ Reacts(event)
    /\ UNCHANGED <<hints, rungsShown, asks, helpPast>>

HideTimerFires ==
    /\ hideTimer /\ bubble' = "none" /\ mood' = "idle" /\ hideTimer' = FALSE
    /\ UNCHANGED <<hints, rungsShown, asks, stored, prefs, happenings, helpPast>>

\* setVisible(): the settings' button, which greets, and the cross on the bubble.
SetVisible(visible) ==
    LET p == [prefs EXCEPT !.hidden = ~visible] IN
    /\ Happens /\ prefs.hidden = visible
    /\ prefs' = p /\ stored' = p
    /\ IF visible THEN bubble' = "greet" /\ mood' = "idle" /\ hideTimer' = TRUE
       ELSE bubble' = "none" /\ hideTimer' = FALSE /\ UNCHANGED mood
    /\ UNCHANGED <<hints, rungsShown, asks, helpPast>>

\* rename(): all of this tab's preferences are written.
Rename(name) ==
    /\ Happens /\ ~prefs.hidden
    /\ prefs' = [prefs EXCEPT !.name = name] /\ stored' = prefs'
    /\ Say("renamed")
    /\ UNCHANGED <<hints, rungsShown, asks, helpPast>>

PrefsElsewhere(p) ==
    /\ Happens /\ p # stored /\ stored' = p
    /\ UNCHANGED <<hints, rungsShown, asks, prefs, bubble, mood, hideTimer, helpPast>>

\* The page is loaded again: loadBuddyPrefs().
LoadCompanion ==
    /\ Happens /\ prefs' = stored /\ bubble' = "none" /\ mood' = "idle" /\ hideTimer' = FALSE
    /\ asks' = {} /\ rungsShown' = hints
    /\ UNCHANGED <<hints, stored, helpPast>>

CompanionNext ==
    \/ ShowRung \/ HintsElsewhere \/ HideTimerFires \/ LoadCompanion
    \/ \E kind \in {"error", "check"} : FailedCheck(kind)
    \/ \E a \in asks : AdviceIsIn(a)
    \/ \E event \in Events : SomethingDone(event)
    \/ \E visible \in BOOLEAN : SetVisible(visible)
    \/ \E name \in Names \ {"other"} : Rename(name)
    \/ \E p \in [hidden: BOOLEAN, name: {"Ember", "other"}] : PrefsElsewhere(p)

CompanionSpec == CompanionInit /\ [][CompanionNext]_companionVars

-----------------------------------------------------------------------------

CompanionTypeOK ==
    /\ hints \in 0 .. Rungs /\ rungsShown \in 0 .. Rungs
    /\ asks \subseteq Consultation /\ {stored, prefs} \subseteq BuddyPrefs
    /\ bubble \in Events \cup {"none"} /\ hideTimer \in BOOLEAN

\* The worked solution is up only after two checks that failed, or with hints the
\* learner asked for.
SolutionIsEarned == hints = Rungs => failedChecks + ownRungs >= 2

\* An answered check leaves more help up than there was when it was made; advice
\* that more help has overtaken may take some back.
EachFailureHelps == helped

\* A hidden buddy is silent; one that speaks will stop, with the face that goes
\* with its words, and one that is silent looks idle.
BuddyIsHonest ==
    /\ prefs.hidden => bubble = "none"
    /\ hideTimer <=> bubble # "none"
    /\ bubble # "none" => mood = BuddyReaction(bubble)
    /\ bubble = "none" /\ ~prefs.hidden => mood = "idle"

HelpIsFair == SolutionIsEarned /\ EachFailureHelps /\ BuddyIsHonest
=============================================================================
