-------------------------------- MODULE Shell --------------------------------
(***************************************************************************)
(* The frame of the static edition's pages: following links, the           *)
(* navigation that is a menu on small screens, the search and certificate  *)
(* dialogs, the overlay that celebrates a lesson, and where the keyboard's *)
(* focus is meanwhile.  A page is its whole markup: drawn again, it takes  *)
(* the focused control with it.                                            *)
(*                                                                         *)
(* A dialog's close event is handled before anything else happens.  The    *)
(* study buddy and the forms of the settings are left out.                 *)
(***************************************************************************)
EXTENDS Integers, FiniteSets, Sequences

CONSTANTS Course, MaxTurns

ASSUME ShellAssumption ==
    IsFiniteSet(Course) /\ Course \cap {"home", "none"} = {} /\ MaxTurns \in Nat

VARIABLES completed, lastLesson, solved,    \* of the record
          hash, drawn, moved,               \* the address; the page drawn; a hashchange to come
          wide, menu,                       \* the layout; the menu is open
          focus, dialogs,                   \* dialogs: the open ones, the top one last
          celebrating,                      \* the overlays shown
          topbar,                           \* what it shows
          turns,
          beside, excused, foreign          \* history, read by properties only

learner == <<completed, lastLesson, solved>>
address == <<hash, drawn, moved>>
shellPast == <<beside, excused, foreign>>
shellVars == <<learner, address, wide, menu, focus, dialogs, celebrating, topbar, turns, shellPast>>

Addresses == Course \cup {"home"}

\* Of the page's own controls: "nav" are the navigation's, "toggle" is the button
\* of the menu, "bar" any other of the top bar.
OnPage == {"heading", "main", "nav", "toggle", "bar"}
Focus == OnPage \cup {"nowhere", "search", "certificate"}

\* back: where the focus was; there: that control has not been drawn again.
Dialog == [is: {"search", "certificate"}, back: Focus, there: BOOLEAN]
Top == dialogs[Len(dialogs)].is
IsOpen(d) == \E i \in DOMAIN dialogs : dialogs[i].is = d

-----------------------------------------------------------------------------
\* The record and the top bar.

Xp(c, s) == 100 * Cardinality(c) + 40 * Cardinality(s)

\* resumeLesson(): the last lesson if it is not done, else any first one that is not.
ResumeLesson(c, last) ==
    IF last # "home" /\ last \notin c THEN last
    ELSE IF Course \subseteq c THEN CHOOSE l \in Course : TRUE
    ELSE CHOOSE l \in Course : l \notin c

\* resumeControlMarkup(): the lesson it leads to, or none.
ResumeControl(c, last, at) ==
    LET resume == ResumeLesson(c, last)
    IN IF resume = at \/ (at # "home" /\ at \notin c) THEN "none" ELSE resume

Bar(c, s, last, at) == [xp |-> Xp(c, s), resume |-> ResumeControl(c, last, at)]

ShellInit ==
    /\ completed = {} /\ lastLesson = "home" /\ solved = {}
    /\ hash = "home" /\ drawn = "home" /\ moved = FALSE
    /\ wide \in BOOLEAN /\ menu = FALSE
    /\ focus = "nowhere" /\ dialogs = << >> /\ celebrating = {}
    /\ topbar = Bar({}, {}, "home", "home")
    /\ turns = 0 /\ beside = TRUE /\ excused = FALSE /\ foreign = FALSE

-----------------------------------------------------------------------------
\* Focus.

Turn == turns < MaxTurns /\ turns' = turns + 1

\* Whether a control can take the focus when those dialogs are open.
Fits(p, open, isWide, menuOpen) ==
    IF open # << >> THEN p = open[Len(open)].is
    ELSE p \in OnPage /\ (p = "nav" => isWide \/ menuOpen) /\ (p = "toggle" => ~isWide)
Reachable(p) == Fits(p, dialogs, wide, menu)

\* The focus is set to a control of the page: not under a dialog, and outside of
\* the menu it closes it (the focusin listener).
FocusOn(p) ==
    /\ focus' = IF dialogs = << >> THEN p ELSE focus
    /\ menu' = (menu /\ p \in {"nav", "toggle"})

\* Excuses last until the focus is somewhere again.
Settled ==
    /\ beside' = (beside /\ focus' = "nowhere")
    /\ excused' = (excused /\ (dialogs # << >> \/ focus' = "nowhere"))

\* The learner tabs or clicks to another control, or clicks beside all of them.
MoveFocus(p) ==
    /\ Reachable(p) /\ p # focus
    /\ focus' = p /\ menu' = (menu /\ p \in {"nav", "toggle"})
    /\ Settled
    /\ UNCHANGED <<learner, address, wide, dialogs, celebrating, topbar, turns, foreign>>

\* What is clicked may lie in the menu, which stays open then.
ClickBeside ==
    /\ focus # "nowhere" /\ focus' = "nowhere" /\ beside' = TRUE
    /\ menu' \in {FALSE, menu}
    /\ UNCHANGED <<learner, address, wide, dialogs, celebrating, topbar, turns, excused, foreign>>

-----------------------------------------------------------------------------
\* Drawing.

\* shell(): everything is drawn, for the address as it is; a lesson that is
\* opened becomes the last one.  No control is the one a dialog came from.
Draw(c, s) ==
    /\ completed' = c /\ solved' = s
    /\ drawn' = hash /\ hash' = hash
    /\ topbar' = Bar(c, s, lastLesson, hash)
    /\ lastLesson' = IF hash \in Course THEN hash ELSE lastLesson
    /\ dialogs' = [i \in DOMAIN dialogs |-> [dialogs[i] EXCEPT !.there = @ /\ dialogs[i].back \notin OnPage]]
    /\ menu' = FALSE /\ foreign' = FALSE

\* Mutant: the heading does not get the focus.
HashChangeForgetsFocus ==
    /\ moved /\ moved' = FALSE /\ Draw(completed, solved)
    /\ focus' = IF focus \in OnPage THEN "nowhere" ELSE focus
    /\ Settled
    /\ UNCHANGED <<wide, celebrating, turns>>

\* The page is drawn and its heading gets the focus.
HashChange ==
    /\ moved /\ moved' = FALSE /\ Draw(completed, solved)
    /\ focus' = IF dialogs = << >> THEN "heading" ELSE focus
    /\ Settled
    /\ UNCHANGED <<wide, celebrating, turns>>

GoTo(r) == hash' = r /\ moved' = (moved \/ hash # r) /\ drawn' = drawn

\* A link of the page.  In the menu it closes that first; the page that is open
\* already gets the focus on its heading then.
TakeLink(p, r) ==
    /\ Reachable(p) /\ p \in {"nav", "main", "bar"} /\ Turn
    /\ (p = "main" => r # hash) /\ (p = "bar" => topbar.resume = r)
    /\ GoTo(r)
    /\ IF p = "nav" /\ ~wide
       THEN menu' = FALSE /\ focus' = (IF r = hash THEN "heading" ELSE "toggle")
       ELSE FocusOn(p)
    /\ Settled
    /\ UNCHANGED <<learner, wide, dialogs, celebrating, topbar, foreign>>

\* The browser's own buttons, whatever is open.
Travel(r) ==
    /\ r # hash /\ Turn /\ GoTo(r)
    /\ UNCHANGED <<learner, wide, menu, focus, dialogs, celebrating, topbar, shellPast>>

-----------------------------------------------------------------------------
\* The menu: setNavigationOpen() and syncNavigationLayout().

OpenMenu ==
    /\ Reachable("toggle") /\ ~menu /\ Turn
    /\ menu' = TRUE /\ focus' = "nav" /\ Settled
    /\ UNCHANGED <<learner, address, wide, dialogs, celebrating, topbar, foreign>>

\* By one of its buttons or by Escape.
CloseMenu ==
    /\ menu /\ Turn /\ menu' = FALSE
    /\ focus' = "toggle" /\ Settled
    /\ UNCHANGED <<learner, address, wide, dialogs, celebrating, topbar, foreign>>

\* The layout changes: a control that goes away hands the focus on.
Resize ==
    /\ Turn /\ wide' = ~wide /\ menu' = FALSE
    /\ focus' = CASE focus = "nav" /\ wide -> "toggle"
                  [] focus = "toggle" /\ ~wide -> "heading"
                  [] OTHER -> focus
    /\ excused' = (excused \/ dialogs # << >>) /\ beside' = beside
    /\ UNCHANGED <<learner, address, dialogs, celebrating, topbar, foreign>>

-----------------------------------------------------------------------------
\* The dialogs.

\* Its own control gets the focus, which closes the menu.
Opens(d, from) ==
    /\ dialogs' = Append(dialogs, [is |-> d, back |-> from, there |-> from # "nowhere"])
    /\ focus' = d /\ menu' = FALSE
    /\ beside' = FALSE
    /\ excused' = (excused \/ (d = "certificate" /\ from = "nav" /\ ~wide))

OpenSearch ==
    /\ ~IsOpen("search") /\ Turn /\ Opens("search", focus)
    /\ UNCHANGED <<learner, address, wide, celebrating, topbar, foreign>>

\* The button on the overview, of a track that is done.
ViewCertificate ==
    /\ drawn = "home" /\ Course \subseteq completed /\ Reachable("main") /\ Turn
    /\ Opens("certificate", "main")
    /\ UNCHANGED <<learner, address, wide, celebrating, topbar, foreign>>

\* The top dialog closes.  The focus goes to the control it came from, or, where
\* that is not asked for, to the one that is if it can have it.
Closes(back, other) ==
    LET d == dialogs[Len(dialogs)]
        below == SubSeq(dialogs, 1, Len(dialogs) - 1)
        elsewhere == ~back /\ Fits(other, below, wide, menu)
    IN
    /\ dialogs' = below
    /\ focus' = CASE elsewhere -> other
                  [] ~elsewhere /\ d.there /\ Fits(d.back, below, wide, menu) -> d.back
                  [] OTHER -> "nowhere"
    /\ beside' = (focus' = "nowhere" /\ d.back = "nowhere")
    /\ excused' = (excused /\ (below # << >> \/ focus' = "nowhere"))
    /\ menu' = menu

\* Mutant: the control may have been drawn again.
CameFromUnchecked(d) == d.back # "nowhere"

\* The search gives the focus back to a control that is still there and not in
\* the closed menu, else to its own button.
CameFrom(d) == d.there /\ ~(d.back = "nav" /\ ~wide /\ ~menu)

CloseSearch ==
    /\ dialogs # << >> /\ Top = "search" /\ Turn
    /\ Closes(CameFrom(dialogs[Len(dialogs)]), "bar")
    /\ UNCHANGED <<learner, address, wide, celebrating, topbar, foreign>>

\* A page or a lesson is chosen.
ChooseResult(r) ==
    /\ dialogs # << >> /\ Top = "search" /\ Turn
    /\ Closes(r # hash, "heading")
    /\ GoTo(r)
    /\ UNCHANGED <<learner, wide, celebrating, topbar, foreign>>

CloseCertificate ==
    /\ dialogs # << >> /\ Top = "certificate" /\ Turn
    /\ Closes(dialogs[Len(dialogs)].there, "heading")
    /\ UNCHANGED <<learner, address, wide, celebrating, topbar, foreign>>

-----------------------------------------------------------------------------
\* Course.

\* The concept and the checks, one after the other; the bar shows the points.
Solve(l) ==
    /\ drawn = l /\ l \notin solved /\ Turn
    /\ solved' = solved \cup {l}
    /\ topbar' = [topbar EXCEPT !.xp = Xp(completed, solved')]
    /\ UNCHANGED <<completed, lastLesson, address, wide, menu, focus, dialogs, celebrating, shellPast>>

\* Mutant: the link to the next lesson is left as it was.
FinishBarUnsynced(l) ==
    /\ drawn = l /\ l \in solved \ completed /\ Reachable("main") /\ Turn
    /\ completed' = completed \cup {l} /\ lastLesson' = l
    /\ topbar' = [topbar EXCEPT !.xp = Xp(completed', solved)]
    /\ celebrating' = celebrating \cup {[lesson |-> l, track |-> Course \subseteq completed']}
    /\ focus' = "nowhere" /\ menu' = FALSE /\ Settled
    /\ UNCHANGED <<solved, address, wide, dialogs, foreign>>

\* The lesson is drawn again, without the button; the bar is brought up to date.
FinishLesson(l) ==
    /\ drawn = l /\ l \in solved \ completed /\ Reachable("main") /\ Turn
    /\ completed' = completed \cup {l} /\ lastLesson' = l
    /\ topbar' = Bar(completed', solved, l, hash)
    /\ celebrating' = celebrating \cup {[lesson |-> l, track |-> Course \subseteq completed']}
    /\ focus' = "nowhere" /\ menu' = FALSE /\ Settled
    /\ UNCHANGED <<solved, address, wide, dialogs, foreign>>

\* The overlay goes, by itself or by a click, wherever the learner is by now.
EndCelebration(c) ==
    /\ c \in celebrating /\ celebrating' = celebrating \ {c}
    /\ IF c.track
       THEN IF IsOpen("certificate")
            THEN UNCHANGED <<focus, menu, dialogs, beside, excused>>
            ELSE Opens("certificate", focus)
       ELSE /\ IF drawn \in Course THEN FocusOn("main") ELSE UNCHANGED <<focus, menu>>
            /\ dialogs' = dialogs /\ Settled
    /\ UNCHANGED <<learner, address, wide, topbar, turns, foreign>>

\* refreshSavedView(): another tab's work is drawn only while no control has the
\* focus, nothing runs and nobody searches.
StoreChanges(l) ==
    /\ Turn
    /\ \/ /\ focus = "nowhere" /\ ~IsOpen("search")
          /\ Draw(completed \cup {l}, solved \cup {l})
       \/ /\ completed' = completed \cup {l} /\ solved' = solved \cup {l} /\ foreign' = TRUE
          /\ UNCHANGED <<lastLesson, hash, drawn, dialogs, menu, topbar>>
    /\ UNCHANGED <<moved, wide, focus, celebrating, beside, excused>>

\* A backup was imported, or the progress was reset.
Replace ==
    /\ drawn = "home" /\ Reachable("main") /\ Turn
    /\ Draw({}, {}) /\ focus' = "heading" /\ Settled
    /\ UNCHANGED <<moved, wide, celebrating>>

ShellNext ==
    \/ HashChange \/ ClickBeside \/ OpenMenu \/ CloseMenu \/ Resize \/ OpenSearch \/ CloseSearch
    \/ ViewCertificate \/ CloseCertificate \/ Replace
    \/ \E p \in Focus : MoveFocus(p) \/ \E r \in Addresses : TakeLink(p, r)
    \/ \E r \in Addresses : Travel(r) \/ ChooseResult(r)
    \/ \E l \in Course : Solve(l) \/ FinishLesson(l) \/ StoreChanges(l)
    \/ \E c \in celebrating : EndCelebration(c)

ShellSpec == ShellInit /\ [][ShellNext]_shellVars

-----------------------------------------------------------------------------

ShellTypeOK ==
    /\ completed \subseteq Course /\ lastLesson \in Addresses /\ hash \in Addresses /\ drawn \in Addresses
    /\ focus \in Focus /\ \A i \in DOMAIN dialogs : dialogs[i] \in Dialog

\* The keyboard is never left without a place: not by a page that is drawn, a
\* dialog that closes, or a menu that goes away.  (It is while a completed lesson
\* is celebrated, when the layout changed under a dialog, and when the menu closed
\* under a certificate.)
FocusIsKept == focus = "nowhere" => beside \/ moved \/ celebrating # {} \/ excused

\* The focus is where a control can have it: not in a navigation that is out of
\* sight, not under a dialog; and an open menu has it or nobody does.
FocusIsReachable ==
    /\ focus # "nowhere" => Reachable(focus)
    /\ menu => ~wide /\ dialogs = << >> /\ focus \in {"nav", "toggle", "nowhere"}

\* The bar shows the learner's points, and leads on: never to the page they are
\* on, nor to a lesson that is done while one is not, and always somewhere but from
\* a lesson they have yet to do; unless another tab's work is not drawn yet.
BarLeadsOn == foreign \/
    /\ topbar.xp = Xp(completed, solved)
    /\ topbar.resume # "none" =>
         /\ topbar.resume # drawn \/ moved
         /\ topbar.resume \in completed => Course \subseteq completed
    /\ topbar.resume = "none" /\ ~moved /\ ~(Course \subseteq completed) => drawn \in Course \ completed

ShellIsUsable == FocusIsKept /\ FocusIsReachable /\ BarLeadsOn
=============================================================================
