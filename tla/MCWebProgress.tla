---------------------------- MODULE MCWebProgress ----------------------------
(***************************************************************************)
(* Two pages of one learner, in one browser or in two, each with up to two *)
(* pushes out; and what else the web edition's pages do with the record: a *)
(* behaviour follows one of them and the others stay at their start.       *)
(***************************************************************************)
EXTENDS WebProgress, Playground, Notes, WebFrame, Milestones, Gates, TLC

CONSTANTS p1, p2, b1, b2

WebSymmetry == Permutations({p1, p2}) \cup Permutations({b1, b2})

VARIABLE part

pageVars == <<playVars, noteVars, frameVars, milestoneVars, gatesVars>>
workVars == <<part, webVars, pageVars>>

WorkInit ==
    /\ part \in {"progress", "play", "notes", "frame", "milestones", "gates"}
    /\ WebInit /\ PlayInit /\ NotesInit /\ FrameInit /\ MilestonesInit /\ GatesInit
    /\ part # "progress" => row = NoRow /\ \A p \in Pages : browser[p] = b1
    /\ part # "frame" => theme.stored = "system" /\ ~theme.os
    /\ part # "gates" => right = "free"

Working ==
    \/ part = "play" /\ PlayNext /\ UNCHANGED <<noteVars, frameVars, milestoneVars, gatesVars>>
    \/ part = "notes" /\ NotesNext /\ UNCHANGED <<playVars, frameVars, milestoneVars, gatesVars>>
    \/ part = "frame" /\ FrameNext /\ UNCHANGED <<playVars, noteVars, milestoneVars, gatesVars>>
    \/ part = "milestones" /\ MilestonesNext /\ UNCHANGED <<playVars, noteVars, frameVars, gatesVars>>
    \/ part = "gates" /\ GatesNext /\ UNCHANGED <<playVars, noteVars, frameVars, milestoneVars>>

WorkNext ==
    \/ part = "progress" /\ WebNext /\ UNCHANGED <<part, pageVars>>
    \/ Working /\ UNCHANGED <<part, webVars>>

WorkSpec == WorkInit /\ [][WorkNext]_workVars

\* Three gestures, loads and failures together; a fourth for two browsers whose
\* pushes do not overlap.
Spent == edits + failures + loads
WebBound ==
    \/ Spent <= 3
    \/ /\ Spent = 4 /\ failures = 0
       /\ browser[p1] # browser[p2]
       /\ \A p \in Pages : request[p]["push2"].phase = "none"

-----------------------------------------------------------------------------

\* A palette with all rows, a few or none; a project with three criteria.
Rows == [q \in Queries |-> IF q = "all" THEN 3 ELSE IF q = "some" THEN 1 ELSE 0]
ThreeWeights == <<50, 30, 20>>

\* What the service confirmed is on the learner's row; what was typed in the
\* playground, on the notebook or by a project is in the record or about to be;
\* what the frame and the milestones tell of the record is so.  Nothing gets past
\* a lesson's gates, and a page shows what was asked of it last.
WebWorkIsKept ==
    /\ part = "progress" => WebTypeOK /\ ConfirmedIsOnTheRow
    /\ part = "play" => PlayTypeOK /\ PlaygroundKeepsUp
    /\ part = "notes" => NotesTypeOK /\ NotesKeepUp
    /\ part = "frame" => FrameTypeOK /\ FrameIsHonest
    /\ part = "milestones" => MilestonesTypeOK /\ MilestonesAreTrue
    /\ part = "gates" => GatesTypeOK /\ GatesHold /\ ResultIsTheLatest /\ BuddyAnswers
=============================================================================
