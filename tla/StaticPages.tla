----------------------------- MODULE StaticPages -----------------------------
(***************************************************************************)
(* The frame of the static edition, the help it gives and its editors      *)
(* outside the lessons.  They are parts of one page, and each is modelled  *)
(* on its own: whatever the one does is a step the others may or may not   *)
(* take with it, and no property of one depends on the state of another.   *)
(***************************************************************************)
EXTENDS Shell, Companion, Workbench

StaticPagesSpec == ShellSpec /\ CompanionSpec /\ WorkbenchSpec

\* The page keeps the keyboard's focus and leads on, helps who is stuck step by
\* step, and its boxes hold what the record has or ask before they replace it.
\* (app.js, ui.js and tutor.js: shell(), setNavigationOpen(), celebrateLesson(), the
\* hints of a failed check, the playground, the browser lab and the projects)
PageIsHonest ==
    /\ ShellIsUsable
    /\ HelpIsFair
    /\ BenchShowsTheRecord /\ ExperimentIsItsOwn /\ OwnTextIsAskedFor
=============================================================================
