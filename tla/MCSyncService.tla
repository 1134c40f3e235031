--------------------------- MODULE MCSyncService ---------------------------
(***************************************************************************)
(* The sync service, the panel of a page that uses one, and the sign-in    *)
(* pages of the web edition: they share only what AccountSync already      *)
(* relates, so a behaviour follows one of them, with its own fairness, and *)
(* the others stay at their start.                                         *)
(***************************************************************************)
EXTENDS SyncService, SyncPanel, SignIn, TLC

RequestSymmetry == Permutations(Requests)

VARIABLE part

sidesVars == <<part, vars, panelVars, signInVars>>

SidesInit ==
    /\ part \in {"service", "panel", "signin"}
    /\ Init /\ PanelInit /\ SignInInit
    /\ part # "panel" => edition = "cookies" /\ ~known /\ ~jar
    /\ part # "signin" => confirms = FALSE

\* Following one side leaves the others alone.
FollowService == part = "service" /\ UNCHANGED <<part, panelVars, signInVars>>
FollowPanel == part = "panel" /\ UNCHANGED <<part, vars, signInVars>>
FollowSignIn == part = "signin" /\ UNCHANGED <<part, vars, panelVars>>

SidesNext ==
    \/ FollowService /\ Next
    \/ FollowPanel /\ PanelNext
    \/ FollowSignIn /\ SignInNext

\* Each side's own fairness, of the steps that are its own.
SidesFairness ==
    /\ \A r \in Requests : WF_sidesVars(FollowService /\ Continue(r))
    /\ WF_sidesVars(FollowService /\ Purge)
    /\ WF_sidesVars(FollowPanel /\ TimerFires) /\ WF_sidesVars(FollowPanel /\ Settling)
    /\ \A t \in Tabs : WF_sidesVars(FollowSignIn /\ AnswersCall(t))

SidesSpec == SidesInit /\ [][SidesNext]_sidesVars /\ SidesFairness

-----------------------------------------------------------------------------

\* A form that waits for an answer comes free again, in the account panel and on
\* the sign-in pages.
FormsComeFree == PanelComesFree /\ SignInComesFree
=============================================================================
