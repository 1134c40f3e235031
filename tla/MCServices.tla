----------------------------- MODULE MCServices -----------------------------
(***************************************************************************)
(* The services that share no state with one another, explored side by     *)
(* side: a behaviour follows one of them, with its own fairness, and the   *)
(* others stay at their start.                                             *)
(***************************************************************************)
EXTENDS Billing, TutorQuota, CSharpRunner, Grading

VARIABLE part

servicesVars == <<part, billingVars, quotaVars, runnerVars, gradingVars>>

Init ==
    /\ part \in {"billing", "quota", "runner", "grading"}
    /\ BillingInit /\ QuotaInit /\ RunnerInit /\ GradingInit
    /\ part # "billing" => provider = "paystack"
    /\ part # "grading" => tests = << >> /\ program = [lang |-> "js", compiles |-> TRUE,
                                                     answers |-> << >>, ending |-> "clean",
                                                     returned |-> << >>]

\* Following one part leaves the others alone.
FollowBilling == part = "billing" /\ UNCHANGED <<part, quotaVars, runnerVars, gradingVars>>
FollowQuota == part = "quota" /\ UNCHANGED <<part, billingVars, runnerVars, gradingVars>>
FollowRunner == part = "runner" /\ UNCHANGED <<part, billingVars, quotaVars, gradingVars>>
FollowGrading == part = "grading" /\ UNCHANGED <<part, billingVars, quotaVars, runnerVars>>

Next ==
    \/ FollowBilling /\ BillingNext
    \/ FollowQuota /\ QuotaNext
    \/ FollowRunner /\ RunnerNext
    \/ FollowGrading /\ GradingNext

\* Each part's own fairness, of the steps that are its own.
Fairness ==
    /\ WF_servicesVars(FollowBilling /\ Delivered)
    /\ \A t \in Tabs : WF_servicesVars(FollowRunner /\ Running(t))
    /\ WF_servicesVars(FollowRunner /\ \E p \in posts : CompileEnds(p) \/ RunEnds(p))

Spec == Init /\ [][Next]_servicesVars /\ Fairness
=============================================================================
