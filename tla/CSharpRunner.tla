----------------------------- MODULE CSharpRunner -----------------------------
(***************************************************************************)
(* Running a program in the static edition: runCode() of public/app.js, the *)
(* client of public/runner-client.js, and POST /api/run of the local       *)
(* server, server.mjs, which compiles and runs one C# program at a time.    *)
(*                                                                         *)
(* Each tab runs one program at a time; several tabs share the server, the *)
(* server may be restarted at any moment, answers may be lost and any call *)
(* may run into its timeout.  JavaScript runs in a worker of the tab.      *)
(***************************************************************************)
EXTENDS Integers, FiniteSets

CONSTANTS Tabs,
          MaxRuns,                       \* bound: gestures of a tab
          MaxRestarts                    \* bound

ASSUME RunnerAssumption == MaxRuns \in Nat

VARIABLES token, active,                 \* of the server process
          tab,                           \* per tab: where its run is
          posts,                         \* calls of /api/run, until answered
          started                        \* history: starts of a gesture's program

runnerVars == <<token, active, tab, posts, started>>

Gestures == 1 .. MaxRuns

\* What the learner is left with: the program's result, a refusal, an error
\* that may hide a run, or a failure to reach the server before sending.
Ending == {"none", "result", "refused", "unsure", "unreached"}

RunnerTab == [phase: {"idle", "worker", "status", "waiting"}, gesture: 0 .. MaxRuns,
              attempt: {0, 1}, ending: Ending]

Post == [tab: Tabs, gesture: Gestures, attempt: {0, 1}, token: Nat,
         phase: {"sent", "reading", "compiling", "running", "answered"},
         status: {0, 200, 403, 429, 400, 500}]

RunnerInit ==
    /\ token = 0 /\ active = FALSE
    /\ tab = [t \in Tabs |-> [phase |-> "idle", gesture |-> 0, attempt |-> 0, ending |-> "none"]]
    /\ posts = {}
    /\ started = [t \in Tabs |-> [g \in Gestures |-> 0]]

-----------------------------------------------------------------------------
\* The tab.

Shows(t, ending) == tab' = [tab EXCEPT ![t].phase = "idle", ![t].ending = ending]

\* runCode(): a button that is disabled while runBusy is set.
RunCode(t) ==
    /\ tab[t].phase = "idle" /\ tab[t].gesture < MaxRuns
    /\ \E phase \in {"worker", "status"} :
          tab' = [tab EXCEPT ![t] = [phase |-> phase, gesture |-> @.gesture + 1,
                                     attempt |-> 0, ending |-> "none"]]
    /\ UNCHANGED <<token, active, posts, started>>

\* The worker answers, fails, or is terminated after four seconds.
WorkerEnds(t) ==
    /\ tab[t].phase = "worker"
    /\ \E ending \in {"result", "unsure"} :
          /\ Shows(t, ending)
          /\ started' = [started EXCEPT ![t][tab[t].gesture] = @ + 1]
    /\ UNCHANGED <<token, active, posts>>

Call(t) == [tab |-> t, gesture |-> tab[t].gesture, attempt |-> tab[t].attempt,
            token |-> token, phase |-> "sent", status |-> 0]

\* getStatus(), and the program is sent with the token of that moment; or there
\* is no status in five seconds.
GetStatus(t) ==
    /\ tab[t].phase = "status"
    /\ \/ /\ tab' = [tab EXCEPT ![t].phase = "waiting"]
          /\ posts' = posts \cup {Call(t)}
       \/ Shows(t, "unreached") /\ posts' = posts
    /\ UNCHANGED <<token, active, started>>

Expected(t, p) ==
    tab[t].phase = "waiting" /\ p.tab = t /\ p.gesture = tab[t].gesture /\ p.attempt = tab[t].attempt

\* An answer: only an explicit 403 is tried again, and once.
HearRun(t, p) ==
    /\ p.phase = "answered" /\ Expected(t, p)
    /\ posts' = posts \ {p}
    /\ IF p.status = 403 /\ tab[t].attempt = 0
       THEN tab' = [tab EXCEPT ![t].phase = "status", ![t].attempt = 1]
       ELSE Shows(t, CASE p.status = 200 -> "result"
                       [] p.status = 500 -> "unsure"
                       [] OTHER -> "refused")
    /\ UNCHANGED <<token, active, started>>

\* Mutant: whatever goes wrong the first time is tried again.
GiveUpAndRetry(t) ==
    /\ tab[t].phase = "waiting"
    /\ IF tab[t].attempt = 0
       THEN tab' = [tab EXCEPT ![t].phase = "status", ![t].attempt = 1]
       ELSE Shows(t, "unsure")
    /\ posts' = {p \in posts : ~(p.phase = "answered" /\ p.tab = t)}
    /\ UNCHANGED <<token, active, started>>

\* No answer within 30 seconds, a lost connection, or an answer that cannot be
\* read: the program may have run.
GiveUp(t) ==
    /\ tab[t].phase = "waiting"
    /\ Shows(t, "unsure")
    /\ posts' = {p \in posts : ~(p.phase = "answered" /\ p.tab = t)}
    /\ UNCHANGED <<token, active, started>>

-----------------------------------------------------------------------------
\* The server.

Moves(p, phase) == posts' = (posts \ {p}) \cup {[p EXCEPT !.phase = phase]}

\* An answer nobody waits for is lost.
Answers(p, status) ==
    posts' = (posts \ {p}) \cup
        IF Expected(p.tab, p) THEN {[p EXCEPT !.phase = "answered", !.status = status]} ELSE {}

\* The headers are checked, then the body is awaited.
Arrive(p) ==
    /\ p.phase = "sent"
    /\ IF p.token = token THEN Moves(p, "reading") ELSE Answers(p, 403)
    /\ UNCHANGED <<token, active, tab, started>>

\* Mutant: the runner is found free before the body is read.
AdmitUnchecked(p) ==
    /\ p.phase = "reading"
    /\ active' = TRUE
    /\ Moves(p, "compiling")
    /\ UNCHANGED <<token, tab, started>>

\* The body is there: the runner is checked and taken in one step.
Admit(p) ==
    /\ p.phase = "reading" /\ ~active
    /\ active' = TRUE
    /\ Moves(p, "compiling")
    /\ UNCHANGED <<token, tab, started>>

\* Busy, or the request is too large, malformed or names no exercise.
RefuseRun(p) ==
    /\ p.phase = "reading"
    /\ IF active THEN Answers(p, 429) ELSE Answers(p, 400)
    /\ UNCHANGED <<token, active, tab, started>>

\* executeCSharp(), the compiler: an error or 20 seconds end it, and the answer
\* is still a 200; a file that cannot be written is a 500.
CompileEnds(p) ==
    /\ p.phase = "compiling"
    /\ \/ /\ Moves(p, "running") /\ active' = active
          /\ started' = [started EXCEPT ![p.tab][p.gesture] = @ + 1]
       \/ \E status \in {200, 500} :
             Answers(p, status) /\ active' = FALSE /\ started' = started
    /\ UNCHANGED <<token, tab>>

\* Mutant: the runner is given back only when all went well.
RunEndsWithoutFinally(p) ==
    /\ p.phase = "running"
    /\ \E status \in {200, 500} : Answers(p, status) /\ active' = (status # 200)
    /\ UNCHANGED <<token, tab, started>>

\* The program ends, or is killed after five seconds or too much output; its
\* folder is removed, which may fail.  The runner is free in any case.
RunEnds(p) ==
    /\ p.phase = "running"
    /\ \E status \in {200, 500} : Answers(p, status)
    /\ active' = FALSE
    /\ UNCHANGED <<token, tab, started>>

\* Ctrl+C and a new start: another token, and nothing of the old process is
\* left.  What is still on its way reaches the new one.
RestartServer ==
    /\ token < MaxRestarts /\ token' = token + 1
    /\ active' = FALSE
    /\ posts' = {p \in posts : p.phase \in {"sent", "answered"}}
    /\ UNCHANGED <<tab, started>>

Serving(p) == Arrive(p) \/ Admit(p) \/ RefuseRun(p) \/ CompileEnds(p) \/ RunEnds(p)
Running(t) == WorkerEnds(t) \/ GetStatus(t) \/ GiveUp(t) \/ \E p \in posts : HearRun(t, p)

RunnerNext ==
    \/ RestartServer
    \/ \E t \in Tabs : RunCode(t) \/ Running(t)
    \/ \E p \in posts : Serving(p)

RunnerSpec == RunnerInit /\ [][RunnerNext]_runnerVars

\* Every wait has a timer, and a program that is killed ends.
RunnerFairness ==
    /\ \A t \in Tabs : WF_runnerVars(Running(t))
    /\ WF_runnerVars(\E p \in posts : CompileEnds(p) \/ RunEnds(p))

-----------------------------------------------------------------------------

RunnerTypeOK ==
    /\ token \in Nat /\ active \in BOOLEAN
    /\ tab \in [Tabs -> RunnerTab] /\ posts \subseteq Post
    /\ started \in [Tabs -> [Gestures -> Nat]]

Busy == {p \in posts : p.phase \in {"compiling", "running"}}

\* The runner is taken exactly while one program is compiled or runs, so two
\* never share it.  (server.mjs: "Check and reserve the runner together".)
OneProgramAtATime ==
    /\ Cardinality(Busy) <= 1
    /\ active <=> Busy # {}

\* A click on Run starts the program at most once, and what the learner reads
\* tells whether it did: after a refusal it never ran, and nothing of it is left
\* to run later.  (runner-client.js: "a disconnected or timed-out POST may
\* already have executed the learner's code".)
AnswerTellsWhatRan ==
    \A t \in Tabs :
        /\ \A g \in Gestures : started[t][g] <= 1
        /\ tab[t].ending \in {"refused", "unreached"} =>
              /\ started[t][tab[t].gesture] = 0
              /\ \A p \in posts : p.tab = t => p.gesture < tab[t].gesture

\* The runner of this computer runs one program at a time, and what a page shows is
\* what became of its own.
RunnersAreTrue == OneProgramAtATime /\ AnswerTellsWhatRan

\* The runner is always given back, and the Run button comes back to life.
RunnerComesFree ==
    /\ active ~> ~active
    /\ \A t \in Tabs : tab[t].phase # "idle" ~> tab[t].phase = "idle"
=============================================================================
