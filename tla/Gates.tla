-------------------------------- MODULE Gates --------------------------------
(***************************************************************************)
(* What the web edition lets a learner do with a lesson: the free modules  *)
(* and the paid ones, the runner that checks their code and the study      *)
(* buddy.  The right is read when /learn is loaded and holds for that      *)
(* page, however long it stays open; only a route asks again.              *)
(*                                                                         *)
(* The record is WebStudio's, with a module and a language per lesson; how *)
(* a check is graded is Grading's, the way to the local runner             *)
(* CSharpRunner's, what the tutor's route meters TutorQuota's.             *)
(***************************************************************************)
EXTENDS Naturals, FiniteSets

CONSTANTS Modules,                       \* of each track, counted from 0
          HintTiers,                     \* staged hints of a lesson
          MaxVisits, MaxChecks           \* bounds

ASSUME GatesAssumption ==
    Modules \in Nat \ {0} /\ HintTiers \in Nat /\ MaxVisits \in Nat /\ MaxChecks \in Nat

VARIABLES right,                         \* what the server would answer now
          held,                          \* what the page was loaded with
          opened, visit,                 \* the lesson open; which mounting of a page this is
          sdk, bundle,                   \* what its probes found: local .NET, the hosted one
          checks,                        \* checks that are out
          outcome,                       \* of the check shown
          buddy,                         \* the study buddy's box
          earned,                        \* the learner's record
          checked,                       \* how much of the bound is used
          lent, switched, ended          \* history, read by properties only

gatesPage == <<held, opened, visit, sdk, bundle, outcome, buddy>>
gatesPast == <<lent, switched, ended>>
gatesVars == <<right, gatesPage, checks, earned, checked, gatesPast>>

Lesson == [lang: {"js", "cs"}, module: 0 .. Modules - 1]
Overview == [lang |-> "none", module |-> 0]

Rights == {"free", "pro"}                \* a trial has all of Pro, who is signed out what is free
Probe == {"asking", "found", "missing"}
Runners == {"worker", "local", "hosted"}

\* A check: its lesson and page, what runs it, whether the page saw hints left.
RunCheck == [no: 1 .. MaxChecks, lesson: Lesson, visit: Nat, by: Runners, hintsLeft: BOOLEAN]

\* The record: the answers, solutions, completed lessons with their cards, hints
\* revealed, drafts, the lesson to resume, certificates and the practice counted.
LessonRecord == [quizzes: SUBSET Lesson, solved: SUBSET Lesson, completed: SUBSET Lesson,
           hints: [Lesson -> 0 .. HintTiers], drafts: SUBSET Lesson,
           last: Lesson \cup {Overview}, certificates: SUBSET {"js", "cs"}, practice: Nat]

NoOutcome == [no |-> 0, ok |-> TRUE]

\* The buddy's box: a question is out, and the route has ruled on it; it shows a
\* hint or a note.  History: the check it was asked about; another was out meanwhile.
BuddyBox == [asking: {"no", "sent", "granted", "refused"}, no: 0 .. MaxChecks,
             shows: {"nothing", "hint", "note"}, late: BOOLEAN]
QuietBox == [asking |-> "no", no |-> 0, shows |-> "nothing", late |-> FALSE]

GatesInit ==
    /\ right \in Rights /\ held = right
    /\ opened = Overview /\ visit = 0 /\ sdk = "asking" /\ bundle = "asking"
    /\ checks = {} /\ outcome = NoOutcome /\ buddy = QuietBox
    /\ earned = [quizzes |-> {}, solved |-> {}, completed |-> {},
                 hints |-> [l \in Lesson |-> 0], drafts |-> {}, last |-> Overview,
                 certificates |-> {}, practice |-> 0]
    /\ checked = 0
    /\ lent = {} /\ switched = FALSE /\ ended = 0

-----------------------------------------------------------------------------
\* gating.ts

FreeModuleCount == 1
IsFreeLesson(l) == l.module < FreeModuleCount

CanPractice(r, l) == IsFreeLesson(l) \/ r = "pro"
CanRunCsharp(r) == r = "pro"
CanUseAiTutor(r) == r = "pro"

-----------------------------------------------------------------------------
\* Challenge: what it runs with.

UseWasm == opened.lang = "cs" /\ sdk # "found" /\ CanRunCsharp(held) /\ bundle = "found"
RunnerNow == IF opened.lang = "js" THEN "worker" ELSE IF UseWasm THEN "hosted" ELSE "local"
CanRun == opened.lang = "js" \/ sdk = "found" \/ UseWasm

\* Each hook knows its own runs, of this mounting.
RunningNow == \E c \in checks : c.visit = visit /\ c.by = RunnerNow

Unlocked == opened # Overview /\ CanPractice(held, opened)

-----------------------------------------------------------------------------
\* Pages.

\* A lesson that is opened is the one to resume.
Resumes(l) == earned' = IF l = Overview THEN earned ELSE [earned EXCEPT !.last = l]

Mounts(l) ==
    /\ Resumes(l)
    /\ opened' = l /\ visit' = visit + 1 /\ sdk' = "asking"
    /\ outcome' = NoOutcome /\ buddy' = QuietBox
    /\ switched' = FALSE /\ ended' = 0
    /\ lent' = IF held' = "pro" THEN lent \cup {l} ELSE lent

\* A full load: the right is read again, and what the old page waited for is gone.
LoadLearn(l) ==
    /\ visit < MaxVisits
    /\ held' = right /\ bundle' = "asking" /\ checks' = {} /\ Mounts(l)
    /\ UNCHANGED <<right, checked>>

\* A link: the layout stays, and so do the runs of C#; a worker is terminated.
FollowLink(l) ==
    /\ visit < MaxVisits /\ l # opened
    /\ held' = held /\ bundle' = bundle
    /\ checks' = {c \in checks : c.by # "worker"}
    /\ Mounts(l)
    /\ UNCHANGED <<right, checked>>

\* The probes of the mounted challenge; that of the bundle is kept for the page.
ProbeLocal ==
    /\ Unlocked /\ sdk = "asking" /\ sdk' \in {"found", "missing"}
    /\ switched' = (switched \/ \E c \in checks : c.visit = visit)
    /\ UNCHANGED <<right, held, opened, visit, bundle, checks, outcome, buddy, earned,
                   checked, lent, ended>>

ProbeHosted ==
    /\ Unlocked /\ bundle = "asking" /\ bundle' \in {"found", "missing"}
    /\ UNCHANGED <<right, held, opened, visit, sdk, checks, outcome, buddy, earned,
                   checked, gatesPast>>

\* The row lapses or is paid for: no page hears of it.
RightChanges ==
    /\ right' = IF right = "pro" THEN "free" ELSE "pro"
    /\ UNCHANGED <<gatesPage, checks, earned, checked, gatesPast>>

-----------------------------------------------------------------------------
\* Work.

\* Quiz.submit(), answered rightly.
PassQuiz ==
    /\ Unlocked /\ opened \notin earned.quizzes
    /\ earned' = [earned EXCEPT !.quizzes = @ \cup {opened}, !.practice = @ + 1]
    /\ UNCHANGED <<right, gatesPage, checks, checked, gatesPast>>

NewRun == [no |-> checked + 1, lesson |-> opened, visit |-> visit, by |-> RunnerNow,
           hintsLeft |-> earned.hints[opened] < HintTiers]

\* check(): the draft is saved, the buddy's last words go, and a question that is
\* out goes on.
BeginCheck ==
    /\ Unlocked /\ CanRun /\ ~RunningNow /\ checked < MaxChecks
    /\ checked' = checked + 1 /\ checks' = checks \cup {NewRun}
    /\ earned' = [earned EXCEPT !.drafts = @ \cup {opened}]
    /\ buddy' = [buddy EXCEPT !.shows = "nothing", !.late = buddy.asking # "no"]
    /\ UNCHANGED <<right, held, opened, visit, sdk, bundle, outcome, gatesPast>>

\* All checks passed: the solution and its practice count once.
Solve(l) ==
    earned' = IF l \in earned.solved THEN earned
              ELSE [earned EXCEPT !.solved = @ \cup {l}, !.practice = @ + 1]

\* One did not: the next hint is revealed, if the page had seen one left.
Surface(c) ==
    LET shown == earned.hints[c.lesson] IN
    earned' = IF c.hintsLeft
              THEN [earned EXCEPT !.hints[c.lesson] = IF shown < HintTiers THEN shown + 1 ELSE HintTiers]
              ELSE earned

\* Its result: the record has it wherever the learner is, its own page shows it.
\* A program of C# may be stopped after its last check.
CheckEnds(c) ==
    /\ \E passed, stopped \in BOOLEAN :
          /\ stopped => c.by # "worker"
          /\ outcome' = IF c.visit = visit THEN [no |-> c.no, ok |-> passed /\ ~stopped] ELSE outcome
          /\ IF passed THEN Solve(c.lesson) ELSE Surface(c)
    /\ checks' = checks \ {c}
    /\ ended' = IF c.visit = visit /\ c.no > ended THEN c.no ELSE ended
    /\ UNCHANGED <<right, held, opened, visit, sdk, bundle, buddy, checked, lent, switched>>

\* complete(): with the last lesson of a track comes its certificate.
Complete ==
    /\ Unlocked /\ opened \in (earned.quizzes \cap earned.solved) \ earned.completed
    /\ LET done == earned.completed \cup {opened}
           track == {l \in Lesson : l.lang = opened.lang} IN
       earned' = [earned EXCEPT !.completed = done, !.practice = @ + 1,
                    !.certificates = IF track \subseteq done THEN @ \cup {opened.lang} ELSE @]
    /\ UNCHANGED <<right, gatesPage, checks, checked, gatesPast>>

-----------------------------------------------------------------------------
\* The study buddy.

\* askTutor(): under a result that is not all right.
AskTutor ==
    /\ Unlocked /\ CanUseAiTutor(held)
    /\ outcome.no > 0 /\ ~outcome.ok /\ buddy.asking = "no"
    /\ buddy' = [asking |-> "sent", no |-> outcome.no, shows |-> "nothing",
                  late |-> \E c \in checks : c.visit = visit]
    /\ UNCHANGED <<right, held, opened, visit, sdk, bundle, outcome, checks, earned,
                   checked, gatesPast>>

\* The route asks for the right anew, and may refuse for reasons of its own.
TutorRules ==
    /\ buddy.asking = "sent"
    /\ \E ruling \in {"granted", "refused"} :
          /\ ruling = "granted" => CanUseAiTutor(right)
          /\ buddy' = [buddy EXCEPT !.asking = ruling]
    /\ UNCHANGED <<right, held, opened, visit, sdk, bundle, outcome, checks, earned,
                   checked, gatesPast>>

\* Whatever was refused, or failed on the way, is a note.
TutorAnswers ==
    /\ buddy.asking # "no"
    /\ \E says \in {"hint", "note"} :
          /\ says = "hint" => buddy.asking = "granted"
          /\ buddy' = [buddy EXCEPT !.asking = "no", !.shows = says]
    /\ UNCHANGED <<right, held, opened, visit, sdk, bundle, outcome, checks, earned,
                   checked, gatesPast>>

GatesNext ==
    \/ \E l \in Lesson \cup {Overview} : LoadLearn(l) \/ FollowLink(l)
    \/ ProbeLocal \/ ProbeHosted \/ RightChanges
    \/ PassQuiz \/ BeginCheck \/ \E c \in checks : CheckEnds(c)
    \/ Complete \/ AskTutor \/ TutorRules \/ TutorAnswers

GatesSpec == GatesInit /\ [][GatesNext]_gatesVars

-----------------------------------------------------------------------------

GatesTypeOK ==
    /\ right \in Rights /\ held \in Rights /\ opened \in Lesson \cup {Overview}
    /\ visit \in 0 .. MaxVisits /\ sdk \in Probe /\ bundle \in Probe
    /\ checks \subseteq RunCheck
    /\ outcome \in [no: 0 .. MaxChecks, ok: BOOLEAN] /\ buddy \in BuddyBox
    /\ earned \in LessonRecord /\ checked \in 0 .. MaxChecks
    /\ lent \subseteq Lesson \cup {Overview} /\ switched \in BOOLEAN /\ ended \in 0 .. MaxChecks

\* The gates are where they are said to be, over lapses, reloads and late results:
\* what is solved or completed beyond the free modules was practised on a page
\* loaded with Pro, and C# runs hosted for such pages only.  (gating.ts: "these
\* gates bite only on the paid value")
GatesHold ==
    /\ \A l \in earned.quizzes \cup earned.solved \cup earned.completed : IsFreeLesson(l) \/ l \in lent
    /\ \A c \in checks : c.by = "hosted" => c.lesson \in lent

\* The result shown is the latest of the page's that is in, and none is out that
\* began before it, unless the local runner was found while another ran.
ResultIsTheLatest ==
    ~switched => /\ outcome.no = ended
                 /\ \A c \in checks : c.visit = visit => c.no > outcome.no

\* Who asked the buddy is answered by a hint or by a note, also when the right has
\* lapsed since; and what the box says is about the result above it, unless
\* another check was out while the buddy thought.  (Challenge.tsx: "a fresh run
\* supersedes any previous buddy hint")
BuddyAnswers ==
    /\ buddy.asking # "no" => held = "pro" /\ buddy.shows = "nothing"
    /\ buddy.shows # "nothing" /\ ~buddy.late /\ ~switched => buddy.no = outcome.no
=============================================================================
