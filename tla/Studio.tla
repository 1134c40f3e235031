-------------------------------- MODULE Studio --------------------------------
(***************************************************************************)
(* One open page of the static edition, public/app.js: a lesson (concept   *)
(* question, code checks, completion), the review deck, and replacing the  *)
(* record by a reset or an import.  A run, the tutor's advice after a      *)
(* failed check and the replacing of the record are awaited while the      *)
(* learner goes on; another tab may change the record meanwhile.           *)
(*                                                                         *)
(* The record is the part of it the page decides about; how it is saved    *)
(* and merged is ProgressStore's.                                          *)
(***************************************************************************)
EXTENDS Integers, FiniteSets

CONSTANTS Track,                         \* the lessons of the only track
          NoLesson,
          MaxGestures, MaxElsewhere      \* bounds

\* The names of the other pages and of what else the output may show.
ASSUME StudioAssumption ==
    IsFiniteSet(Track) /\ Track \cap {NoLesson, "empty", "running", "review", "settings"} = {}

VARIABLES study,                         \* the record, as the page shows it
          ratings,                       \* history: cards rated on this record
          view, shown,                   \* the route, and what #code-output shows
          output,                        \* the lesson of the last result kept
          run, advices,                  \* the run under way; failed checks with the tutor
          card, revealed, explore,       \* selectedReview, reviewRevealed, reviewAll
          question, redrawn,                \* history: the last question put without its answer
          replacing,                     \* a reset or an import, and where it is
          gestures, elsewhere            \* how much of the bounds is used

reviewVars == <<card, revealed, explore, question>>
codeVars == <<shown, output, run, advices>>
studioVars == <<study, ratings, view, codeVars, reviewVars, redrawn, replacing,
                gestures, elsewhere>>

Lesson == Track \cup {NoLesson}
View == Track \cup {"review", "settings"}

\* A card is missing, due, or due later.
Study == [quizzes: SUBSET Track, solved: SUBSET Track, completed: SUBSET Track,
          cards: [Track -> {"none", "due", "later"}],
          certified: BOOLEAN, practice: Nat, lastLesson: Lesson]

Fresh == [quizzes |-> {}, solved |-> {}, completed |-> {},
          cards |-> [l \in Track |-> "none"], certified |-> FALSE,
          practice |-> 0, lastLesson |-> NoLesson]

\* Records a page may open or import: some lessons ready, some of them completed.
SavedWith(ready, done) ==
    [Fresh EXCEPT !.quizzes = ready, !.solved = ready, !.completed = done,
       !.cards = [l \in Track |-> IF l \in done THEN "due" ELSE "none"],
       !.certified = (done = Track),
       !.practice = 2 * Cardinality(ready) + Cardinality(done)]

Saved == UNION {{SavedWith(ready, done) : done \in SUBSET ready} : ready \in SUBSET Track}

StudioInit ==
    /\ study \in Saved
    /\ ratings = 0 /\ view = "settings" /\ shown = "empty" /\ output = NoLesson
    /\ run = [on |-> NoLesson, check |-> FALSE] /\ advices = {}
    /\ card = NoLesson /\ revealed = FALSE /\ explore = FALSE
    /\ question = NoLesson /\ redrawn = FALSE
    /\ replacing = "no" /\ gestures = 0 /\ elsewhere = 0

Gesture == gestures < MaxGestures /\ gestures' = gestures + 1 /\ UNCHANGED elsewhere
NoGesture == UNCHANGED <<gestures, elsewhere>>
RunBusy == run.on # NoLesson

-----------------------------------------------------------------------------
\* Drawing.

CanComplete(l) == l \in study.quizzes /\ l \in study.solved

\* recordActivity()
Practised(s) == [s EXCEPT !.practice = @ + 1]

DueCards(s, all) ==
    {l \in Track : (all \/ l \in s.completed) /\ s.cards[l] # "later"}

\* editor(): the output is kept for the exercise it came from.
EditorShows(k) == IF output = k THEN k ELSE "empty"

\* renderReview(): the selected card stays while it is due.
RenderReview(s, chosen, open, all) ==
    LET cards == DueCards(s, all) IN
    /\ \/ chosen \in cards /\ card' = chosen
       \/ chosen \notin cards /\ cards # {} /\ card' \in cards
       \/ chosen \notin cards /\ cards = {} /\ card' = NoLesson
    /\ revealed' = open /\ explore' = all
    /\ question' = IF open THEN question ELSE card'

\* shell(): the page of the route is drawn anew from the record s; a lesson
\* becomes the last one.
Shell(s, to, open) ==
    /\ view' = to
    /\ study' = IF to \in Track THEN [s EXCEPT !.lastLesson = to] ELSE s
    /\ shown' = IF to \in Track THEN EditorShows(to) ELSE "empty"
    /\ IF to = "review" THEN RenderReview(s, card, open, explore)
       ELSE revealed' = open /\ UNCHANGED <<card, explore, question>>

\* hashchange, also to the same page; a card may have come due by then.
Open(to) ==
    /\ Gesture
    /\ Shell(study, to, FALSE)
    /\ UNCHANGED <<ratings, output, run, advices, redrawn, replacing>>

CardComesDue(l) ==
    /\ study.cards[l] = "later"
    /\ study' = [study EXCEPT !.cards[l] = "due"]
    /\ Gesture
    /\ UNCHANGED <<ratings, view, codeVars, reviewVars, redrawn, replacing>>

-----------------------------------------------------------------------------
\* A lesson.

\* The concept question, answered rightly; it counts the first time.
AnswerQuiz ==
    /\ view \in Track /\ Gesture
    /\ study' = IF view \in study.quizzes THEN study
                ELSE Practised([study EXCEPT !.quizzes = @ \cup {view}])
    /\ UNCHANGED <<ratings, view, codeVars, reviewVars, redrawn, replacing>>

\* runCode(), up to its first await.
RunExercise(check) ==
    /\ view \in Track /\ ~RunBusy /\ Gesture
    /\ run' = [on |-> view, check |-> check] /\ shown' = "running"
    /\ UNCHANGED <<study, ratings, view, output, advices, reviewVars, redrawn, replacing>>

\* The result is shown in the editor of its exercise, if that is open still.
Draws(k) == IF view = k THEN k ELSE shown

\* Mutant: a passed check is practice each time.
RunPassesEachTime ==
    /\ RunBusy /\ NoGesture
    /\ study' = IF run.check THEN Practised([study EXCEPT !.solved = @ \cup {run.on}]) ELSE study
    /\ output' = run.on /\ shown' = Draws(run.on)
    /\ run' = [on |-> NoLesson, check |-> FALSE]
    /\ UNCHANGED <<ratings, view, advices, reviewVars, redrawn, replacing>>

\* A run ends; if it was a check and all passed, the challenge is solved, once.
RunPasses ==
    /\ RunBusy /\ NoGesture
    /\ study' = IF run.check /\ run.on \notin study.solved
                THEN Practised([study EXCEPT !.solved = @ \cup {run.on}]) ELSE study
    /\ output' = run.on /\ shown' = Draws(run.on)
    /\ run' = [on |-> NoLesson, check |-> FALSE]
    /\ UNCHANGED <<ratings, view, advices, reviewVars, redrawn, replacing>>

\* A check fails: the tutor is asked before anything is drawn, and the page is
\* free for another run.
CheckFails ==
    /\ RunBusy /\ run.check /\ NoGesture
    /\ output' = run.on /\ advices' = advices \cup {run.on}
    /\ run' = [on |-> NoLesson, check |-> FALSE]
    /\ UNCHANGED <<study, ratings, view, shown, reviewVars, redrawn, replacing>>

\* The advice is there: the result of its check is drawn at last.  Two checks of
\* one exercise may wait at once.
AdviceComes(k) ==
    /\ k \in advices /\ NoGesture
    /\ \/ advices' = advices \ {k}
       \/ advices' = advices
    /\ shown' = Draws(k)
    /\ UNCHANGED <<study, ratings, view, output, run, reviewVars, redrawn, replacing>>

ClearOutput ==
    /\ view \in Track /\ Gesture
    /\ output' = NoLesson /\ shown' = "empty"
    /\ UNCHANGED <<study, ratings, view, run, advices, reviewVars, redrawn, replacing>>

\* The learner completes the lesson: its card is due at once, and with the last
\* of the track the certificate is stamped.
Complete ==
    /\ view \in Track /\ CanComplete(view) /\ view \notin study.completed /\ Gesture
    /\ LET done == study.completed \cup {view} IN
       Shell(Practised([study EXCEPT !.completed = done, !.cards[view] = "due",
                                     !.certified = @ \/ done = Track]), view, revealed)
    /\ UNCHANGED <<ratings, output, run, advices, redrawn, replacing>>

-----------------------------------------------------------------------------
\* The review deck.

ReviewMode(all) ==
    /\ view = "review" /\ Gesture
    /\ RenderReview(study, NoLesson, FALSE, all)
    /\ UNCHANGED <<study, ratings, view, codeVars, redrawn, replacing>>

\* The button, or Space.
Reveal ==
    /\ view = "review" /\ ~revealed /\ card # NoLesson /\ Gesture
    /\ RenderReview(study, card, TRUE, explore)
    /\ UNCHANGED <<study, ratings, view, codeVars, redrawn, replacing>>

Rated(s) == Practised([s EXCEPT !.cards[card] = "later"])

\* How well the learner remembered; the next card is drawn.
Rate ==
    /\ view = "review" /\ revealed /\ card # NoLesson /\ Gesture
    /\ study' = Rated(study) /\ ratings' = ratings + 1
    /\ RenderReview(study', NoLesson, FALSE, explore)
    /\ UNCHANGED <<view, codeVars, redrawn, replacing>>

-----------------------------------------------------------------------------
\* Replacing the record, and other tabs.

\* No run may be under way when the learner asks for it ...
AskToReplace ==
    /\ view = "settings" /\ ~RunBusy /\ replacing = "no" /\ Gesture
    /\ replacing' \in {"reset", "import"}
    /\ UNCHANGED <<study, ratings, view, codeVars, reviewVars, redrawn>>

\* ... and after the backup is saved, or the file read, the question is put.
\* Declined, refused, or failed: nothing changes.
GiveUpReplacing ==
    /\ replacing # "no" /\ NoGesture
    /\ replacing' = "no"
    /\ UNCHANGED <<study, ratings, view, codeVars, reviewVars, redrawn>>

\* Confirmed, and the store has replaced the record: the page the learner has
\* gone to since is drawn anew.
Replaced ==
    /\ replacing # "no" /\ NoGesture
    /\ replacing' = "no"
    /\ \E s \in IF replacing = "reset" THEN {Fresh} ELSE Saved : Shell(s, view, revealed)
    /\ ratings' = 0 /\ redrawn' = TRUE
    /\ UNCHANGED <<output, run, advices>>

\* onChange and refreshSavedView(): another tab rated a card or replaced the
\* record; the page is drawn anew unless a control has the focus or a run is
\* under way.
ChangeElsewhere ==
    /\ elsewhere < MaxElsewhere /\ elsewhere' = elsewhere + 1 /\ UNCHANGED gestures
    /\ \E s \in {Fresh} \cup {Practised([study EXCEPT !.cards[l] = "later"]) : l \in study.completed} :
         /\ ratings' = IF s = Fresh THEN 0 ELSE ratings + 1
         /\ \/ study' = s /\ UNCHANGED <<view, shown, reviewVars>>
            \/ ~RunBusy /\ Shell(s, view, revealed)
    /\ redrawn' = TRUE
    /\ UNCHANGED <<output, run, advices, replacing>>

StudioNext ==
    \/ \E to \in View : Open(to)
    \/ \E l \in Track : CardComesDue(l) \/ AdviceComes(l)
    \/ AnswerQuiz \/ Complete \/ ClearOutput
    \/ \E check \in BOOLEAN : RunExercise(check)
    \/ RunPasses \/ CheckFails
    \/ \E all \in BOOLEAN : ReviewMode(all)
    \/ Reveal \/ Rate
    \/ AskToReplace \/ GiveUpReplacing \/ Replaced \/ ChangeElsewhere

StudioSpec == StudioInit /\ [][StudioNext]_studioVars

-----------------------------------------------------------------------------

StudioTypeOK ==
    /\ study \in Study /\ ratings \in Nat
    /\ view \in View /\ shown \in Track \cup {"empty", "running"} /\ output \in Lesson
    /\ run \in [on: Lesson, check: BOOLEAN] /\ advices \subseteq Track
    /\ card \in Lesson /\ revealed \in BOOLEAN /\ explore \in BOOLEAN
    /\ question \in Lesson /\ redrawn \in BOOLEAN
    /\ replacing \in {"no", "reset", "import"} /\ gestures \in Nat /\ elsewhere \in Nat

\* What the record says was earned: a lesson is completed only after its
\* question and its checks, a certificate needs the whole track, and each of
\* these counts as practice once, also when a result comes after the record
\* was replaced.
RecordIsEarned ==
    /\ study.completed \subseteq study.quizzes \cap study.solved
    /\ \A l \in study.completed : study.cards[l] # "none"
    /\ study.certified => study.completed = Track
    /\ study.practice = Cardinality(study.quizzes) + Cardinality(study.solved)
                          + Cardinality(study.completed) + ratings

\* An editor shows the result of its own exercise, and says that code is
\* running only while a run or its advice is awaited; leaving the page, coming
\* back and late advice included.
EditorShowsItsOwnRun ==
    /\ shown \in Track => view = shown
    /\ shown = "running" => view = run.on \/ view \in advices

\* The answer on the screen belongs to the card whose question was put first.
\* (app.js:930: "Try to retrieve the answer before you reveal it."  Only a change
\* of the record by another tab or a reset may draw another card in its place.)
RecallComesFirst ==
    view = "review" /\ revealed /\ ~redrawn => card = question

\* What the page keeps true of the learner's record and shows of it: practice,
\* completions and certificates are earned once, an editor shows its own run, and
\* an answer is shown only for the card that was asked, with runs, advice and
\* other tabs that come late.
StudioIsTrue == RecordIsEarned /\ EditorShowsItsOwnRun /\ RecallComesFirst
=============================================================================
