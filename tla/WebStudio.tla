------------------------------ MODULE WebStudio ------------------------------
(***************************************************************************)
(* The learning pages of the web edition, web/src/app/learn, in one tab:   *)
(* a lesson with its question, editor, checks and note, the review deck,   *)
(* and the settings.  A page is mounted while it is open; a check of C#    *)
(* goes on after its page is left, and so does the timer that saves a note,*)
(* while the editor's timer is cancelled.                                  *)
(*                                                                         *)
(* The record is what useProgress() holds; every update() works on its     *)
(* latest value.  Another tab's or device's work arrives between gestures. *)
(***************************************************************************)
EXTENDS Integers, FiniteSets, Sequences, SequencesExt

CONSTANTS Exercises,                     \* lessons, all open to this learner
          Drafts, Starter,               \* what may be typed; the text to begin with
          Nowhere, Nothing,
          Tiers,                         \* staged hints of a lesson
          MaxActs                        \* bound: gestures and arrivals

ASSUME WebStudioAssumption ==
    /\ Tiers \in Nat /\ IsFiniteSet(Exercises) /\ Nowhere \notin Exercises
    /\ Starter \notin Drafts /\ Nothing \notin Drafts

VARIABLES progress,                      \* the learner's record
          page,                          \* the mounted page
          checks,                        \* checks whose result is awaited
          noteTimers,                    \* notes to be saved, oldest first
          typed,                         \* history: the note last typed, per lesson
          rated, overtaken,              \* history
          acts                           \* how much of the bound is used

pageVars == <<progress, page, checks, noteTimers, typed, rated, overtaken, acts>>

DraftText == Drafts \cup {Starter}
Note == Drafts \cup {Nothing}

Progress == [quizzes: SUBSET Exercises, solved: SUBSET Exercises, completed: SUBSET Exercises,
             due: SUBSET Exercises, certified: BOOLEAN, practice: Nat,
             hints: [Exercises -> 0 .. Tiers], drafts: [Exercises -> DraftText],
             notes: [Exercises -> Note]]

FreshProgress ==
    [quizzes |-> {}, solved |-> {}, completed |-> {}, due |-> {}, certified |-> FALSE,
     practice |-> 0, hints |-> [l \in Exercises |-> 0],
     drafts |-> [l \in Exercises |-> Starter], notes |-> [l \in Exercises |-> Nothing]]

\* The lesson of a page, or Nowhere for every other one; the editor's text, whether
\* it was typed, and what its timer will save; whether a note was typed.
Page == [lesson: Exercises \cup {Nowhere}, text: DraftText, touched: BOOLEAN,
         timer: Drafts \cup {Nothing}, noted: BOOLEAN]
Elsewhere == [lesson |-> Nowhere, text |-> Starter, touched |-> FALSE, timer |-> Nothing,
              noted |-> FALSE]

\* A check: its lesson, whether its page is still open, and whether that saw hints left.
Check == [lesson: Exercises, open: BOOLEAN, hintsLeft: BOOLEAN]

PagesInit ==
    /\ progress = FreshProgress
    /\ page = Elsewhere /\ checks = << >> /\ noteTimers = << >>
    /\ typed = [l \in Exercises |-> Nothing]
    /\ rated = 0 /\ overtaken = FALSE /\ acts = 0

Act == acts < MaxActs /\ acts' = acts + 1
Here == page.lesson
Bump(p) == [p EXCEPT !.practice = @ + 1]

-----------------------------------------------------------------------------

\* A page opens: the one before is unmounted, and the editor's timer cancelled.
Visit(l) ==
    /\ Act
    /\ page' = IF l = Nowhere THEN Elsewhere
               ELSE [Elsewhere EXCEPT !.lesson = l, !.text = progress.drafts[l]]
    /\ checks' = [i \in DOMAIN checks |-> [checks[i] EXCEPT !.open = FALSE]]
    /\ overtaken' = FALSE
    /\ UNCHANGED <<progress, noteTimers, typed, rated>>

\* Quiz.submit(), answered rightly.
SubmitQuiz ==
    /\ Here # Nowhere /\ Here \notin progress.quizzes /\ Act
    /\ progress' = Bump([progress EXCEPT !.quizzes = @ \cup {Here}])
    /\ UNCHANGED <<page, checks, noteTimers, typed, rated, overtaken>>

\* onCodeChange(), or reset(), which saves at once.
Type(text) ==
    /\ Here # Nowhere /\ Act
    /\ \/ text # Starter /\ progress' = progress
          /\ page' = [page EXCEPT !.text = text, !.touched = TRUE, !.timer = text]
          /\ overtaken' = overtaken
       \/ text = Starter /\ progress' = [progress EXCEPT !.drafts[Here] = text]
          /\ page' = [page EXCEPT !.text = text, !.touched = TRUE, !.timer = Nothing]
          /\ overtaken' = FALSE
    /\ UNCHANGED <<checks, noteTimers, typed, rated>>

\* The editor's timer.
SaveDraft ==
    /\ page.timer # Nothing
    /\ progress' = [progress EXCEPT !.drafts[Here] = page.timer]
    /\ page' = [page EXCEPT !.timer = Nothing]
    /\ overtaken' = FALSE
    /\ UNCHANGED <<checks, noteTimers, typed, rated, acts>>

\* ReflectionNote.onChange(): only this page's own timer is put off.
TypeNote(text) ==
    /\ Here # Nowhere /\ Act
    /\ LET own == page.noted /\ noteTimers # << >> /\ Last(noteTimers).lesson = Here IN
       noteTimers' = Append(IF own THEN Front(noteTimers) ELSE noteTimers,
                            [lesson |-> Here, text |-> text])
    /\ page' = [page EXCEPT !.noted = TRUE]
    /\ typed' = [typed EXCEPT ![Here] = text]
    /\ UNCHANGED <<progress, checks, rated, overtaken>>

\* Mutant: the note of a page that was left is dropped.
SaveNoteWhereOpen ==
    /\ noteTimers # << >>
    /\ LET due == Head(noteTimers) IN
       progress' = IF Here = due.lesson
                   THEN [progress EXCEPT !.notes[due.lesson] = due.text] ELSE progress
    /\ noteTimers' = Tail(noteTimers)
    /\ UNCHANGED <<page, checks, typed, rated, overtaken, acts>>

\* Timers of equal length fire in the order they were set, on whatever page.
SaveNote ==
    /\ noteTimers # << >>
    /\ LET due == Head(noteTimers) IN
       progress' = [progress EXCEPT !.notes[due.lesson] = due.text]
    /\ noteTimers' = Tail(noteTimers)
    /\ UNCHANGED <<page, checks, typed, rated, overtaken, acts>>

\* The button is disabled while a check of this page is out.
MayCheck == \A i \in 1 .. Len(checks) : ~checks[i].open
NewCheck == [lesson |-> Here, open |-> TRUE, hintsLeft |-> progress.hints[Here] < Tiers]

\* check(); one of an earlier visit may be out still.
Begin ==
    /\ Here # Nowhere /\ MayCheck /\ Act
    /\ checks' = Append(checks, NewCheck)
    /\ progress' = [progress EXCEPT !.drafts[Here] = page.text]
    /\ page' = [page EXCEPT !.timer = Nothing]
    /\ overtaken' = FALSE
    /\ UNCHANGED <<noteTimers, typed, rated>>

\* All checks pass: solved, and practice once.
Passes(i) ==
    /\ progress' = IF checks[i].lesson \in progress.solved THEN progress
                   ELSE Bump([progress EXCEPT !.solved = @ \cup {checks[i].lesson}])
    /\ checks' = RemoveAt(checks, i)
    /\ UNCHANGED <<page, noteTimers, typed, rated, overtaken, acts>>

\* One fails, and the next hint is revealed if the page saw one left; or there is
\* no result at all: the worker of a page that was left is terminated.
Fails(i) ==
    /\ LET l == checks[i].lesson
           hint == IF progress.hints[l] < Tiers THEN progress.hints[l] + 1 ELSE Tiers IN
       \/ progress' = IF checks[i].hintsLeft THEN [progress EXCEPT !.hints[l] = hint]
                      ELSE progress
       \/ ~checks[i].open /\ progress' = progress
    /\ checks' = RemoveAt(checks, i)
    /\ UNCHANGED <<page, noteTimers, typed, rated, overtaken, acts>>

\* revealHint()
RevealHint ==
    /\ Here # Nowhere /\ progress.hints[Here] < Tiers /\ Act
    /\ progress' = [progress EXCEPT !.hints[Here] = @ + 1]
    /\ UNCHANGED <<page, checks, noteTimers, typed, rated, overtaken>>

\* certificateEarned(): of a track with lessons, every one.
CertificateEarned(completed, track) == track # {} /\ track \subseteq completed

\* complete(): the card is due at once; with the last lesson comes the certificate.
CompleteLesson ==
    /\ Here \in progress.quizzes \cap progress.solved /\ Here \notin progress.completed /\ Act
    /\ LET done == progress.completed \cup {Here} IN
       progress' = Bump([progress EXCEPT !.completed = done, !.due = @ \cup {Here},
                                         !.certified = @ \/ CertificateEarned(done, Exercises)])
    /\ UNCHANGED <<page, checks, noteTimers, typed, rated, overtaken>>

\* Review.rate() of the front card, in the learned deck.
RateCard ==
    /\ Here = Nowhere /\ Act
    /\ \E l \in progress.due : progress' = Bump([progress EXCEPT !.due = @ \ {l}])
    /\ rated' = rated + 1
    /\ UNCHANGED <<page, checks, noteTimers, typed, overtaken>>

\* resetProgress(); what timers and checks still hold lands on the new record.
StartOver ==
    /\ Here = Nowhere /\ Act
    /\ progress' = FreshProgress /\ rated' = 0
    /\ typed' = [l \in Exercises |->
                   IF \E i \in 1 .. Len(noteTimers) : noteTimers[i].lesson = l
                   THEN typed[l] ELSE Nothing]
    /\ UNCHANGED <<page, checks, noteTimers, overtaken>>

\* Another tab or device saved a draft: an editor nobody typed in follows it.
DraftArrives(l, text) ==
    /\ Act
    /\ progress' = [progress EXCEPT !.drafts[l] = text]
    /\ page' = IF Here = l /\ ~page.touched THEN [page EXCEPT !.text = text] ELSE page
    /\ overtaken' = (overtaken \/ Here = l)
    /\ UNCHANGED <<checks, noteTimers, typed, rated>>

PagesNext ==
    \/ \E l \in Exercises \cup {Nowhere} : Visit(l)
    \/ \E text \in DraftText : Type(text)
    \/ \E text \in Drafts : TypeNote(text) \/ \E l \in Exercises : DraftArrives(l, text)
    \/ SubmitQuiz \/ SaveDraft \/ SaveNote \/ Begin \/ RevealHint
    \/ \E i \in 1 .. Len(checks) : Passes(i) \/ Fails(i)
    \/ CompleteLesson \/ RateCard \/ StartOver

PagesSpec == PagesInit /\ [][PagesNext]_pageVars

-----------------------------------------------------------------------------

WebStudioTypeOK ==
    /\ progress \in Progress /\ page \in Page
    /\ checks \in Seq(Check) /\ noteTimers \in Seq([lesson: Exercises, text: Drafts])
    /\ typed \in [Exercises -> Note] /\ rated \in Nat /\ overtaken \in BOOLEAN /\ acts \in Nat

\* What the record says was earned here, too, with checks that answer late, twice
\* or after the record was reset.  (Challenge.tsx: "two rapid passing runs that
\* race before a re-render can't double-count the day's activity".)
WebRecordIsEarned ==
    /\ progress.completed \subseteq progress.quizzes \cap progress.solved
    /\ progress.certified => progress.completed = Exercises
    /\ progress.practice = Cardinality(progress.quizzes) + Cardinality(progress.solved)
                             + Cardinality(progress.completed) + rated

\* The note typed last is saved or about to be, on whatever page the learner is
\* by then; and an editor without a timer holds what is saved, unless another
\* device's draft has come since.  (Challenge.tsx: "never lose the exact code that
\* was run"; LessonView.tsx: "Saved automatically to your notebook.")
TypedWorkIsKept ==
    /\ \A l \in Exercises :
          LET waiting == {i \in DOMAIN noteTimers : noteTimers[i].lesson = l} IN
          /\ waiting = {} => typed[l] \in {Nothing, progress.notes[l]}
          /\ \A i \in waiting :
                (\A j \in waiting : j <= i) => noteTimers[i].text = typed[l]
    /\ Here # Nowhere /\ page.timer = Nothing /\ ~overtaken =>
          page.text = progress.drafts[Here]

\* What the pages promise of a learner's work: it counts once and is not lost,
\* with checks, timers and other devices that come late.
LessonsAreTrue == WebRecordIsEarned /\ TypedWorkIsKept
=============================================================================
