------------------------------- MODULE Notes -------------------------------
(***************************************************************************)
(* What the learner writes outside the lessons of the web edition: the     *)
(* scratchpad of the notebook, the note and the marks of a project, the    *)
(* draft a project starts in the playground; and the settings' backups,    *)
(* which replace all of it.                                                *)
(*                                                                         *)
(* Each text is saved by a timer of half a second that outlives its page.  *)
(***************************************************************************)
EXTENDS Naturals, Sequences

CONSTANTS Jottings, Weights, MaxStrokes

\* Who has jotted something has a text.
ASSUME NotesAssumption == Weights \in Seq(Nat) /\ MaxStrokes \in Nat /\ "blank" \notin Jottings

VARIABLES at,               \* the sheet on the page, "settings" or "away"
          note,             \* what it shows
          own,           \* the learner's record
          late,             \* timers of pages that are gone, the oldest first
          file,             \* a backup being read: the page's record when it was picked
          copy,             \* the last download
          strokes,
          jotted, gone, crossed, missed    \* history, read by properties only

jotPast == <<jotted, gone, crossed, missed>>
noteVars == <<at, note, own, late, file, copy, strokes, jotPast>>

Sheets == {"scratchpad", "project", "play"}
Blank == "blank"
Outline == "outline"            \* a project's starter
NoJotting == "none"
NoCopy == [texts |-> [s \in Sheets |-> NoJotting], marks |-> {}]
Criteria == DOMAIN Weights

FreshRecord == [texts |-> [s \in Sheets |-> Blank], marks |-> {}]
Backup == [texts |-> [s \in Sheets |-> Outline], marks |-> {}]

Hydrate(s, r) == [text |-> r.texts[s], touched |-> FALSE, timer |-> NoJotting]

NotesInit ==
    /\ at = "away" /\ note = Hydrate("scratchpad", FreshRecord)
    /\ own = FreshRecord /\ late = <<>>
    /\ file = NoCopy /\ copy = NoCopy /\ strokes = 0
    /\ jotted = [s \in Sheets |-> NoJotting] /\ gone = {} /\ crossed = {} /\ missed = {}

Stroke == strokes < MaxStrokes /\ strokes' = strokes + 1

\* The sheet nobody typed on follows the record.
Mirror(r, n) == IF at \in Sheets /\ ~n.touched THEN [n EXCEPT !.text = r.texts[at]] ELSE n

\* update(): the record's new content; `ss` are the sheets it changes.
SaveInto(r, n, ss) ==
    /\ own' = r /\ note' = Mirror(r, n)
    /\ crossed' = IF file = NoCopy THEN crossed ELSE crossed \cup ss

VisitPage(to) ==
    /\ at = "away" /\ at' = to
    /\ note' = IF to \in Sheets THEN Hydrate(to, own) ELSE note
    /\ UNCHANGED <<own, late, file, copy, strokes, jotPast>>

LeftOver == IF at \in Sheets /\ note.timer # NoJotting
            THEN <<[sheet |-> at, text |-> note.timer]>> ELSE <<>>

LeavePage ==
    /\ at # "away" /\ at' = "away" /\ late' = late \o LeftOver
    /\ UNCHANGED <<note, own, file, copy, strokes, jotPast>>

\* onScratchChange, onNoteChange
Jot(x) ==
    /\ at \in Sheets /\ Stroke
    /\ note' = [text |-> x, touched |-> TRUE, timer |-> x]
    /\ jotted' = [jotted EXCEPT ![at] = x] /\ gone' = gone \ {at}
    /\ UNCHANGED <<at, own, late, file, copy, crossed, missed>>

WithText(s, x) == [own EXCEPT !.texts[s] = x]

\* Timers of equal length fire in the order they were set.
DueFires ==
    /\ at \in Sheets /\ note.timer # NoJotting
    /\ \A i \in DOMAIN late : late[i].sheet # at
    /\ SaveInto(WithText(at, note.timer), [note EXCEPT !.timer = NoJotting], {at})
    /\ UNCHANGED <<at, late, file, copy, strokes, jotted, gone, missed>>

LateFires ==
    /\ late # <<>> /\ late' = Tail(late)
    /\ SaveInto(WithText(Head(late).sheet, Head(late).text), note, {Head(late).sheet})
    /\ UNCHANGED <<at, file, copy, strokes, jotted, gone, missed>>

Toggled(S, i) == IF i \in S THEN S \ {i} ELSE S \cup {i}

\* toggleCriterion()
ToggleCriterion(i) ==
    /\ at = "project" /\ Stroke
    /\ SaveInto([own EXCEPT !.marks = Toggled(@, i)], note, {"marks"})
    /\ UNCHANGED <<at, late, file, copy, jotted, gone, missed>>

\* The weight of the criteria of a set.
Weight(S) ==
    LET sum[i \in 0 .. Len(Weights)] ==
          IF i = 0 THEN 0 ELSE sum[i - 1] + (IF i \in S THEN Weights[i] ELSE 0)
    IN sum[Len(Weights)]

\* rubricScore(): the weights of an edition's criteria add up to a hundred or not.
RubricScore(marks) ==
    LET total == Weight(Criteria)
    IN IF total > 0 THEN (Weight(marks) * 200 + total) \div (2 * total) ELSE 0

PassMark == 80
RubricPassed(marks) == RubricScore(marks) >= PassMark

\* startProject(): the learner is asked when the draft is his own; then the
\* playground opens on the starter.
StartProject(agrees) ==
    LET asks == own.texts["play"] \notin {Blank, Outline} IN
    /\ at = "project" /\ Stroke /\ (asks => agrees)
    /\ own' = WithText("play", Outline) /\ note' = Hydrate("play", own')
    /\ at' = "play" /\ late' = late \o LeftOver
    /\ gone' = IF asks THEN gone \cup {"play"} ELSE gone
    /\ crossed' = crossed \cup (IF file = NoCopy THEN {} ELSE {"play"})
    /\ UNCHANGED <<file, copy, jotted, missed>>

\* exportProgress()
ExportProgress ==
    /\ at = "settings" /\ Stroke /\ copy' = own
    /\ UNCHANGED <<at, note, own, late, file, jotPast>>

\* onImportFile(), up to the reading of the file.
PickFile ==
    /\ at = "settings" /\ file = NoCopy /\ Stroke
    /\ file' = own /\ crossed' = {}
    /\ UNCHANGED <<at, note, own, late, copy, jotted, gone, missed>>

Held(r, f) == IF f = "marks" THEN r.marks ELSE r.texts[f]

ReplaceBy(r) ==
    /\ own' = r /\ note' = Mirror(r, note)
    /\ gone' = Sheets
    /\ missed' = {f \in Sheets \cup {"marks"} : Held(copy', f) # Held(own, f)} \ crossed'

\* The file is read, wherever the learner is by now: it is no backup or the
\* learner declines, or the page's record of then is downloaded and replaced.
FileRead(accepted) ==
    /\ file # NoCopy /\ file' = NoCopy
    /\ UNCHANGED <<at, late, strokes, jotted, crossed>>
    /\ IF accepted THEN copy' = file /\ ReplaceBy(Backup)
                   ELSE UNCHANGED <<note, own, copy, gone, missed>>

\* resetProgress(): the download comes before the question.
ResetProgress(agrees) ==
    /\ at = "settings" /\ file = NoCopy /\ Stroke /\ crossed' = {}
    /\ copy' = own
    /\ IF agrees THEN ReplaceBy(FreshRecord) ELSE UNCHANGED <<note, own, gone, missed>>
    /\ UNCHANGED <<at, late, file, jotted>>

\* Another tab or device writes.
WrittenElsewhere(s, x) ==
    /\ Stroke /\ own.texts[s] # x
    /\ SaveInto(WithText(s, x), note, {s}) /\ gone' = gone \cup {s}
    /\ UNCHANGED <<at, late, file, copy, jotted, missed>>

NotesNext ==
    \/ \E to \in Sheets \cup {"settings"} : VisitPage(to)
    \/ LeavePage \/ DueFires \/ LateFires \/ ExportProgress \/ PickFile
    \/ \E x \in Jottings : Jot(x) \/ \E s \in Sheets : WrittenElsewhere(s, x)
    \/ \E i \in Criteria : ToggleCriterion(i)
    \/ \E b \in BOOLEAN : StartProject(b) \/ FileRead(b) \/ ResetProgress(b)

NotesSpec == NotesInit /\ [][NotesNext]_noteVars

-----------------------------------------------------------------------------

NotesTypeOK ==
    /\ at \in Sheets \cup {"settings", "away"}
    /\ own.marks \subseteq Criteria /\ DOMAIN own.texts = Sheets
    /\ late \in Seq([sheet: Sheets, text: Jottings])
    /\ gone \subseteq Sheets

\* What was typed last on a sheet is in the record or a timer still holds it;
\* the learner was asked, or another writer came later, where it is not.
JottingsAreKept == \A s \in Sheets :
    \/ jotted[s] \in {NoJotting, own.texts[s]} \/ s \in gone
    \/ at = s /\ note.timer = jotted[s]
    \/ \E i \in DOMAIN late : late[i] = [sheet |-> s, text |-> jotted[s]]

\* A sheet nobody typed on shows the record's text.
UntouchedShows == at \in Sheets /\ ~note.touched => note.text = own.texts[at]

\* The download before an import or a reset holds all that was replaced, but
\* for what was written while the file was being read.
CopyHoldsTheReplaced == missed = {}

\* A project that passes lacks a fifth of its weight at most, and with weights that
\* do not add up to a hundred no more over that than the score is rounded by.
PassingIsNearlyAll ==
    LET lacks == Weight(Criteria \ own.marks) total == Weight(Criteria) IN
    RubricPassed(own.marks) => /\ 200 * lacks <= 41 * total
                               /\ total = 100 => 5 * lacks <= total

NotesKeepUp == JottingsAreKept /\ UntouchedShows /\ CopyHoldsTheReplaced /\ PassingIsNearlyAll
=============================================================================
