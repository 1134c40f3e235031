------------------------------ MODULE Workbench ------------------------------
(***************************************************************************)
(* The editors of the static edition outside its lessons: the playground   *)
(* with a draft per language, the browser lab under it with its two boxes  *)
(* and its preview frame, and a project that is started in the playground  *)
(* and ticked off step by step.  A text box saves as it is typed in, and   *)
(* follows the record when another tab or device changes that.             *)
(*                                                                         *)
(* Text is what it stems from.  Runs of the code are Studio's, and so is   *)
(* Ctrl+Enter; the record is saved at once (ProgressStore has the delays). *)
(***************************************************************************)
EXTENDS Naturals

CONSTANT MaxStrokes

ASSUME WorkbenchAssumption == MaxStrokes \in Nat

VARIABLES kept, stepDone,            \* of the record: drafts, a step of the project
          desk, named, playLang,     \* the page, the language of its address and of the playground
          shows, ticked,             \* what its boxes show
          frame, loading, running,   \* the preview frame, those that load, what runs in it
          letters, domOutput,        \* messages on their way; the one shown, if any
          strokes,
          meant, behind, broughtUp   \* history, read by properties only

benchRecord == <<kept, stepDone>>
benchAddress == <<desk, named, playLang>>
domLab == <<frame, loading, running, letters, domOutput>>
benchPast == <<meant, behind, broughtUp>>
workbenchVars == <<benchRecord, benchAddress, shows, ticked, domLab, strokes, benchPast>>

PlayLangs == {"js", "cs"}
BoxKeys == {"play-js", "play-cs", "dom-html", "dom-js"}
CodeKey(l) == IF l = "js" THEN "play-js" ELSE "play-cs"
StepBox == "step"

NoDraft == "none"
OwnTexts == {"own", "elsewhere"}
BoxTexts == OwnTexts \cup {"starter", "project", "blank"}

\* The lab is under the JavaScript editor.
InView(b) == desk = "playground" /\ (b = CodeKey(playLang) \/ (b \in {"dom-html", "dom-js"} /\ playLang = "js"))
LabInView == InView("dom-html")

\* editor(): the draft, or the starter when there is none.
DraftOr(d, b) == IF d[b] = NoDraft THEN "starter" ELSE d[b]

WorkbenchInit ==
    /\ kept = [b \in BoxKeys |-> NoDraft] /\ stepDone = FALSE
    /\ desk = "project" /\ named = "none" /\ playLang = "js"
    /\ shows = [b \in BoxKeys |-> "starter"] /\ ticked = FALSE
    /\ frame = 0 /\ loading = {} /\ running = "nothing" /\ letters = {} /\ domOutput = {}
    /\ strokes = 0
    /\ meant = kept /\ behind = {} /\ broughtUp = 0

Stroke == strokes < MaxStrokes /\ strokes' = strokes + 1

-----------------------------------------------------------------------------
\* Pages.

\* A page is drawn from the record, with a frame of its own.
DrawBench(d) ==
    /\ shows' = [b \in BoxKeys |-> DraftOr(d, b)]
    /\ ticked' = stepDone
    /\ frame' = frame + 1 /\ running' = "nothing" /\ domOutput' = {}
    /\ behind' = {} /\ broughtUp' = frame'
    /\ UNCHANGED <<loading, letters>>

\* shell(): a link to the playground, which may name a language.
OpenPlayground(l) ==
    /\ Stroke /\ (desk # "playground" \/ named # l)
    /\ desk' = "playground" /\ named' = l
    /\ playLang' = IF l = "none" THEN playLang ELSE l
    /\ DrawBench(kept)
    /\ UNCHANGED <<benchRecord, meant>>

OpenProject ==
    /\ Stroke /\ desk = "playground"
    /\ desk' = "project" /\ named' = "none" /\ DrawBench(kept)
    /\ UNCHANGED <<benchRecord, playLang, meant>>

\* Mutant: the address keeps the language it had.
PickWithoutAddress(l) ==
    /\ Stroke /\ desk = "playground"
    /\ playLang' = l /\ DrawBench(kept)
    /\ UNCHANGED <<desk, named, benchRecord, meant>>

PickLanguage(l) ==
    /\ Stroke /\ desk = "playground"
    /\ playLang' = l /\ named' = l /\ DrawBench(kept)
    /\ UNCHANGED <<desk, benchRecord, meant>>

-----------------------------------------------------------------------------
\* Text.

\* An edit, by whatever key.
Write(b, t) ==
    /\ Stroke /\ InView(b)
    /\ shows' = [shows EXCEPT ![b] = t]
    /\ kept' = [kept EXCEPT ![b] = t]
    /\ meant' = [meant EXCEPT ![b] = t] /\ behind' = behind \ {b}
    /\ UNCHANGED <<stepDone, benchAddress, ticked, domLab, broughtUp>>

\* What was meant to be kept when a starter takes the place of a draft: the
\* starter if the learner agreed, and own text if nobody asked.
MeantBy(b, t, agreed) ==
    meant' = [meant EXCEPT ![b] = IF agreed \/ @ \notin OwnTexts THEN t ELSE @]

\* "Reset": the learner is asked unless the box shows the starter.
ResetCode(agreed) ==
    LET b == CodeKey(playLang) IN
    /\ Stroke /\ desk = "playground"
    /\ agreed \/ shows[b] = "starter"
    /\ shows' = [shows EXCEPT ![b] = "starter"]
    /\ kept' = [kept EXCEPT ![b] = "starter"]
    /\ MeantBy(b, "starter", agreed) /\ behind' = behind \ {b}
    /\ UNCHANGED <<stepDone, benchAddress, ticked, domLab, broughtUp>>

\* Mutant: the page of the project is asked, which shows no draft.
StartProjectUnasked(l, agreed) ==
    LET b == CodeKey(l)
        drafts == [kept EXCEPT ![b] = "project"] IN
    /\ Stroke /\ desk = "project"
    /\ kept' = drafts
    /\ MeantBy(b, "project", agreed)
    /\ desk' = "playground" /\ named' = "none" /\ playLang' = l
    /\ DrawBench(drafts) /\ UNCHANGED stepDone

\* "Open in playground": asked unless the draft is blank or that starter; then
\* the playground is opened in the project's language.
StartProject(l, agreed) ==
    LET b == CodeKey(l)
        drafts == [kept EXCEPT ![b] = "project"] IN
    /\ Stroke /\ desk = "project"
    /\ agreed \/ kept[b] \in {NoDraft, "blank", "project"}
    /\ kept' = drafts
    /\ MeantBy(b, "project", agreed)
    /\ desk' = "playground" /\ named' = "none" /\ playLang' = l
    /\ DrawBench(drafts) /\ UNCHANGED stepDone

\* change of a check box: that step is put in the record as the box has it.
Tick ==
    /\ Stroke /\ desk = "project"
    /\ ticked' = ~ticked /\ stepDone' = ~ticked
    /\ behind' = behind \ {StepBox}
    /\ UNCHANGED <<kept, benchAddress, shows, domLab, meant, broughtUp>>

-----------------------------------------------------------------------------
\* The record changes under the page.

\* Mutant: a page without the keyboard's focus is drawn again, the playground too.
Redrawn ==
    /\ ticked' = stepDone' /\ shows' = [b \in BoxKeys |-> DraftOr(kept', b)]
    /\ frame' = frame + 1 /\ running' = "nothing" /\ domOutput' = {}
    /\ behind' = {}
    /\ UNCHANGED <<loading, letters, broughtUp>>

\* refreshSavedView(): boxes take the draft they have in the record, if there is
\* one; nothing else of the playground is touched.
RefreshSavedView ==
    /\ ticked' = stepDone'
    /\ shows' = [b \in BoxKeys |-> IF kept'[b] = NoDraft THEN shows[b] ELSE kept'[b]]
    /\ behind' = {b \in BoxKeys : kept'[b] = NoDraft /\ shows[b] # "starter"}
    /\ UNCHANGED <<domLab, broughtUp>>

\* Another tab or device wrote a draft and the step.
WrittenElsewhere ==
    /\ Stroke
    /\ \E b \in BoxKeys, s \in BOOLEAN :
          /\ kept' = [kept EXCEPT ![b] = "elsewhere"] /\ stepDone' = s
          /\ meant' = [meant EXCEPT ![b] = "elsewhere"]
    /\ RefreshSavedView
    /\ UNCHANGED benchAddress

\* The record was reset in another tab: boxes have no draft to take.
ClearedElsewhere ==
    /\ Stroke
    /\ kept' = [b \in BoxKeys |-> NoDraft] /\ stepDone' = FALSE /\ meant' = kept'
    /\ RefreshSavedView
    /\ UNCHANGED benchAddress

\* The first merge with an account replaces the record: no box follows.
Adopted ==
    /\ Stroke
    /\ \E b \in BoxKeys, s \in BOOLEAN :
          /\ kept' = [kept EXCEPT ![b] = "elsewhere"] /\ stepDone' = s
          /\ meant' = [meant EXCEPT ![b] = NoDraft]    \* nobody has seen it yet
          /\ behind' = behind \cup {b, StepBox}
    /\ UNCHANGED <<benchAddress, shows, ticked, domLab, broughtUp>>

-----------------------------------------------------------------------------
\* The browser lab.

\* "Update preview": a fresh frame, which gets the boxes' text once it has loaded.
UpdatePreview ==
    /\ Stroke /\ LabInView
    /\ frame' = frame + 1 /\ running' = "nothing" /\ domOutput' = {}
    /\ loading' = loading \cup {[frame |-> frame', code |-> shows["dom-js"]]}
    /\ broughtUp' = frame'
    /\ UNCHANGED <<benchRecord, benchAddress, shows, ticked, letters, meant, behind>>

\* Its load event: nothing is sent to a frame that is gone.
Loaded ==
    /\ \E load \in loading :
          /\ loading' = loading \ {load}
          /\ running' = IF LabInView /\ load.frame = frame THEN load.code ELSE running
    /\ UNCHANGED <<benchRecord, benchAddress, shows, ticked, frame, letters, domOutput, strokes, benchPast>>

\* dom-preview.js: what the code of the frame prints, or its error.
Prints ==
    /\ running # "nothing"
    /\ letters' = letters \cup {[frame |-> frame, code |-> running]}
    /\ UNCHANGED <<benchRecord, benchAddress, shows, ticked, frame, loading, running, domOutput, strokes, benchPast>>

\* Mutant: from whatever frame it comes.
AnyLetterArrives ==
    /\ \E letter \in letters :
          /\ letters' = letters \ {letter}
          /\ domOutput' = IF LabInView THEN {letter} ELSE domOutput
    /\ UNCHANGED <<benchRecord, benchAddress, shows, ticked, frame, loading, running, strokes, benchPast>>

\* message: only what the frame of the page sent is shown.
LetterArrives ==
    /\ \E letter \in letters :
          /\ letters' = letters \ {letter}
          /\ domOutput' = IF LabInView /\ letter.frame = frame THEN {letter} ELSE domOutput
    /\ UNCHANGED <<benchRecord, benchAddress, shows, ticked, frame, loading, running, strokes, benchPast>>

WorkbenchNext ==
    \/ \E l \in PlayLangs \cup {"none"} : OpenPlayground(l)
    \/ OpenProject
    \/ \E l \in PlayLangs : PickLanguage(l)
    \/ \E b \in BoxKeys, t \in {"own", "blank"} : Write(b, t)
    \/ \E agreed \in BOOLEAN : ResetCode(agreed)
    \/ \E l \in PlayLangs, agreed \in BOOLEAN : StartProject(l, agreed)
    \/ Tick \/ WrittenElsewhere \/ ClearedElsewhere \/ Adopted
    \/ UpdatePreview \/ Loaded \/ Prints \/ LetterArrives

WorkbenchSpec == WorkbenchInit /\ [][WorkbenchNext]_workbenchVars

-----------------------------------------------------------------------------

Experiment == [frame: 1 .. MaxStrokes, code: BoxTexts]

WorkbenchTypeOK ==
    /\ kept \in [BoxKeys -> BoxTexts \cup {NoDraft}] /\ meant \in [BoxKeys -> BoxTexts \cup {NoDraft}]
    /\ shows \in [BoxKeys -> BoxTexts] /\ stepDone \in BOOLEAN /\ ticked \in BOOLEAN
    /\ desk \in {"project", "playground"} /\ playLang \in PlayLangs
    /\ named \in PlayLangs \cup {"none"}
    /\ frame \in 0 .. MaxStrokes /\ broughtUp \in 0 .. MaxStrokes /\ strokes \in 0 .. MaxStrokes
    /\ loading \subseteq Experiment /\ letters \subseteq Experiment
    /\ running \in BoxTexts \cup {"nothing"}
    /\ domOutput \subseteq Experiment
    /\ behind \subseteq BoxKeys \cup {StepBox}

\* What is seen is what is kept: a text box shows its draft, or the starter, and
\* a check box its step, unless the record was cleared or replaced under the page;
\* and an address that names a language names the one shown, so that going back
\* or reloading leads there.
BenchShowsTheRecord ==
    /\ \A b \in BoxKeys : InView(b) /\ b \notin behind => shows[b] = DraftOr(kept, b)
    /\ desk = "project" /\ StepBox \notin behind => ticked = stepDone
    /\ desk = "playground" /\ named # "none" => named = playLang

\* The lab's output was printed by the experiment in the page and not by one
\* before it, and an experiment lasts until the learner ends it, whatever another
\* tab or the account saves meanwhile.
ExperimentIsItsOwn ==
    /\ domOutput \subseteq {[frame |-> frame, code |-> running]}
    /\ LabInView => frame = broughtUp

\* A learner's own text gives way to a starter only when they agreed to it, even
\* where it is not in sight.  (app.js: "Your current draft for this exercise will
\* be replaced.")
OwnTextIsAskedFor == \A b \in BoxKeys : meant[b] \in OwnTexts => kept[b] = meant[b]
=============================================================================
