----------------------------- MODULE Playground -----------------------------
(***************************************************************************)
(* The playground of the web edition: an editor with a draft per language, *)
(* its runs, and the browser lab under it, whose two boxes feed a preview  *)
(* frame.  Typing is saved by a timer, also after the page was left.       *)
(*                                                                         *)
(* Half a second passes before a learner who left a box is back at it: its *)
(* timer has fired by then.                                                *)
(***************************************************************************)
EXTENDS Naturals

CONSTANTS Scribbles, Starter, MaxGestures

ASSUME PlaygroundAssumption == Starter \notin Scribbles /\ MaxGestures \in Nat

VARIABLES open, lang,         \* the page; its language
          box,                \* per text box: what it shows
          drafts,             \* of the record
          orphans,            \* timers of boxes that are gone
          available, runs,    \* the C# runner was found; a run is out, per language
          result,             \* the output shown
          payload, preview,   \* for the frame; what it shows
          gestures,
          typed, others, asked        \* history, read by properties only

playRuns == <<available, runs, result>>
lab == <<payload, preview>>
playPast == <<typed, others, asked>>
playVars == <<open, lang, box, drafts, orphans, playRuns, lab, gestures, playPast>>

Langs == {"js", "cs"}
Boxes == {"code", "dom-html", "dom-js"}
DraftKeys == {"play-js", "play-cs", "dom-html", "dom-js"}
NoScribble == "none"
Saved == Scribbles \cup {NoScribble}
Shown == Scribbles \cup {Starter}

\* timer: what it will save.
Box == [text: Shown, touched: BOOLEAN, timer: Shown \cup {NoScribble}]
Nothing == [html |-> NoScribble, code |-> NoScribble]

KeyOf(b, l) == IF b = "code" THEN (IF l = "js" THEN "play-js" ELSE "play-cs") ELSE b

\* The lab is there for JavaScript only.
Visible(b) == open /\ (b # "code" => lang = "js")

Hydrated(d, k) ==
    [text |-> IF d[k] = NoScribble THEN Starter ELSE d[k], touched |-> FALSE, timer |-> NoScribble]

PlayInit ==
    /\ open = FALSE /\ lang = "js"
    /\ drafts = [k \in DraftKeys |-> NoScribble]
    /\ box = [b \in Boxes |-> Hydrated(drafts, KeyOf(b, "js"))]
    /\ orphans = {} /\ available = "unknown" /\ runs = [l \in Langs |-> FALSE] /\ result = "none"
    /\ payload = Nothing /\ preview = Nothing
    /\ gestures = 0
    /\ typed = [k \in DraftKeys |-> NoScribble] /\ others = {} /\ asked = Nothing

Gesture == gestures < MaxGestures /\ gestures' = gestures + 1

\* The boxes nobody typed in follow the record.
Follow(d, bs) == [b \in Boxes |->
    IF bs[b].touched THEN bs[b] ELSE [bs[b] EXCEPT !.text = Hydrated(d, KeyOf(b, lang)).text]]

Left(gone) == {[key |-> KeyOf(b, lang), text |-> box[b].timer] :
                 b \in {c \in gone : Visible(c) /\ box[c].timer # NoScribble}}

OpenPlayground(l) ==
    /\ ~open /\ orphans = {}
    /\ open' = TRUE /\ lang' = l
    /\ box' = [b \in Boxes |-> Hydrated(drafts, KeyOf(b, l))]
    /\ available' = "unknown" /\ result' = "none" /\ UNCHANGED runs
    /\ payload' = Nothing /\ preview' = Nothing /\ asked' = Nothing
    /\ UNCHANGED <<drafts, orphans, gestures, typed, others>>

\* The probe of the loopback runner comes back.
Probed(found) ==
    /\ open /\ available = "unknown" /\ available' = IF found THEN "yes" ELSE "no"
    /\ UNCHANGED <<open, lang, box, drafts, orphans, runs, result, lab, gestures, playPast>>

\* onCodeChange, onHtmlChange and onJsChange.
Type(b, x) ==
    /\ Visible(b) /\ Gesture
    /\ box' = [box EXCEPT ![b] = [text |-> x, touched |-> TRUE, timer |-> x]]
    /\ typed' = [typed EXCEPT ![KeyOf(b, lang)] = x]
    /\ others' = others \ {KeyOf(b, lang)}
    /\ UNCHANGED <<open, lang, drafts, orphans, playRuns, lab, asked>>

\* persistDraft(), persist()
Persist(d) == drafts' = d

TimerFires(b) ==
    LET d == [drafts EXCEPT ![KeyOf(b, lang)] = box[b].timer] IN
    /\ Visible(b) /\ box[b].timer # NoScribble
    /\ Persist(d)
    /\ box' = Follow(d, [box EXCEPT ![b].timer = NoScribble])
    /\ UNCHANGED <<open, lang, orphans, playRuns, lab, gestures, playPast>>

OrphanFires(o) ==
    LET d == [drafts EXCEPT ![o.key] = o.text] IN
    /\ o \in orphans /\ orphans' = orphans \ {o}
    /\ Persist(d) /\ box' = IF open THEN Follow(d, box) ELSE box
    /\ UNCHANGED <<open, lang, playRuns, lab, gestures, playPast>>

\* Mutant: the timer is stopped and the text is not kept.
SelectLangDropsText(l) ==
    /\ open /\ l # lang /\ Gesture /\ (l = "js" => orphans = {})
    /\ drafts' = drafts
    /\ lang' = l
    /\ box' = [b \in Boxes |-> Hydrated(drafts, KeyOf(b, l))]
    /\ orphans' = orphans \cup (IF lang = "js" THEN Left({"dom-html", "dom-js"}) ELSE {})
    /\ result' = "none"
    /\ payload' = Nothing /\ preview' = Nothing /\ asked' = Nothing
    /\ UNCHANGED <<open, available, runs, typed, others>>

\* The text is saved as it is, and the other language's draft comes in.  The
\* lab goes with JavaScript, its timers do not.
SelectLang(l) ==
    LET d == [drafts EXCEPT ![KeyOf("code", lang)] = box["code"].text] IN
    /\ open /\ l # lang /\ Gesture /\ (l = "js" => orphans = {})
    /\ Persist(d)
    /\ lang' = l
    /\ box' = [b \in Boxes |-> Hydrated(d, KeyOf(b, l))]
    /\ orphans' = orphans \cup (IF lang = "js" THEN Left({"dom-html", "dom-js"}) ELSE {})
    /\ result' = "none"
    /\ payload' = Nothing /\ preview' = Nothing /\ asked' = Nothing
    /\ UNCHANGED <<open, available, runs, typed, others>>

\* The code is saved, then run.
RunCode ==
    /\ open /\ Gesture
    /\ ~runs[lang] /\ (lang = "cs" => available = "yes")
    /\ LET d == [drafts EXCEPT ![KeyOf("code", lang)] = box["code"].text]
       IN Persist(d) /\ box' = Follow(d, [box EXCEPT !["code"].timer = NoScribble])
    /\ runs' = [runs EXCEPT ![lang] = TRUE]
    /\ UNCHANGED <<open, lang, orphans, available, result, lab, playPast>>

\* The worker or the runner answers, or its time is up: the result is shown,
\* whichever language is by now.
RunEnds(l) ==
    /\ open /\ runs[l] /\ runs' = [runs EXCEPT ![l] = FALSE]
    /\ result' = l
    /\ UNCHANGED <<open, lang, box, drafts, orphans, available, lab, gestures, playPast>>

\* runPreview(): a new frame, and what to hand it.
UpdatePreview ==
    LET d == [drafts EXCEPT !["dom-html"] = box["dom-html"].text, !["dom-js"] = box["dom-js"].text]
        both == [html |-> box["dom-html"].text, code |-> box["dom-js"].text]
    IN
    /\ Visible("dom-html") /\ Gesture
    /\ Persist(d)
    /\ box' = Follow(d, [box EXCEPT !["dom-html"].timer = NoScribble, !["dom-js"].timer = NoScribble])
    /\ payload' = both /\ preview' = Nothing /\ asked' = both
    /\ UNCHANGED <<open, lang, orphans, playRuns, typed, others>>

\* onFrameLoad()
FrameLoads ==
    /\ Visible("dom-html") /\ payload # Nothing
    /\ preview' = payload /\ payload' = Nothing
    /\ UNCHANGED <<open, lang, box, drafts, orphans, playRuns, gestures, playPast>>

\* Another device's draft, or another tab's, arrives.
Remote(k, x) ==
    LET d == [drafts EXCEPT ![k] = x] IN
    /\ Gesture /\ drafts[k] # x
    /\ drafts' = d /\ box' = IF open THEN Follow(d, box) ELSE box
    /\ others' = others \cup {k}
    /\ UNCHANGED <<open, lang, orphans, playRuns, lab, typed, asked>>

\* The page is left: its worker is stopped, its timers are not.
ClosePlayground ==
    /\ open /\ open' = FALSE
    /\ orphans' = orphans \cup Left(Boxes)
    /\ runs' = [l \in Langs |-> FALSE] /\ result' = "none"
    /\ UNCHANGED <<lang, box, drafts, available, lab, gestures, playPast>>

PlayNext ==
    \/ \E l \in Langs : OpenPlayground(l) \/ SelectLang(l) \/ RunEnds(l)
    \/ \E found \in BOOLEAN : Probed(found)
    \/ \E b \in Boxes : TimerFires(b) \/ \E x \in Scribbles : Type(b, x)
    \/ \E o \in orphans : OrphanFires(o)
    \/ \E k \in DraftKeys, x \in Scribbles : Remote(k, x)
    \/ RunCode \/ UpdatePreview \/ FrameLoads \/ ClosePlayground

PlaySpec == PlayInit /\ [][PlayNext]_playVars

-----------------------------------------------------------------------------

PlayTypeOK ==
    /\ box \in [Boxes -> Box] /\ drafts \in [DraftKeys -> Saved \cup {Starter}]
    /\ orphans \subseteq [key: DraftKeys, text: Shown]
    /\ result \in Langs \cup {"none"}

\* What was typed last is in the record or a timer still holds it, whatever was
\* selected, run or left since, unless another device wrote the same draft later.
ScribblesAreKept == \A k \in DraftKeys :
    \/ typed[k] \in {NoScribble, drafts[k]} \/ k \in others
    \/ \E b \in Boxes : Visible(b) /\ KeyOf(b, lang) = k /\ box[b].timer = typed[k]
    \/ [key |-> k, text |-> typed[k]] \in orphans

\* A box nobody typed in shows the record's draft.
UntouchedFollows == \A b \in Boxes :
    Visible(b) /\ ~box[b].touched => box[b].text = Hydrated(drafts, KeyOf(b, lang)).text

\* The frame shows what the learner asked for last.
PreviewIsLatest == preview # Nothing => preview = asked

PlaygroundKeepsUp == ScribblesAreKept /\ UntouchedFollows /\ PreviewIsLatest
=============================================================================
