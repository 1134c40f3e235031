------------------------------ MODULE WebFrame ------------------------------
(***************************************************************************)
(* What frames every learning page of the web edition: the palette, the    *)
(* drawer of the small screen, the account menu and its deletion, the      *)
(* badge of the sync, and the theme, which three controls change, each     *)
(* with a copy of its own.                                                 *)
(***************************************************************************)
EXTENDS Integers

CONSTANTS Queries,              \* what may be typed in the palette
          RowsFor,              \* how many commands and lessons match it
          MaxMoves

\* One query, the empty one, matches whatever any other does.
ASSUME FrameAssumption ==
    /\ RowsFor \in [Queries -> Nat] /\ MaxMoves \in Nat
    /\ \E q \in Queries : \A r \in Queries : RowsFor[r] <= RowsFor[q]

NoQuery == CHOOSE q \in Queries : \A r \in Queries : RowsFor[r] <= RowsFor[q]

VARIABLES palette,              \* the dialog
          drawer, menu,         \* is it open
          theme,                \* what is stored, painted, and said by each control
          leaving,              \* the deletion of the account
          upload,                 \* the provider's status, its timer, its requests
          moves,
          chosen, elsewhere, typedEmail, overlap   \* history, read by properties only

frameSurfaces == <<palette, drawer, menu>>
themes == <<theme, chosen, elsewhere>>
framePast == <<typedEmail, overlap>>
frameVars == <<frameSurfaces, themes, leaving, upload, moves, framePast>>

Prefs == {"light", "dark", "system"}
Controls == {"bar", "settings"}
Shut == [open |-> FALSE, query |-> NoQuery, active |-> 0, dark |-> FALSE]

FrameInit ==
    /\ palette = Shut /\ drawer = FALSE /\ menu = FALSE
    /\ \E os \in BOOLEAN, p \in Prefs :
         theme = [os |-> os, stored |-> p, painted |-> p = "dark" \/ (p = "system" /\ os),
                  says |-> [c \in Controls |-> p]]
    /\ leaving = "none"
    /\ upload = [status |-> "synced", timer |-> FALSE, out |-> 0]
    /\ moves = 0
    /\ chosen = theme.stored /\ elsewhere = FALSE /\ typedEmail = FALSE /\ overlap = FALSE

Move == moves < MaxMoves /\ moves' = moves + 1

-----------------------------------------------------------------------------
\* The palette.

\* resolveTheme(): is it dark?
ResolveTheme(pref) == pref = "dark" \/ (pref = "system" /\ theme.os)

\* Control and K, or its button: a click outside the account menu.
OpenPalette(byKey) ==
    /\ ~palette.open /\ Move /\ (byKey \/ ~drawer)
    /\ palette' = [Shut EXCEPT !.open = TRUE, !.dark = ResolveTheme(theme.stored)]
    /\ menu' = (menu /\ byKey)
    /\ UNCHANGED <<drawer, themes, leaving, upload, framePast>>

\* The highlight stays in range as the rows become fewer.
Clamped(p) == [p EXCEPT !.active = IF RowsFor[p.query] = 0 \/ @ < RowsFor[p.query] THEN @
                                   ELSE RowsFor[p.query] - 1]

TypeQuery(q) ==
    /\ palette.open /\ q # palette.query /\ Move
    /\ palette' = Clamped([palette EXCEPT !.query = q, !.active = 0])
    /\ UNCHANGED <<drawer, menu, themes, leaving, upload, framePast>>

\* onInputKey(): with no rows, the arrow down leads to -1.
Arrow(down) ==
    LET last == RowsFor[palette.query] - 1
        to == IF down THEN (IF palette.active + 1 < last THEN palette.active + 1 ELSE last)
              ELSE IF palette.active > 0 THEN palette.active - 1 ELSE 0
    IN
    /\ palette.open /\ palette.active # to
    /\ palette' = [palette EXCEPT !.active = to]
    /\ UNCHANGED <<drawer, menu, themes, leaving, upload, moves, framePast>>

\* applyThemePref(), by the control `who`.
ApplyThemePref(who, pref) ==
    /\ theme' = [theme EXCEPT !.stored = pref, !.painted = ResolveTheme(pref),
                              !.says = [c \in Controls |-> IF who \in {c, "boot"} THEN pref ELSE @[c]]]
    /\ chosen' = pref /\ elsewhere' = FALSE

\* activate(): a page or a lesson closes the palette, the theme does not.  The
\* drawer and the menu stay as they are, over the page that comes.
Activate(isTheme) ==
    /\ palette.open /\ palette.active \in 0 .. RowsFor[palette.query] - 1 /\ Move
    /\ IF isTheme
         THEN /\ ApplyThemePref("palette", IF palette.dark THEN "light" ELSE "dark")
              /\ palette' = [palette EXCEPT !.dark = ~@]
         ELSE palette' = Shut /\ UNCHANGED themes
    /\ menu' \in {menu, FALSE}          \* by key, or by a click outside it
    /\ UNCHANGED <<drawer, leaving, upload, framePast>>

\* Escape closes whatever is open; a click on the backdrop only its own.
Escape ==
    /\ palette.open \/ drawer \/ menu
    /\ palette' = Shut /\ drawer' = FALSE /\ menu' = FALSE
    /\ UNCHANGED <<themes, leaving, upload, moves, framePast>>

ClickBackdrop ==
    /\ palette.open /\ palette' = Shut /\ menu' = FALSE
    /\ UNCHANGED <<drawer, themes, leaving, upload, moves, framePast>>

-----------------------------------------------------------------------------
\* The bar.

ToggleDrawer ==
    /\ ~palette.open /\ Move /\ drawer' = ~drawer /\ menu' = FALSE
    /\ UNCHANGED <<palette, themes, leaving, upload, framePast>>

\* Under the drawer's backdrop nothing can be clicked.
ToggleMenu ==
    /\ ~palette.open /\ ~drawer /\ Move /\ menu' = ~menu
    /\ UNCHANGED <<palette, drawer, themes, leaving, upload, framePast>>

\* cycle() of the bar and chooseTheme() of the settings: each from what it says.
Cycle(p) == CASE p = "system" -> "light" [] p = "light" -> "dark" [] OTHER -> "system"

ChooseTheme(c, pref) ==
    /\ ~palette.open /\ ~drawer /\ Move
    /\ c = "bar" => pref = Cycle(theme.says["bar"])
    /\ ApplyThemePref(c, pref) /\ menu' = FALSE
    /\ UNCHANGED <<palette, drawer, leaving, upload, framePast>>

\* The settings are opened again and read what is stored.
MountSettings ==
    /\ theme.says["settings"] # theme.stored
    /\ theme' = [theme EXCEPT !.says["settings"] = theme.stored]
    /\ UNCHANGED <<frameSurfaces, chosen, elsewhere, leaving, upload, moves, framePast>>

\* Another tab stores a preference or the system turns: nothing here listens.
ThemeElsewhere(pref, os) ==
    /\ Move /\ <<pref, os>> # <<theme.stored, theme.os>>
    /\ theme' = [theme EXCEPT !.stored = pref, !.os = os] /\ elsewhere' = TRUE
    /\ UNCHANGED <<frameSurfaces, leaving, upload, chosen, framePast>>

\* A full load: the boot script paints, the controls read.
LoadFrame ==
    /\ elsewhere /\ palette' = Shut /\ drawer' = FALSE /\ menu' = FALSE
    /\ ApplyThemePref("boot", theme.stored)
    /\ leaving' = IF leaving = "deleted" THEN leaving ELSE "none"
    /\ upload' = [status |-> "synced", timer |-> FALSE, out |-> 0] /\ overlap' = FALSE
    /\ UNCHANGED <<moves, typedEmail>>

\* deleteAccount(): the prompt, the request, its answer.
DeleteAccount(matches) ==
    /\ menu /\ ~palette.open /\ leaving = "none" /\ Move
    /\ leaving' = "busy" /\ typedEmail' = matches
    /\ UNCHANGED <<frameSurfaces, themes, upload, overlap>>

DeleteAnswered(fresh) ==
    /\ leaving = "busy"
    /\ leaving' = IF typedEmail /\ fresh THEN "deleted" ELSE "none"
    /\ typedEmail' = (typedEmail /\ fresh)
    /\ UNCHANGED <<frameSurfaces, themes, upload, moves, overlap>>

\* The request fails: nothing puts the button back.
DeleteUnreached ==
    /\ leaving = "busy" /\ leaving' = "stuck"
    /\ UNCHANGED <<frameSurfaces, themes, upload, moves, framePast>>

-----------------------------------------------------------------------------
\* The badge: scheduleSync() and what it shows.

ScheduleSync ==
    /\ Move /\ upload' = [upload EXCEPT !.status = "syncing", !.timer = TRUE]
    /\ overlap' = FALSE
    /\ UNCHANGED <<frameSurfaces, themes, leaving, typedEmail>>

PushStarts ==
    /\ upload.timer /\ upload' = [upload EXCEPT !.timer = FALSE, !.out = @ + 1]
    /\ UNCHANGED <<frameSurfaces, themes, leaving, moves, framePast>>

PushEnds(ok) ==
    /\ upload.out > 0
    /\ upload' = [upload EXCEPT !.status = IF ok THEN "synced" ELSE "error", !.out = @ - 1]
    /\ overlap' = (ok /\ (upload.timer \/ upload.out > 1))
    /\ UNCHANGED <<frameSurfaces, themes, leaving, moves, typedEmail>>

SyncBadge == CASE upload.status = "syncing" -> "Syncing" [] upload.status = "error" -> "Sync paused"
               [] OTHER -> "Saved"

FrameNext ==
    \/ \E b \in BOOLEAN : OpenPalette(b) \/ Arrow(b) \/ Activate(b) \/ DeleteAccount(b)
                          \/ DeleteAnswered(b) \/ PushEnds(b)
    \/ \E q \in Queries : TypeQuery(q)
    \/ \E p \in Prefs : \/ \E c \in Controls : ChooseTheme(c, p)
                       \/ \E os \in BOOLEAN : ThemeElsewhere(p, os)
    \/ LoadFrame \/ Escape \/ ClickBackdrop \/ ToggleDrawer \/ ToggleMenu \/ MountSettings
    \/ DeleteUnreached \/ ScheduleSync \/ PushStarts

FrameSpec == FrameInit /\ [][FrameNext]_frameVars

-----------------------------------------------------------------------------

FrameTypeOK ==
    /\ palette.active >= -1 /\ palette.query \in Queries
    /\ {drawer, menu} \subseteq BOOLEAN
    /\ leaving \in {"none", "busy", "stuck", "deleted"}

\* Enter takes the row the learner sees highlighted, after any typing and any
\* number of arrows.
HighlightIsARow == palette.open /\ RowsFor[palette.query] > 0 =>
    palette.active \in 0 .. RowsFor[palette.query] - 1

\* The page is painted as was chosen last, by whichever of the three controls,
\* and the palette offers the other theme; until another tab or the system
\* changes what the choice is resolved from.
PaintedAsChosen == elsewhere \/ /\ theme.stored = chosen /\ theme.painted = ResolveTheme(chosen)
                                /\ palette.open => palette.dark = theme.painted

\* "Saved" is shown with work that is still to be sent, only when an earlier
\* request was out as that work was done.
SavedIsHonest == SyncBadge = "Saved" /\ (upload.timer \/ upload.out > 0) => overlap

\* An account goes only after its address was typed.
DeletionIsTyped == leaving = "deleted" => typedEmail

FrameIsHonest == HighlightIsARow /\ PaintedAsChosen /\ SavedIsHonest /\ DeletionIsTyped
=============================================================================
