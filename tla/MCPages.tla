------------------------------- MODULE MCPages -------------------------------
(***************************************************************************)
(* The parts of both editions that work on one record and share no state   *)
(* with one another, explored side by side: a behaviour follows one of     *)
(* them and the others stay at their start.                                *)
(***************************************************************************)
EXTENDS TwoWriters, WebAccounts, FocusTimer, Studio, WebStudio, Habits,
        Access, StaticPages

VARIABLE part

staticVars == <<shellVars, companionVars, workbenchVars>>
studyingVars == <<vars, focusVars, studioVars, pageVars, habitVars, staticVars>>
servingVars == <<accountVars, checkoutVars, accessVars>>
partsVars == <<part, studyingVars, servingVars>>

PartsInit ==
    /\ part \in {"writers", "accounts", "focus", "studio", "web", "habits",
                "checkout", "access", "shell", "companion", "bench"}
    /\ Init /\ FocusInit /\ StudioInit /\ PagesInit /\ HabitsInit
    /\ ShellInit /\ CompanionInit /\ WorkbenchInit
    /\ AccountsInit /\ CheckoutInit /\ AccessInit
    /\ part # "writers" => base = FreshState
    /\ part # "studio" => study = Fresh
    /\ part # "checkout" => visitor = "nobody"
         /\ setUp = [paystack |-> FALSE, paddle |-> FALSE, offer |-> FALSE, students |-> FALSE]
    /\ part # "shell" => wide
    /\ part # "companion" => ~prefs.hidden
    /\ part # "access" => deployed = "paddle" /\ seat = [t \in Teams |-> "none"]

Studying ==
    \/ part = "writers" /\ Next /\ UNCHANGED <<focusVars, studioVars, pageVars, habitVars, staticVars>>
    \/ part = "focus" /\ FocusNext /\ UNCHANGED <<vars, studioVars, pageVars, habitVars, staticVars>>
    \/ part = "studio" /\ StudioNext /\ UNCHANGED <<vars, focusVars, pageVars, habitVars, staticVars>>
    \/ part = "web" /\ PagesNext /\ UNCHANGED <<vars, focusVars, studioVars, habitVars, staticVars>>
    \/ part = "habits" /\ HabitsNext /\ UNCHANGED <<vars, focusVars, studioVars, pageVars, staticVars>>
    \/ part = "shell" /\ ShellNext /\ UNCHANGED <<vars, focusVars, studioVars, pageVars, habitVars, companionVars, workbenchVars>>
    \/ part = "companion" /\ CompanionNext /\ UNCHANGED <<vars, focusVars, studioVars, pageVars, habitVars, shellVars, workbenchVars>>
    \/ part = "bench" /\ WorkbenchNext /\ UNCHANGED <<vars, focusVars, studioVars, pageVars, habitVars, shellVars, companionVars>>

Serving ==
    \/ part = "accounts" /\ AccountsNext /\ UNCHANGED <<checkoutVars, accessVars>>
    \/ part = "checkout" /\ CheckoutNext /\ UNCHANGED <<accountVars, accessVars>>
    \/ part = "access" /\ AccessNext /\ UNCHANGED <<accountVars, checkoutVars>>

PartsNext ==
    /\ part' = part
    /\ (Studying /\ UNCHANGED servingVars) \/ (Serving /\ UNCHANGED studyingVars)

PartsSpec == PartsInit /\ [][PartsNext]_partsVars

-----------------------------------------------------------------------------

\* The loop of applyProgressChanges over a list of changes: each is applied to
\* what the previous ones produced, and the first conflict stops it.
ReplayOne(result, d) ==
    IF result.failed \/ Conflicts(result.state, d) THEN [result EXCEPT !.failed = TRUE]
    ELSE [failed |-> FALSE, state |-> ApplyProgressChanges(result.state, d)]

Replay(state, list) ==
    LET replayed[n \in 0 .. Len(list)] ==
          IF n = 0 THEN [failed |-> FALSE, state |-> state]
          ELSE ReplayOne(replayed[n - 1], list[n]) IN
    replayed[Len(list)]

-----------------------------------------------------------------------------

\* Each part's properties are asked of the behaviours that follow it.

PartsTypeOK ==
    CASE part = "writers" -> TypeOK
      [] part = "accounts" -> AccountsTypeOK
      [] part = "focus" -> FocusTypeOK
      [] part = "studio" -> StudioTypeOK
      [] part = "web" -> WebStudioTypeOK
      [] part = "habits" -> HabitsTypeOK
      [] part = "checkout" -> CheckoutTypeOK
      [] part = "access" -> AccessTypeOK
      [] part = "shell" -> ShellTypeOK
      [] part = "companion" -> CompanionTypeOK
      [] part = "bench" -> WorkbenchTypeOK

\* The composed changes of a tab say exactly what its list of changes says: they
\* are refused on the same records and give the same result on the others.
\* (core.js applyProgressChanges() replays the list; the model keeps one.)
ChangesAreFaithful ==
    part = "writers" =>
        LET replayed == Replay(theirs, log) IN
        /\ replayed.failed <=> Conflicts(theirs, pending)
        /\ ~replayed.failed => replayed.state = Merged

\* The streak, the review intervals and the places on the board mean what they
\* are said to mean.
HabitsMeanWhatTheySay ==
    part = "habits" => StreakIsForgivingOnce /\ IntervalsGrow /\ RankIsPlace
=============================================================================
