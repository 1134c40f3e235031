----------------------------- MODULE TwoWriters -----------------------------
(***************************************************************************)
(* Two tabs of one browser start from one record and edit it without       *)
(* seeing each other.  theirs is stored first; the changes of mine are     *)
(* then replayed on it, unless they conflict (progress-store.js:95).       *)
(*                                                                         *)
(* The devices of an account and the sync service replay changes by the    *)
(* same rules but never ask about conflicts (sync-server.mjs:267,          *)
(* sync-client.js:168, 185): there a text both changed reads as the later  *)
(* push has it.  What a first sign-in combines are two such records too.   *)
(***************************************************************************)
EXTENDS MergeRules, Sequences

CONSTANT MaxEdits   \* bound on the edits of one writer

ASSUME MaxEditsAssumption == MaxEdits \in Nat

VARIABLES base,     \* the record both writers loaded
          mine,     \* the record this writer shows
          pending,  \* its changes since base
          log,      \* the same changes, save by save
          theirs,   \* the record as the other writer stored it
          theirEdits

vars == <<base, mine, pending, log, theirs, theirEdits>>

Init == /\ base \in Edits(FreshState)
        /\ mine = base /\ theirs = base
        /\ pending = NoChanges /\ log = << >>
        /\ theirEdits = 0

\* One save of this writer: pending.push(...progressChanges(view, next)).
EditMine == /\ Len(log) < MaxEdits
            /\ \E next \in Edits(mine) :
                 LET d == ProgressChanges(mine, next) IN
                 /\ mine' = next
                 /\ pending' = Compose(pending, d)
                 /\ log' = Append(log, d)
            /\ UNCHANGED <<base, theirs, theirEdits>>

\* One save of the other writer reaches storage.
EditTheirs == /\ theirEdits < MaxEdits
              /\ theirs' \in Edits(theirs)
              /\ theirEdits' = theirEdits + 1
              /\ UNCHANGED <<base, mine, pending, log>>

Next == EditMine \/ EditTheirs

Spec == Init /\ [][Next]_vars

-----------------------------------------------------------------------------

Merged == ApplyProgressChanges(theirs, pending)

TypeOK == /\ base \in State /\ mine \in State /\ theirs \in State
          /\ pending \in Delta /\ WellFormed(pending)
          /\ log \in Seq(Delta)
          /\ theirEdits \in Nat

\* Saving field by field never replaces the other writer's work: the merged
\* record has the lessons of both and adds up the practice of both, whichever
\* writer is stored first, and a text only one of them touched reads as that
\* writer left it.  (core.js: "One tab must not overwrite another tab's work".)
BothWritersKeepTheirWork ==
    /\ LET other == ApplyProgressChanges(mine, ProgressChanges(base, theirs)) IN
       /\ Merged.completed = other.completed
       /\ Merged.focusSeconds = other.focusSeconds
    /\ mine.completed \cup theirs.completed \subseteq Merged.completed
    /\ Merged.focusSeconds - base.focusSeconds =
         (mine.focusSeconds - base.focusSeconds) + (theirs.focusSeconds - base.focusSeconds)
    /\ \A k \in Keys : /\ theirs.notes[k] = base.notes[k] => Merged.notes[k] = mine.notes[k]
                       /\ ~pending.notes[k].changed => Merged.notes[k] = theirs.notes[k]

\* Between two tabs, two different texts for one key are never resolved in silence:
\* if both changed a text and disagree, replaying stops.  (core.js: "Free text is the
\* only place a silent overwrite would lose real writing".)  The one way past the
\* check is a text the first writer itself had typed on the way.
DisagreementIsReported ==
    \A k \in Keys :
        /\ pending.notes[k].changed
        /\ theirs.notes[k] \notin {base.notes[k], pending.notes[k].first}
        => Conflicts(theirs, pending)

\* Signing in combines the records once: neither side's lessons, steps or
\* practice are lost, nothing is counted twice, the account's writing stays,
\* and signing in again changes nothing.
AdoptionKeepsBothAndSettles ==
    LET adopted == AdoptState(theirs, mine) IN
    /\ adopted.completed = theirs.completed \cup mine.completed
    /\ theirs.checks \cup mine.checks \subseteq adopted.checks
    /\ adopted.focusSeconds \in {theirs.focusSeconds, mine.focusSeconds}
    /\ adopted.focusSeconds >= theirs.focusSeconds
    /\ adopted.focusSeconds >= mine.focusSeconds
    /\ \A k \in Keys : /\ theirs.notes[k] # NoText => adopted.notes[k] = theirs.notes[k]
                       /\ mine.notes[k] # NoText => adopted.notes[k] # NoText
    /\ AdoptState(adopted, mine) = adopted
    /\ AdoptState(theirs, adopted) = adopted

\* Merging loses no tab's work in silence and signing in combines once: what the
\* rules owe two tabs, or an account and a device, that started from one record.
MergingIsSafe ==
    BothWritersKeepTheirWork /\ DisagreementIsReported /\ AdoptionKeepsBothAndSettles
=============================================================================
