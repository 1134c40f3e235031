----------------------------- MODULE Milestones -----------------------------
(***************************************************************************)
(* What the web edition makes of a learner's progress: XP, a level, badges *)
(* and certificates, all derived; and the leaderboard, on which it is      *)
(* published for those who join, with the page that shows it.              *)
(*                                                                         *)
(* The board's answer is made of queries, one after another, and loads of  *)
(* the page may be answered out of order.                                  *)
(***************************************************************************)
EXTENDS Integers, Sequences, FiniteSets

CONSTANTS Strides,              \* how much is done at a time
          LastStreak,
          RivalXp,              \* what another learner publishes
          MaxSteps

ASSUME MilestonesAssumption ==
    /\ Strides \subseteq Nat \ {0} /\ LastStreak \in Nat /\ RivalXp \in Nat /\ MaxSteps \in Nat

VARIABLES done,                 \* the progress row, counted
          streakDays,
          listing, rivalJoined,     \* leaderboard_entries: of this learner, of the other
          standing,             \* what the page shows
          calls, fetches,         \* its request that writes; its loads under way
          took,                 \* how much of the bound is used
          wished, overlapped    \* history, read by properties only

listingVars == <<listing, rivalJoined>>
boardVars == <<standing, calls, fetches>>
milestoneVars == <<done, streakDays, listingVars, boardVars, took, wished, overlapped>>

-----------------------------------------------------------------------------
\* gamification.ts

Marks == {"js", "cs", "solved", "quizzes", "kept", "certificates"}
Worth == [js |-> 40, solved |-> 30, quizzes |-> 15, kept |-> 8, certificates |-> 200]

Most(m) == CASE m = "certificates" -> 2 [] m \in {"js", "cs"} -> 20 [] OTHER -> 40

ComputeXp(d) == (d["js"] + d["cs"]) * Worth.js + d["solved"] * Worth.solved
                + d["quizzes"] * Worth.quizzes + d["kept"] * Worth.kept
                + d["certificates"] * Worth.certificates

LevelThreshold(level) == 50 * level * (level - 1)
LevelForXp(n) == CHOOSE l \in 1 .. n + 1 : LevelThreshold(l) <= n /\ n < LevelThreshold(l + 1)

LessonsDone(d) == d["js"] + d["cs"]
Languages(d) == Cardinality({m \in {"js", "cs"} : d[m] > 0})

\* In the order of the definitions.
Badges(d, days) ==
    << [is |-> LessonsDone(d), target |-> 1], [is |-> LessonsDone(d), target |-> 10],
       [is |-> d["solved"], target |-> 10], [is |-> d["quizzes"], target |-> 10],
       [is |-> d["kept"], target |-> 10], [is |-> Languages(d), target |-> 2],
       [is |-> days, target |-> 3], [is |-> days, target |-> 7], [is |-> days, target |-> 30],
       [is |-> d["certificates"], target |-> 1] >>

Earned(b) == b.is >= b.target
Nearer(a, b) == a.is * b.target > b.is * a.target

\* sortBadgesForDisplay(): the earned ones, then the nearest; one after the other,
\* that which comes before all that are left.
Before(bs, i, j) ==
    IF Earned(bs[i]) # Earned(bs[j]) THEN Earned(bs[i])
    ELSE IF ~Earned(bs[i]) /\ (Nearer(bs[i], bs[j]) \/ Nearer(bs[j], bs[i]))
         THEN Nearer(bs[i], bs[j])
         ELSE i < j

FirstOf(bs, S) == CHOOSE i \in S : \A j \in S \ {i} : Before(bs, i, j)

SortBadges(bs) ==
    LET shown[k \in 0 .. Len(bs)] ==
          IF k = 0 THEN <<>>
          ELSE LET s == shown[k - 1]
               IN Append(s, FirstOf(bs, DOMAIN bs \ {s[j] : j \in DOMAIN s}))
    IN shown[Len(bs)]

-----------------------------------------------------------------------------
\* The board.

NoRowYet == [joined |-> FALSE, xp |-> 0]
Board == [shows: BOOLEAN, joined: BOOLEAN, xp: Nat, rank: Nat, listed: Nat,
          crossed: BOOLEAN, error: BOOLEAN]
NoBoard == [shows |-> FALSE, joined |-> FALSE, xp |-> 0, rank |-> 0, listed |-> 0,
            crossed |-> FALSE, error |-> FALSE]

MilestonesInit ==
    /\ done = [m \in Marks |-> 0] /\ streakDays = 0
    /\ listing = NoRowYet /\ rivalJoined = FALSE
    /\ standing = NoBoard /\ calls = "none" /\ fetches = {}
    /\ took = 0 /\ wished = FALSE /\ overlapped = FALSE

Step == took < MaxSteps /\ took' = took + 1

\* A track has twenty lessons, and there are two.
Learn(m) ==
    /\ Step /\ \E n \in Strides : done[m] + n <= Most(m) /\ done' = [done EXCEPT ![m] = @ + n]
    /\ UNCHANGED <<streakDays, listingVars, boardVars, wished, overlapped>>

AnotherDay(kept) ==
    /\ Step /\ streakDays' = IF kept THEN LastStreak ELSE 0
    /\ UNCHANGED <<done, listingVars, boardVars, wished, overlapped>>

RivalJoins ==
    /\ ~rivalJoined /\ rivalJoined' = TRUE
    /\ fetches' = {[l EXCEPT !.crossed = TRUE] : l \in fetches}
    /\ UNCHANGED <<done, streakDays, listing, standing, calls, took, wished, overlapped>>

\* rankLeaderboard() over the rows of the board: my place in it, or none.
Place(r) == 1 + (IF rivalJoined /\ RivalXp > r.xp THEN 1 ELSE 0)
Listed(r) == IF r.joined THEN Place(r) ELSE 0

\* load(): GET, of which the board is read first.
NewLoad(awaited) == [no |-> took', stage |-> "asked", awaited |-> awaited, crossed |-> FALSE,
                  listed |-> 0, joined |-> FALSE, xp |-> 0, rank |-> 0]

OpenBoard ==
    /\ ~standing.shows /\ ~standing.error /\ fetches = {} /\ took' = took /\ fetches' = {NewLoad(FALSE)}
    /\ UNCHANGED <<done, streakDays, listingVars, standing, calls, wished, overlapped>>

\* The button by the error, which stays until a load succeeds.
Retry ==
    /\ standing.error /\ Step /\ fetches' = fetches \cup {NewLoad(FALSE)}
    /\ overlapped' = (overlapped \/ fetches # {} \/ calls # "none")
    /\ UNCHANGED <<done, streakDays, listingVars, standing, calls, wished>>

BoardIsRead(l) ==
    /\ l \in fetches /\ l.stage = "asked"
    /\ fetches' = (fetches \ {l}) \cup {[l EXCEPT !.stage = "board", !.listed = Listed(listing)]}
    /\ UNCHANGED <<done, streakDays, listingVars, standing, calls, took, wished, overlapped>>

\* The learner's own row and, for one who joined, the count of those ahead.
OwnIsRead(l) ==
    /\ l \in fetches /\ l.stage = "board"
    /\ fetches' = (fetches \ {l}) \cup
         {[l EXCEPT !.stage = "answered", !.joined = listing.joined, !.xp = listing.xp,
                    !.rank = IF listing.joined THEN Place(listing) ELSE 0]}
    /\ UNCHANGED <<done, streakDays, listingVars, standing, calls, took, wished, overlapped>>

Shows(l) == [shows |-> TRUE, joined |-> l.joined, xp |-> l.xp, rank |-> l.rank,
             listed |-> l.listed, crossed |-> l.crossed, error |-> FALSE]

\* An answer arrives, or none does.  The one that join() and leave() wait for
\* sets their buttons free.
Loaded(l) ==
    /\ l \in fetches /\ l.stage = "answered" /\ fetches' = fetches \ {l}
    /\ standing' = Shows(l)
    /\ calls' = IF l.awaited THEN "none" ELSE calls
    /\ UNCHANGED <<done, streakDays, listingVars, took, wished, overlapped>>

LoadFails(l) ==
    /\ l \in fetches /\ Step /\ fetches' = fetches \ {l}
    /\ standing' = [standing EXCEPT !.error = TRUE]
    /\ calls' = IF l.awaited THEN "none" ELSE calls
    /\ UNCHANGED <<done, streakDays, listingVars, wished, overlapped>>

\* join() and leave()
Submits(call) ==
    /\ standing.shows /\ calls = "none" /\ Step
    /\ call = "leave" => standing.joined
    /\ calls' = call /\ standing' = [standing EXCEPT !.error = FALSE]
    /\ wished' = (wished \/ call = "join")
    /\ overlapped' = (overlapped \/ fetches # {})
    /\ UNCHANGED <<done, streakDays, listingVars, fetches>>

\* POST computes the XP of the learner's own row and publishes it; DELETE keeps
\* the row and hides it.
EntryWritten ==
    /\ calls \in {"join", "leave"}
    /\ listing' = IF calls = "join" THEN [joined |-> TRUE, xp |-> ComputeXp(done)]
              ELSE [listing EXCEPT !.joined = FALSE]
    /\ calls' = "written" /\ fetches' = {[l EXCEPT !.crossed = TRUE] : l \in fetches}
    /\ UNCHANGED <<done, streakDays, rivalJoined, standing, took, wished, overlapped>>

Confirmed ==
    /\ calls = "written" /\ calls' = "loading"
    /\ took' = took /\ fetches' = fetches \cup {NewLoad(TRUE)}
    /\ UNCHANGED <<done, streakDays, listingVars, standing, wished, overlapped>>

\* The request fails, or only its answer is lost.
CallFails ==
    /\ calls \in {"join", "leave", "written"} /\ Step
    /\ calls' = "none" /\ standing' = [standing EXCEPT !.error = TRUE]
    /\ UNCHANGED <<done, streakDays, listingVars, fetches, wished, overlapped>>

MilestonesNext ==
    \/ \E m \in Marks : Learn(m)
    \/ \E kept \in BOOLEAN : AnotherDay(kept)
    \/ \E l \in fetches : BoardIsRead(l) \/ OwnIsRead(l) \/ Loaded(l) \/ LoadFails(l)
    \/ \E call \in {"join", "leave"} : Submits(call)
    \/ RivalJoins \/ OpenBoard \/ Retry \/ EntryWritten \/ Confirmed \/ CallFails

MilestonesSpec == MilestonesInit /\ [][MilestonesNext]_milestoneVars

-----------------------------------------------------------------------------

MilestonesTypeOK ==
    /\ done \in [Marks -> Nat] /\ streakDays \in {0, LastStreak}
    /\ standing \in Board /\ listing.xp \in Nat
    /\ calls \in {"none", "join", "leave", "written", "loading"}

\* A level is left only upwards and leads to the next; of the badges that are not
\* earned yet the nearest comes first, after all that are.
LevelsAndBadgesAreRight ==
    LET n == ComputeXp(done)
        bs == Badges(done, streakDays)
        order == SortBadges(bs)
    IN
    /\ LevelThreshold(LevelForXp(n)) <= n /\ LevelForXp(n + 1) - LevelForXp(n) \in {0, 1}
    /\ \A i \in 1 .. 9 :
         LET a == bs[order[i]] b == bs[order[i + 1]] IN
         /\ Earned(b) => Earned(a)
         /\ ~Earned(a) => ~Nearer(b, a)

\* On the board is who asked for it, with XP that were earned.
BoardIsByConsent == listing.joined => wished /\ listing.xp <= ComputeXp(done)

\* With nothing under way the page shows the learner's own state, unless loads
\* overlapped with something or the last one failed; and the place it tells is the
\* one on the list, unless the board changed between the two queries.
StandingIsTrue ==
    calls = "none" /\ fetches = {} /\ standing.shows /\ ~standing.error /\ ~overlapped =>
        /\ standing.joined = listing.joined /\ standing.xp = listing.xp
        /\ standing.crossed \/ standing.rank = standing.listed

MilestonesAreTrue == LevelsAndBadgesAreRight /\ BoardIsByConsent /\ StandingIsTrue
=============================================================================
