----------------------------- MODULE WebProgress -----------------------------
(***************************************************************************)
(* Progress in the web edition: pages of one learner (useProgress.tsx),    *)
(* the local store of their browser (local-store.ts), and the learner's    *)
(* row in the database, written by POST /api/progress and /api/sync (both  *)
(* through applyChanges of handlers.ts) and by POST /api/progress/adopt.   *)
(*                                                                         *)
(* Each request reads the row in one statement and writes it in another;   *)
(* a trigger raises the revision on every update.  A page sends its        *)
(* changes when a timer fires, whether or not an earlier request of it is  *)
(* still out, and a page that is closed does not stop its requests.        *)
(***************************************************************************)
EXTENDS MergeRules, Sequences

CONSTANTS Pages, Browsers,
          Pushes,               \* requests a page can have out at once
          MAX_RETRIES,
          MaxEdits, MaxFailures, MaxLoads         \* bounds

VARIABLES row,                                    \* the learner's row
          browser,                                \* where each page is open
          stored, epoch,                          \* per browser: the saved record
          shown, view, pending, generation, chain,    \* per page: page and local store
          signedIn, baseline, due,                \* per page: its sync
          request,                                \* per page and slot
          edits, failures, loads,                 \* how much of the bounds is used
          confirmed, overwritten, offline         \* history, read by properties only

disk == <<stored, epoch>>
local == <<shown, view, pending, generation, chain>>
sync == <<signedIn, baseline, due>>
used == <<edits, failures, loads>>
past == <<confirmed, overwritten, offline>>
webVars == <<row, browser, disk, local, sync, request, used, past>>

-----------------------------------------------------------------------------

Adoption == "adopt"
Requests == Pushes \cup {Adoption}

ASSUME WebAssumption == MAX_RETRIES \in Nat \ {0} /\ Adoption \notin Pushes

Row == [present: BOOLEAN, state: State, revision: Nat]
NoRow == [present |-> FALSE, state |-> FreshState, revision |-> 0]

\* reading and writing: at the service; answered and refused: on the way back.
\* heard: the page that sent it is still there.
Request == [phase: {"none", "reading", "writing", "answered", "refused"},
            local: State, changes: Delta, base: Row, attempt: Nat,
            reply: State, heard: BOOLEAN]
NoRequest == [phase |-> "none", local |-> FreshState, changes |-> NoChanges,
              base |-> NoRow, attempt |-> 0, reply |-> FreshState, heard |-> TRUE]

\* What waits in the local store's promise chain: flushes and snapshots to write.
StoreCall == [op: {"flush"}, with: {FreshState}] \cup [op: {"write"}, with: State]
Flush == [op |-> "flush", with |-> FreshState]
Write(state) == [op |-> "write", with |-> state]

B(p) == browser[p]
Stored(p) == SanitizeState(stored[B(p)])

WebInit ==
    /\ row \in {NoRow, [NoRow EXCEPT !.present = TRUE]}
    /\ browser \in [Pages -> Browsers]
    /\ stored = [b \in Browsers |-> FreshState]
    /\ epoch = [b \in Browsers |-> 0]
    /\ shown = [p \in Pages |-> FreshState]
    /\ view = [p \in Pages |-> FreshState]
    /\ pending = [p \in Pages |-> NoChanges]
    /\ generation = [p \in Pages |-> 0]
    /\ chain = [p \in Pages |-> << >>]
    /\ signedIn = [p \in Pages |-> FALSE]
    /\ baseline = [p \in Pages |-> FreshState]
    /\ due = [p \in Pages |-> FALSE]
    /\ request = [p \in Pages |-> [r \in Requests |-> NoRequest]]
    /\ edits = 0 /\ failures = 0 /\ loads = 0
    /\ confirmed = [p \in Pages |-> FALSE]
    /\ overwritten = {} /\ offline = {}

-----------------------------------------------------------------------------
\* The page.

\* update(): the page shows the edit, the store saves it, the timer is set.
Update(p) ==
    \E next \in Edits(shown[p]) \ {shown[p]} :
      LET all == Compose(pending[p], ProgressChanges(view[p], next)) IN
      /\ edits < MaxEdits /\ edits' = edits + 1
      /\ shown' = [shown EXCEPT ![p] = next]
      /\ view' = [view EXCEPT ![p] = next]
      /\ pending' = [pending EXCEPT ![p] = all]
      /\ chain' = [chain EXCEPT ![p] = IF all = NoChanges THEN @ ELSE Append(@, Flush)]
      /\ due' = [due EXCEPT ![p] = @ \/ signedIn[p]]
      /\ UNCHANGED <<row, browser, disk, generation, signedIn, baseline, request,
                     failures, loads, past>>

Sends(p, r, req) ==
    /\ request[p][r].phase = "none"
    /\ request' = [request EXCEPT ![p][r] = req]

\* What the page had asked for goes on without it.
Unheard(p) == [r \in Requests |->
    IF request[p][r].phase = "none" THEN NoRequest
    ELSE [request[p][r] EXCEPT !.heard = FALSE]]

\* The provider mounts: the page is opened, reloaded, or comes back from signing
\* in or out.  Signed in, it sends the saved record up for adoption.
Load(p) ==
    \E signed \in BOOLEAN :
      /\ loads < MaxLoads /\ loads' = loads + 1
      /\ signedIn' = [signedIn EXCEPT ![p] = signed]
      /\ shown' = [shown EXCEPT ![p] = Stored(p)]
      /\ view' = [view EXCEPT ![p] = Stored(p)]
      /\ baseline' = [baseline EXCEPT ![p] = Stored(p)]
      /\ pending' = [pending EXCEPT ![p] = NoChanges]
      /\ generation' = [generation EXCEPT ![p] = epoch[B(p)]]
      /\ chain' = [chain EXCEPT ![p] = << >>]
      /\ due' = [due EXCEPT ![p] = FALSE]
      /\ confirmed' = [confirmed EXCEPT ![p] = FALSE]
      /\ IF signed
         THEN /\ request[p][Adoption].phase = "none"
              /\ request' = [request EXCEPT ![p] = [Unheard(p) EXCEPT ![Adoption] =
                   [NoRequest EXCEPT !.phase = "reading", !.local = Stored(p)]]]
         ELSE request' = [request EXCEPT ![p] = Unheard(p)]
      /\ UNCHANGED <<row, browser, disk, edits, failures, overwritten, offline>>

\* The timer fires: the difference to the baseline is sent.
Push(p) ==
    LET changes == ProgressChanges(baseline[p], shown[p]) IN
    /\ due[p]
    /\ due' = [due EXCEPT ![p] = FALSE]
    /\ IF changes = NoChanges
       THEN /\ baseline' = [baseline EXCEPT ![p] = shown[p]]
            /\ request' = request
       ELSE /\ \E r \in Pushes :
                 Sends(p, r, [NoRequest EXCEPT !.phase = "reading", !.changes = changes])
            /\ baseline' = baseline
    /\ UNCHANGED <<row, browser, disk, local, signedIn, used, past>>

Ends(p, r) == request' = [request EXCEPT ![p][r] = NoRequest]

\* Mutant: the page takes what it shows, not the reply, for confirmed.
PushedBaselineIsShown(p, r) ==
    /\ r \in Pushes /\ request[p][r].phase = "answered" /\ request[p][r].heard
    /\ chain' = [chain EXCEPT ![p] = Append(@, Write(request[p][r].reply))]
    /\ baseline' = [baseline EXCEPT ![p] = shown[p]]
    /\ confirmed' = [confirmed EXCEPT ![p] = TRUE]
    /\ Ends(p, r)
    /\ UNCHANGED <<row, browser, disk, shown, view, pending, generation, signedIn,
                   due, used, overwritten, offline>>

\* A push succeeded: its reply is to be saved and becomes the baseline.
Pushed(p, r) ==
    /\ r \in Pushes /\ request[p][r].phase = "answered" /\ request[p][r].heard
    /\ chain' = [chain EXCEPT ![p] = Append(@, Write(request[p][r].reply))]
    /\ baseline' = [baseline EXCEPT ![p] = request[p][r].reply]
    /\ confirmed' = [confirmed EXCEPT ![p] = TRUE]
    /\ Ends(p, r)
    /\ UNCHANGED <<row, browser, disk, shown, view, pending, generation, signedIn,
                   due, used, overwritten, offline>>

\* An adoption succeeded: its reply is also shown at once.
Adopted(p) ==
    LET reply == request[p][Adoption].reply IN
    /\ request[p][Adoption].phase = "answered" /\ request[p][Adoption].heard
    /\ chain' = [chain EXCEPT ![p] = Append(@, Write(reply))]
    /\ shown' = [shown EXCEPT ![p] = reply]
    /\ baseline' = [baseline EXCEPT ![p] = reply]
    /\ confirmed' = [confirmed EXCEPT ![p] = TRUE]
    /\ Ends(p, Adoption)
    /\ UNCHANGED <<row, browser, disk, view, pending, generation, signedIn, due, used,
                   overwritten, offline>>

\* An error is shown and nothing else changes; a closed page hears nothing.
Unanswered(p, r) ==
    /\ \/ request[p][r].phase = "refused"
       \/ request[p][r].phase = "answered" /\ ~request[p][r].heard
    /\ Ends(p, r)
    /\ UNCHANGED <<row, browser, disk, local, sync, used, past>>

-----------------------------------------------------------------------------
\* The local store.

Running(p, op) == chain[p] # << >> /\ Head(chain[p]).op = op
Finish(p) == chain' = [chain EXCEPT ![p] = Tail(@)]

\* publish(next): the page follows only if the store's view changed.
Publish(p, next) ==
    /\ view' = [view EXCEPT ![p] = next]
    /\ shown' = IF next = view[p] THEN shown ELSE [shown EXCEPT ![p] = next]

Refusable(p) == generation[p] # epoch[B(p)] \/ Conflicts(Stored(p), pending[p])

StoreFlush(p) ==
    LET next == ApplyProgressChanges(Stored(p), pending[p]) IN
    /\ Running(p, "flush") /\ ~Refusable(p)
    /\ stored' = [stored EXCEPT ![B(p)] = next]
    /\ pending' = [pending EXCEPT ![p] = NoChanges]
    /\ Publish(p, next)
    /\ Finish(p)
    /\ offline' = IF signedIn[p] THEN offline ELSE offline \cup pending[p].completed
    /\ UNCHANGED <<row, browser, epoch, generation, sync, request, used,
                   confirmed, overwritten>>

\* Another tab's snapshot began a generation, or a text conflicts.
StoreRefuses(p) ==
    /\ Running(p, "flush") /\ Refusable(p)
    /\ Finish(p)
    /\ UNCHANGED <<row, browser, disk, shown, view, pending, generation, sync,
                   request, used, past>>

\* write(next): the service's snapshot replaces the record, under a generation
\* of its own, and whatever was pending.
StoreWrite(p) ==
    LET next == Head(chain[p]).with IN
    /\ Running(p, "write")
    /\ stored' = [stored EXCEPT ![B(p)] = next]
    /\ epoch' = [epoch EXCEPT ![B(p)] = @ + 1]
    /\ generation' = [generation EXCEPT ![p] = epoch[B(p)] + 1]
    /\ pending' = [pending EXCEPT ![p] = NoChanges]
    /\ Publish(p, next)
    /\ Finish(p)
    /\ UNCHANGED <<row, browser, sync, request, used, past>>

\* Storage is full.
StoreFails(p) ==
    /\ chain[p] # << >>
    /\ failures < MaxFailures /\ failures' = failures + 1
    /\ Finish(p)
    /\ UNCHANGED <<row, browser, disk, shown, view, pending, generation, sync,
                   request, edits, loads, past>>

\* sync(), when another tab wrote the record: edits not yet saved are flushed,
\* otherwise the page follows the record into its generation.
StorageEvent(p) ==
    /\ chain[p] = << >>
    /\ view[p] # Stored(p) \/ generation[p] # epoch[B(p)]
    /\ IF pending[p] # NoChanges
       THEN /\ ~Refusable(p)
            /\ chain' = [chain EXCEPT ![p] = <<Flush>>]
            /\ UNCHANGED <<shown, view, generation>>
       ELSE /\ generation' = [generation EXCEPT ![p] = epoch[B(p)]]
            /\ Publish(p, Stored(p))
            /\ chain' = chain
    /\ UNCHANGED <<row, browser, disk, pending, sync, request, used, past>>

-----------------------------------------------------------------------------
\* The routes.

\* The first statement of a request, or of a retry, reads the row.
Read(p, r) ==
    /\ request[p][r].phase = "reading"
    /\ request' = [request EXCEPT ![p][r].phase = "writing", ![p][r].base = row]
    /\ UNCHANGED <<row, browser, disk, local, sync, used, past>>

Answer(p, r, state) ==
    request' = [request EXCEPT ![p][r].phase = "answered", ![p][r].reply = state]

\* bump_progress_revision: an update raises the revision, an insert starts at 0.
Stores(state) ==
    row' = [present |-> TRUE, state |-> state,
            revision |-> IF row.present THEN row.revision + 1 ELSE 0]

\* Mutant: the update does not compare the revision.
UnchangedSinceAlways(base) == row.present = base.present

\* The row is as the request read it.
UnchangedSince(base) ==
    /\ row.present = base.present
    /\ row.revision = base.revision

\* applyChanges(): the changes replayed on the row as it was read, stored if the
\* row is still that one.
ApplyChanges(p, r) ==
    LET base == request[p][r].base
        next == SanitizeState(ApplyProgressChanges(base.state, request[p][r].changes)) IN
    /\ r \in Pushes /\ request[p][r].phase = "writing"
    /\ UnchangedSince(base)
    /\ Stores(next)
    /\ Answer(p, r, next)
    /\ UNCHANGED <<browser, disk, local, sync, used, past>>

\* Another writer came between: again, at most MAX_RETRIES times in all, then 409.
LoseTheRace(p, r) ==
    LET tries == request[p][r].attempt + 1 IN
    /\ r \in Pushes /\ request[p][r].phase = "writing"
    /\ ~UnchangedSince(request[p][r].base)
    /\ request' = [request EXCEPT ![p][r] =
         [@ EXCEPT !.phase = IF tries < MAX_RETRIES THEN "reading" ELSE "refused",
                   !.attempt = tries, !.base = NoRow]]
    /\ UNCHANGED <<row, browser, disk, local, sync, used, past>>

\* The adoption's second statement: an update that compares nothing, or an
\* insert that fails if the row appeared.
Adopt(p) ==
    LET base == request[p][Adoption].base
        merged == SanitizeState(AdoptState(base.state, request[p][Adoption].local)) IN
    /\ request[p][Adoption].phase = "writing"
    /\ IF base.present \/ ~row.present
       THEN /\ Stores(merged)
            /\ Answer(p, Adoption, merged)
            /\ overwritten' = overwritten \cup (row.state.completed \ merged.completed)
       ELSE /\ request' = [request EXCEPT ![p][Adoption].phase = "refused"]
            /\ UNCHANGED <<row, overwritten>>
    /\ UNCHANGED <<browser, disk, local, sync, used, confirmed, offline>>

\* The network or the database fails, before the write or after it.
Fail(p, r) ==
    /\ request[p][r].phase \in {"reading", "writing", "answered"}
    /\ failures < MaxFailures /\ failures' = failures + 1
    /\ request' = [request EXCEPT ![p][r] =
         [NoRequest EXCEPT !.phase = "refused", !.heard = request[p][r].heard]]
    /\ UNCHANGED <<row, browser, disk, local, sync, edits, loads, past>>

PageStep(p) ==
    \/ Update(p) \/ Load(p) \/ Push(p) \/ Adopted(p) \/ Adopt(p)
    \/ StoreFlush(p) \/ StoreRefuses(p) \/ StoreWrite(p) \/ StoreFails(p)
    \/ StorageEvent(p)
    \/ \E r \in Requests :
         \/ Pushed(p, r) \/ Unanswered(p, r)
         \/ Read(p, r) \/ ApplyChanges(p, r) \/ LoseTheRace(p, r) \/ Fail(p, r)

WebNext == \E p \in Pages : PageStep(p)

WebSpec == WebInit /\ [][WebNext]_webVars

-----------------------------------------------------------------------------

WebTypeOK ==
    /\ row \in Row /\ browser \in [Pages -> Browsers]
    /\ stored \in [Browsers -> State] /\ epoch \in [Browsers -> Nat]
    /\ shown \in [Pages -> State] /\ view \in [Pages -> State]
    /\ pending \in [Pages -> Delta] /\ generation \in [Pages -> Nat]
    /\ chain \in [Pages -> Seq(StoreCall)]
    /\ signedIn \in [Pages -> BOOLEAN] /\ baseline \in [Pages -> State]
    /\ due \in [Pages -> BOOLEAN]
    /\ request \in [Pages -> [Requests -> Request]]
    /\ \A p \in Pages, r \in Requests :
          request[p][r].phase \in {"reading", "writing"} => request[p][r].attempt < MAX_RETRIES
    /\ edits \in Nat /\ failures \in Nat /\ loads \in Nat
    /\ confirmed \in [Pages -> BOOLEAN]
    /\ overwritten \subseteq Lessons /\ offline \subseteq Lessons

\* A push is replayed on the very row it replaces, however many writers came
\* between its first read and its write.  (handlers.ts:33: "two devices writing at once
\* cannot clobber each other".)
PushReplaysOnTheRow ==
    [][\A p \in Pages, r \in Pushes :
          request[p][r].phase = "writing" /\ request'[p][r].phase = "answered"
          => row'.state = SanitizeState(
                ApplyProgressChanges(row.state, request[p][r].changes))]_webVars

\* What a page takes for confirmed is on the row, unless an adoption that had
\* read the row earlier wrote over it; so no later difference leaves it out.
ConfirmedIsOnTheRow ==
    \A p \in Pages : confirmed[p] =>
        baseline[p].completed \subseteq row.state.completed \cup overwritten

\* A lesson saved while signed out is somewhere: on the row, on its way there,
\* in the saved record or on a page.  (useProgress.tsx:115: "so an offline
\* device that comes back never loses the work it did while signed out".)
OfflineWorkIsKept ==
    offline \subseteq row.state.completed
                      \cup UNION {stored[b].completed : b \in Browsers}
                      \cup UNION {shown[p].completed : p \in Pages}
                      \cup UNION {request[p][Adoption].local.completed : p \in Pages}
=============================================================================
