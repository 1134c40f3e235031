-------------------------- MODULE WebProgressProofs --------------------------
(***************************************************************************)
(* What TLAPS proves of the web edition: of progress, for any number of    *)
(* pages, browsers and pushes side by side; of the gates of a lesson, the  *)
(* playground, the frame, the notebook with the projects and the backups,  *)
(* and the milestones with the board; and of all these side by side.       *)
(***************************************************************************)
EXTENDS MCWebProgress, MergeLemmas, FiniteSetTheorems, FunctionTheorems, SequenceTheorems,
        WellFoundedInduction, TLAPS

\* A request that is served has a try left.
HasTry(req) == req.phase \in {"reading", "writing"} => req.attempt < MAX_RETRIES
GoodRequest == {req \in Request : HasTry(req)}

\* base is a reading of the row: of what it is now, or of an earlier revision.
Seen(base, now) ==
    /\ base.present => /\ now.present /\ base.revision <= now.revision
                       /\ base.revision = now.revision => base.state = now.state
    /\ ~base.present => base = NoRow

RowInv == ~row.present => row = NoRow
ReadInv == \A p \in Pages, r \in Requests :
               request[p][r].phase = "writing" => Seen(request[p][r].base, row)

\* What is on the row is there for good, but for what an adoption wrote over.
Kept == row.state.completed \cup overwritten
ReplyInv == \A p \in Pages, r \in Requests :
                request[p][r].phase = "answered" => request[p][r].reply.completed \subseteq Kept

WebInv == WebTypeOK /\ RowInv /\ ReadInv /\ ReplyInv /\ ConfirmedIsOnTheRow

-----------------------------------------------------------------------------
\* Types.

\* The row of a learner who has none is a row.
LEMMA NoRowType == NoRow \in Row
  BY FreshStateType DEF NoRow, Row

\* A request that is not made has nothing to try.
LEMMA NoRequestType == NoRequest \in GoodRequest
<1>1. NoRequest \in Request
  BY FreshStateType, NoChangesType, NoRowType DEF NoRequest, Request
<1> QED
  BY <1>1 DEF GoodRequest, HasTry, NoRequest

\* A request that is sent has all its tries.
LEMMA NewRequestType ==
    /\ \A changes \in Delta :
          [NoRequest EXCEPT !.phase = "reading", !.changes = changes] \in GoodRequest
    /\ \A state \in State :
          [NoRequest EXCEPT !.phase = "reading", !.local = state] \in GoodRequest
<1>1. ASSUME NEW req \in Request, req.attempt = 0 PROVE req \in GoodRequest
  BY <1>1, WebAssumption DEF GoodRequest, HasTry
<1>2. NoRequest \in Request /\ NoRequest.attempt = 0
  BY NoRequestType DEF GoodRequest, NoRequest
<1>3. ASSUME NEW changes \in Delta
      PROVE  [NoRequest EXCEPT !.phase = "reading", !.changes = changes] \in GoodRequest
  <2> DEFINE req == [NoRequest EXCEPT !.phase = "reading", !.changes = changes]
  <2>1. req \in Request /\ req.attempt = 0
    BY <1>2 DEF Request
  <2> QED
    BY <1>1, <2>1
<1>4. ASSUME NEW state \in State
      PROVE  [NoRequest EXCEPT !.phase = "reading", !.local = state] \in GoodRequest
  <2> DEFINE req == [NoRequest EXCEPT !.phase = "reading", !.local = state]
  <2>1. req \in Request /\ req.attempt = 0
    BY <1>2 DEF Request
  <2> QED
    BY <1>1, <2>1
<1> QED
  BY <1>3, <1>4

\* The two conjuncts of WebTypeOK about requests, as one.
LEMMA RequestsType ==
    WebTypeOK => request \in [Pages -> [Requests -> GoodRequest]]
<1> SUFFICES ASSUME WebTypeOK PROVE request \in [Pages -> [Requests -> GoodRequest]]
  OBVIOUS
<1>1. request \in [Pages -> [Requests -> Request]]
  BY DEF WebTypeOK
<1>2. \A p \in Pages, r \in Requests : request[p][r] \in Request /\ HasTry(request[p][r])
  BY <1>1 DEF WebTypeOK, HasTry
<1>3. \A p \in Pages, r \in Requests : request[p][r] \in GoodRequest
  BY <1>2 DEF GoodRequest
<1> QED
  BY <1>1, <1>3

\* When one request moves the others stay requests.
LEMMA OneRequestMoves ==
    ASSUME WebTypeOK, NEW p \in Pages, NEW r \in Requests, NEW req \in GoodRequest
    PROVE  [request EXCEPT ![p][r] = req] \in [Pages -> [Requests -> GoodRequest]]
  BY RequestsType

\* The part of WebTypeOK that is not about requests.
OthersOK ==
    /\ row \in Row /\ browser \in [Pages -> Browsers]
    /\ stored \in [Browsers -> State] /\ epoch \in [Browsers -> Nat]
    /\ shown \in [Pages -> State] /\ view \in [Pages -> State]
    /\ pending \in [Pages -> Delta] /\ generation \in [Pages -> Nat]
    /\ chain \in [Pages -> Seq(StoreCall)]
    /\ signedIn \in [Pages -> BOOLEAN] /\ baseline \in [Pages -> State]
    /\ due \in [Pages -> BOOLEAN]
    /\ edits \in Nat /\ failures \in Nat /\ loads \in Nat
    /\ confirmed \in [Pages -> BOOLEAN]
    /\ overwritten \subseteq Lessons /\ offline \subseteq Lessons

\* Both parts make up WebTypeOK after a step, too.
LEMMA TypesFromParts ==
    ASSUME OthersOK', request' \in [Pages -> [Requests -> GoodRequest]]
    PROVE  WebTypeOK'
<1>1. GoodRequest \subseteq Request
  BY DEF GoodRequest
<1>2. request' \in [Pages -> [Requests -> Request]]
  BY <1>1
<1>3. \A p \in Pages, r \in Requests : HasTry(request'[p][r])
  BY DEF GoodRequest
<1> QED
  BY <1>2, <1>3 DEF WebTypeOK, OthersOK, HasTry

\* It is a part of WebTypeOK.
LEMMA OthersAreTyped == WebTypeOK => OthersOK
  BY DEF WebTypeOK, OthersOK

\* What a browser stores is read as a record.
LEMMA StoredType ==
    ASSUME OthersOK, NEW p \in Pages
    PROVE  B(p) \in Browsers /\ stored[B(p)] \in State /\ Stored(p) \in State
  BY SanitizeType DEF OthersOK, B, Stored

\* The calls of a page's chain are calls.
LEMMA CallTypes ==
    /\ Flush \in StoreCall
    /\ \A state \in State : Write(state) \in StoreCall
    /\ \A call \in StoreCall : call.op = "write" => call.with \in State
  BY FreshStateType DEF Flush, Write, StoreCall

\* Appending to a page's chain, and finishing its first call, keep its type.
LEMMA ChainType ==
    ASSUME OthersOK, NEW p \in Pages
    PROVE  /\ \A call \in StoreCall :
                 [chain EXCEPT ![p] = Append(@, call)] \in [Pages -> Seq(StoreCall)]
           /\ chain[p] # << >> => /\ Head(chain[p]) \in StoreCall
                                  /\ [chain EXCEPT ![p] = Tail(@)] \in [Pages -> Seq(StoreCall)]
<1>1. chain \in [Pages -> Seq(StoreCall)] /\ chain[p] \in Seq(StoreCall)
  BY DEF OthersOK
<1> QED
  BY <1>1

\* publish() shows a record.
LEMMA PublishType ==
    ASSUME OthersOK, NEW p \in Pages, NEW next \in State, Publish(p, next)
    PROVE  shown' \in [Pages -> State] /\ view' \in [Pages -> State]
  BY DEF Publish, OthersOK

\* A gesture of the page keeps the types.
LEMMA PageTypes ==
    ASSUME WebTypeOK, NEW p \in Pages, Update(p) \/ Push(p)
    PROVE  WebTypeOK'
<1>t. OthersOK /\ request \in [Pages -> [Requests -> GoodRequest]]
  BY RequestsType, OthersAreTyped
<1>1. CASE Update(p)
  <2>1. PICK next \in Edits(shown[p]) \ {shown[p]} :
          LET all == Compose(pending[p], ProgressChanges(view[p], next)) IN
          /\ edits' = edits + 1
          /\ shown' = [shown EXCEPT ![p] = next] /\ view' = [view EXCEPT ![p] = next]
          /\ pending' = [pending EXCEPT ![p] = all]
          /\ chain' = [chain EXCEPT ![p] = IF all = NoChanges THEN @ ELSE Append(@, Flush)]
          /\ due' = [due EXCEPT ![p] = @ \/ signedIn[p]]
          /\ UNCHANGED <<row, browser, disk, generation, signedIn, baseline, request,
                         failures, loads, past>>
    BY <1>1 DEF Update
  <2> DEFINE all == Compose(pending[p], ProgressChanges(view[p], next))
  <2>2. next \in State
    BY <1>t, EditsType DEF OthersOK
  <2>3. all \in Delta
    BY <1>t, <2>2, ChangesType, ComposeType DEF OthersOK
  <2>4. chain' \in [Pages -> Seq(StoreCall)]
    <3>1. CASE all = NoChanges
      BY <1>t, <2>1, <3>1 DEF OthersOK
    <3>2. CASE all # NoChanges
      BY <1>t, <2>1, <3>2, ChainType, CallTypes
    <3> QED
      BY <3>1, <3>2
  <2>5. due' \in [Pages -> BOOLEAN]
    BY <1>t, <2>1 DEF OthersOK
  <2> HIDE DEF all
  <2>6. OthersOK'
    BY <1>t, <2>1, <2>2, <2>3, <2>4, <2>5 DEF OthersOK, disk, past, all
  <2>7. request' = request
    BY <2>1
  <2> QED
    BY <1>t, <2>6, <2>7, TypesFromParts
<1>2. CASE Push(p)
  <2> DEFINE changes == ProgressChanges(baseline[p], shown[p])
             req == [NoRequest EXCEPT !.phase = "reading", !.changes = changes]
  <2>1. changes \in Delta
    BY <1>t, ChangesType DEF OthersOK
  <2>2. req \in GoodRequest
    BY <2>1, NewRequestType
  <2>3. request' \in [Pages -> [Requests -> GoodRequest]]
    <3>1. CASE request' = request
      BY <1>t, <3>1
    <3>2. ASSUME NEW r \in Pushes, request' = [request EXCEPT ![p][r] = req]
          PROVE  request' \in [Pages -> [Requests -> GoodRequest]]
      <4>1. r \in Requests
        BY DEF Requests
      <4> HIDE DEF req
      <4> QED
        BY <2>2, <3>2, <4>1, OneRequestMoves
    <3> QED
      BY <1>2, <3>1, <3>2 DEF Push, Sends
  <2>4. baseline' \in [Pages -> State] /\ due' \in [Pages -> BOOLEAN]
    BY <1>t, <1>2 DEF Push, OthersOK
  <2>5. OthersOK'
    BY <1>t, <1>2, <2>4 DEF Push, OthersOK, disk, local, used, past
  <2> QED
    BY <2>3, <2>5, TypesFromParts
<1> QED
  BY <1>1, <1>2

\* The provider mounts: what the page had asked for goes on unheard.
LEMMA LoadTypes ==
    ASSUME WebTypeOK, NEW p \in Pages, Load(p)
    PROVE  WebTypeOK'
<1>t. OthersOK /\ request \in [Pages -> [Requests -> GoodRequest]]
  BY RequestsType, OthersAreTyped
<1> DEFINE req == [NoRequest EXCEPT !.phase = "reading", !.local = Stored(p)]
<1>1. Unheard(p) \in [Requests -> GoodRequest]
  <2>1. ASSUME NEW r \in Requests
        PROVE  [request[p][r] EXCEPT !.heard = FALSE] \in GoodRequest
    <3> DEFINE q == [request[p][r] EXCEPT !.heard = FALSE]
    <3>1. request[p][r] \in GoodRequest
      BY <1>t
    <3>2. q \in Request /\ q.phase = request[p][r].phase /\ q.attempt = request[p][r].attempt
      BY <3>1 DEF GoodRequest, Request
    <3> HIDE DEF q
    <3>3. q \in GoodRequest
      BY <3>1, <3>2 DEF GoodRequest, HasTry
    <3> QED
      BY <3>3 DEF q
  <2> QED
    BY <2>1, NoRequestType DEF Unheard
<1>2. Stored(p) \in State /\ epoch[B(p)] \in Nat
  BY <1>t, StoredType DEF OthersOK
<1>3. req \in GoodRequest
  BY <1>2, NewRequestType
<1>4. request' \in [Pages -> [Requests -> GoodRequest]]
  <2>1. CASE request' = [request EXCEPT ![p] = Unheard(p)]
    BY <1>t, <1>1, <2>1
  <2>2. CASE request' = [request EXCEPT ![p] = [Unheard(p) EXCEPT ![Adoption] = req]]
    <3> DEFINE new == [Unheard(p) EXCEPT ![Adoption] = req]
    <3> HIDE DEF req
    <3>1. new \in [Requests -> GoodRequest]
      BY <1>1, <1>3 DEF Requests
    <3> HIDE DEF new
    <3>2. request' = [request EXCEPT ![p] = new]
      BY <2>2 DEF new
    <3> QED
      BY <1>t, <3>1, <3>2
  <2> QED
    BY <2>1, <2>2 DEF Load
<1>5. OthersOK'
  <2>1. PICK signed \in BOOLEAN :
          /\ loads' = loads + 1 /\ signedIn' = [signedIn EXCEPT ![p] = signed]
          /\ shown' = [shown EXCEPT ![p] = Stored(p)] /\ view' = [view EXCEPT ![p] = Stored(p)]
          /\ baseline' = [baseline EXCEPT ![p] = Stored(p)]
          /\ pending' = [pending EXCEPT ![p] = NoChanges]
          /\ generation' = [generation EXCEPT ![p] = epoch[B(p)]]
          /\ chain' = [chain EXCEPT ![p] = << >>] /\ due' = [due EXCEPT ![p] = FALSE]
          /\ confirmed' = [confirmed EXCEPT ![p] = FALSE]
          /\ UNCHANGED <<row, browser, disk, edits, failures, overwritten, offline>>
    BY DEF Load
  <2>2. chain' \in [Pages -> Seq(StoreCall)]
    <3>1. << >> \in Seq(StoreCall)
      OBVIOUS
    <3> QED
      BY <1>t, <2>1, <3>1 DEF OthersOK
  <2>3. /\ shown' \in [Pages -> State] /\ view' \in [Pages -> State]
        /\ baseline' \in [Pages -> State] /\ pending' \in [Pages -> Delta]
        /\ generation' \in [Pages -> Nat]
    BY <1>t, <1>2, <2>1, NoChangesType DEF OthersOK
  <2>4. /\ signedIn' \in [Pages -> BOOLEAN] /\ due' \in [Pages -> BOOLEAN]
        /\ confirmed' \in [Pages -> BOOLEAN]
    BY <1>t, <2>1 DEF OthersOK
  <2>5. loads' \in Nat
    BY <1>t, <2>1 DEF OthersOK
  <2> QED
    BY <1>t, <2>1, <2>2, <2>3, <2>4, <2>5 DEF OthersOK, disk
<1> QED
  BY <1>4, <1>5, TypesFromParts

\* A reply is taken, or nobody is there to take it.
LEMMA ReplyTypes ==
    ASSUME WebTypeOK, NEW p \in Pages, NEW r \in Requests,
           Pushed(p, r) \/ Adopted(p) \/ Unanswered(p, r)
    PROVE  WebTypeOK'
<1>t. OthersOK /\ request \in [Pages -> [Requests -> GoodRequest]]
  BY RequestsType, OthersAreTyped
<1>r. \A q \in Requests : request[p][q].reply \in State
  BY <1>t DEF GoodRequest, Request
<1>e. \A q \in Requests : Ends(p, q) => request' \in [Pages -> [Requests -> GoodRequest]]
  BY OneRequestMoves, NoRequestType DEF Ends
<1>c. \A state \in State :
        [chain EXCEPT ![p] = Append(@, Write(state))] \in [Pages -> Seq(StoreCall)]
  BY <1>t, ChainType, CallTypes
<1>1. CASE Pushed(p, r)
  <2>1. /\ chain' \in [Pages -> Seq(StoreCall)] /\ baseline' \in [Pages -> State]
        /\ confirmed' \in [Pages -> BOOLEAN]
    BY <1>t, <1>r, <1>c, <1>1 DEF Pushed, OthersOK
  <2>2. OthersOK'
    BY <1>t, <1>1, <2>1 DEF Pushed, OthersOK, disk, used
  <2> QED
    BY <1>e, <1>1, <2>2, TypesFromParts DEF Pushed
<1>2. CASE Adopted(p)
  <2>0. Adoption \in Requests
    BY DEF Requests
  <2>1. /\ chain' \in [Pages -> Seq(StoreCall)] /\ baseline' \in [Pages -> State]
        /\ shown' \in [Pages -> State] /\ confirmed' \in [Pages -> BOOLEAN]
    BY <1>t, <1>r, <1>c, <1>2, <2>0 DEF Adopted, OthersOK
  <2>2. OthersOK'
    BY <1>t, <1>2, <2>1 DEF Adopted, OthersOK, disk, used
  <2> QED
    BY <1>e, <1>2, <2>0, <2>2, TypesFromParts DEF Adopted
<1>3. CASE Unanswered(p, r)
  <2>1. OthersOK'
    BY <1>t, <1>3 DEF Unanswered, OthersOK, disk, local, sync, used, past
  <2> QED
    BY <1>e, <1>3, <2>1, TypesFromParts DEF Unanswered
<1> QED
  BY <1>1, <1>2, <1>3

\* The local store works, or cannot.
LEMMA StoreTypes ==
    ASSUME WebTypeOK, NEW p \in Pages,
           StoreFlush(p) \/ StoreRefuses(p) \/ StoreWrite(p) \/ StoreFails(p) \/ StorageEvent(p)
    PROVE  WebTypeOK'
<1>t. OthersOK /\ request \in [Pages -> [Requests -> GoodRequest]]
  BY RequestsType, OthersAreTyped
<1>b. B(p) \in Browsers /\ Stored(p) \in State /\ epoch[B(p)] \in Nat
  BY <1>t, StoredType DEF OthersOK
<1>f. chain[p] # << >> /\ Finish(p) => chain' \in [Pages -> Seq(StoreCall)]
  BY <1>t, ChainType DEF Finish
<1>q. request' = request
  BY DEF StoreFlush, StoreRefuses, StoreWrite, StoreFails, StorageEvent
<1> SUFFICES OthersOK'
  BY <1>t, <1>q, TypesFromParts
<1>1. CASE StoreFlush(p)
  <2> DEFINE next == ApplyProgressChanges(Stored(p), pending[p])
  <2>1. next \in State /\ pending[p].completed \subseteq Lessons
    BY <1>t, <1>b, ApplyType DEF OthersOK, Delta
  <2>2. /\ stored' = [stored EXCEPT ![B(p)] = next]
        /\ pending' = [pending EXCEPT ![p] = NoChanges]
        /\ Publish(p, next) /\ chain[p] # << >> /\ Finish(p)
        /\ offline' = IF signedIn[p] THEN offline ELSE offline \cup pending[p].completed
        /\ UNCHANGED <<row, browser, epoch, generation, sync, request, used, confirmed, overwritten>>
    BY <1>1 DEF StoreFlush, Running
  <2> HIDE DEF next
  <2>3. stored' \in [Browsers -> State] /\ pending' \in [Pages -> Delta]
    BY <1>t, <1>b, <2>1, <2>2, NoChangesType DEF OthersOK
  <2>4. shown' \in [Pages -> State] /\ view' \in [Pages -> State]
    BY <1>t, <2>1, <2>2, PublishType
  <2>5. offline' \subseteq Lessons
    BY <1>t, <2>1, <2>2 DEF OthersOK
  <2> QED
    BY <1>t, <1>f, <2>2, <2>3, <2>4, <2>5 DEF OthersOK, sync, used
<1>2. CASE StoreRefuses(p)
  <2>1. chain' \in [Pages -> Seq(StoreCall)]
    BY <1>f, <1>2 DEF StoreRefuses, Running
  <2> QED
    BY <1>t, <1>2, <2>1 DEF StoreRefuses, OthersOK, disk, sync, used, past
<1>3. CASE StoreWrite(p)
  <2> DEFINE next == Head(chain[p]).with
  <2>1. next \in State
    BY <1>t, <1>3, ChainType, CallTypes DEF StoreWrite, Running
  <2>2. /\ stored' = [stored EXCEPT ![B(p)] = next]
        /\ epoch' = [epoch EXCEPT ![B(p)] = @ + 1]
        /\ generation' = [generation EXCEPT ![p] = epoch[B(p)] + 1]
        /\ pending' = [pending EXCEPT ![p] = NoChanges]
        /\ Publish(p, next) /\ chain[p] # << >> /\ Finish(p)
        /\ UNCHANGED <<row, browser, sync, request, used, past>>
    BY <1>3 DEF StoreWrite, Running
  <2> HIDE DEF next
  <2>3. stored' \in [Browsers -> State] /\ pending' \in [Pages -> Delta]
    BY <1>t, <1>b, <2>1, <2>2, NoChangesType DEF OthersOK
  <2>4. epoch' \in [Browsers -> Nat] /\ generation' \in [Pages -> Nat]
    BY <1>t, <1>b, <2>2 DEF OthersOK
  <2>5. shown' \in [Pages -> State] /\ view' \in [Pages -> State]
    BY <1>t, <2>1, <2>2, PublishType
  <2> QED
    BY <1>t, <1>f, <2>2, <2>3, <2>4, <2>5 DEF OthersOK, sync, used, past
<1>4. CASE StoreFails(p)
  <2>1. chain' \in [Pages -> Seq(StoreCall)] /\ failures' \in Nat
    BY <1>t, <1>f, <1>4 DEF StoreFails, OthersOK
  <2> QED
    BY <1>t, <1>4, <2>1 DEF StoreFails, OthersOK, disk, sync, past
<1>5. CASE StorageEvent(p)
  <2>1. UNCHANGED <<row, browser, disk, pending, sync, request, used, past>>
    BY <1>5 DEF StorageEvent
  <2>2. CASE pending[p] # NoChanges
    <3>1. chain' = [chain EXCEPT ![p] = <<Flush>>] /\ UNCHANGED <<shown, view, generation>>
      BY <1>5, <2>2 DEF StorageEvent
    <3>2. <<Flush>> \in Seq(StoreCall)
      BY CallTypes
    <3>3. chain' \in [Pages -> Seq(StoreCall)]
      BY <1>t, <3>1, <3>2 DEF OthersOK
    <3> QED
      BY <1>t, <2>1, <3>1, <3>3 DEF OthersOK, disk, sync, used, past
  <2>3. CASE pending[p] = NoChanges
    <3>1. generation' = [generation EXCEPT ![p] = epoch[B(p)]] /\ chain' = chain
          /\ Publish(p, Stored(p))
      BY <1>5, <2>3 DEF StorageEvent
    <3>2. shown' \in [Pages -> State] /\ view' \in [Pages -> State]
      BY <1>t, <1>b, <3>1, PublishType
    <3>3. generation' \in [Pages -> Nat]
      BY <1>t, <1>b, <3>1 DEF OthersOK
    <3> QED
      BY <1>t, <2>1, <3>1, <3>2, <3>3 DEF OthersOK, disk, sync, used, past
  <2> QED
    BY <2>2, <2>3
<1> QED
  BY <1>1, <1>2, <1>3, <1>4, <1>5

\* What a write leaves is a row, and what it answers a request.
LEMMA AnswerTypes ==
    ASSUME WebTypeOK, NEW p \in Pages, NEW r \in Requests, NEW state \in State
    PROVE  /\ Stores(state) => row' \in Row
           /\ Answer(p, r, state) => request' \in [Pages -> [Requests -> GoodRequest]]
<1>1. Stores(state) => row' \in Row
  BY DEF Stores, WebTypeOK, Row
<1>2. ASSUME Answer(p, r, state) PROVE request' \in [Pages -> [Requests -> GoodRequest]]
  <2> DEFINE q == [request[p][r] EXCEPT !.phase = "answered", !.reply = state]
  <2>1. request[p][r] \in GoodRequest
    BY RequestsType
  <2>2. q \in Request /\ q.phase = "answered"
    BY <2>1 DEF GoodRequest, Request
  <2>3. request' = [request EXCEPT ![p][r] = q]
    BY <1>2, RequestsType DEF Answer
  <2> HIDE DEF q
  <2>4. q \in GoodRequest
    BY <2>2 DEF GoodRequest, HasTry
  <2> QED
    BY <2>3, <2>4, OneRequestMoves
<1> QED
  BY <1>1, <1>2

\* The routes read, write and fail.
LEMMA RouteTypes ==
    ASSUME WebTypeOK, NEW p \in Pages, NEW r \in Requests,
           Read(p, r) \/ ApplyChanges(p, r) \/ LoseTheRace(p, r) \/ Adopt(p) \/ Fail(p, r)
    PROVE  WebTypeOK'
<1>t. OthersOK /\ request \in [Pages -> [Requests -> GoodRequest]]
  BY RequestsType, OthersAreTyped
<1>r. /\ request[p][r] \in Request /\ HasTry(request[p][r])
      /\ request[p][Adoption] \in Request /\ Adoption \in Requests
  BY <1>t DEF GoodRequest, Requests
<1>1. CASE Read(p, r)
  <2> DEFINE q == [request[p][r] EXCEPT !.phase = "writing", !.base = row]
  <2>1. q \in Request /\ q.phase = "writing" /\ q.attempt = request[p][r].attempt
    BY <1>t, <1>r DEF OthersOK, Request
  <2>2. request' = [request EXCEPT ![p][r] = q] /\ request[p][r].phase = "reading"
    BY <1>1, <1>t DEF Read
  <2> HIDE DEF q
  <2>3. q \in GoodRequest
    BY <1>r, <2>1, <2>2 DEF GoodRequest, HasTry
  <2>4. OthersOK'
    BY <1>t, <1>1 DEF Read, OthersOK, disk, local, sync, used, past
  <2> QED
    BY <2>2, <2>3, <2>4, OneRequestMoves, TypesFromParts
<1>2. CASE ApplyChanges(p, r)
  <2> DEFINE next == SanitizeState(ApplyProgressChanges(request[p][r].base.state,
                                                        request[p][r].changes))
  <2>1. next \in State
    BY <1>r, ApplyType, SanitizeType DEF Request, Row
  <2>2. Stores(next) /\ Answer(p, r, next)
    BY <1>2 DEF ApplyChanges
  <2>3. row' \in Row /\ request' \in [Pages -> [Requests -> GoodRequest]]
    BY <2>1, <2>2, AnswerTypes
  <2>4. OthersOK'
    BY <1>t, <1>2, <2>3 DEF ApplyChanges, OthersOK, disk, local, sync, used, past
  <2> QED
    BY <2>3, <2>4, TypesFromParts
<1>3. CASE LoseTheRace(p, r)
  <2> DEFINE tries == request[p][r].attempt + 1
             phase == IF tries < MAX_RETRIES THEN "reading" ELSE "refused"
             q == [request[p][r] EXCEPT !.phase = phase, !.attempt = tries, !.base = NoRow]
  <2>0. tries \in Nat /\ phase \in {"reading", "refused"}
        /\ (phase = "reading" => tries < MAX_RETRIES)
    BY <1>r DEF Request
  <2>2. request' = [request EXCEPT ![p][r] = q]
    BY <1>3 DEF LoseTheRace
  <2> HIDE DEF phase, tries
  <2>1. q \in Request /\ q.attempt = tries /\ q.phase = phase
    BY <1>r, <2>0, NoRowType DEF Request
  <2> HIDE DEF q
  <2>3. q \in GoodRequest
    BY <2>0, <2>1 DEF GoodRequest, HasTry
  <2>4. OthersOK'
    BY <1>t, <1>3 DEF LoseTheRace, OthersOK, disk, local, sync, used, past
  <2> QED
    BY <2>2, <2>3, <2>4, OneRequestMoves, TypesFromParts
<1>4. CASE Adopt(p)
  <2> DEFINE merged == SanitizeState(AdoptState(request[p][Adoption].base.state,
                                                request[p][Adoption].local))
  <2>1. merged \in State
    BY <1>r, AdoptType, SanitizeType DEF Request, Row
  <2>2. UNCHANGED <<browser, disk, local, sync, used, confirmed, offline>>
    BY <1>4 DEF Adopt
  <2>3. CASE /\ Stores(merged) /\ Answer(p, Adoption, merged)
             /\ overwritten' = overwritten \cup (row.state.completed \ merged.completed)
    <3>1. row' \in Row /\ request' \in [Pages -> [Requests -> GoodRequest]]
      BY <1>r, <2>1, <2>3, AnswerTypes
    <3>2. row.state.completed \subseteq Lessons
      BY <1>t DEF OthersOK, Row, State
    <3> HIDE DEF merged
    <3>3. OthersOK'
      BY <1>t, <2>2, <2>3, <3>1, <3>2 DEF OthersOK, disk, local, sync, used
    <3> QED
      BY <3>1, <3>3, TypesFromParts
  <2>4. CASE /\ request' = [request EXCEPT ![p][Adoption].phase = "refused"]
             /\ UNCHANGED <<row, overwritten>>
    <3> DEFINE q == [request[p][Adoption] EXCEPT !.phase = "refused"]
    <3>1. q \in Request /\ q.phase = "refused"
      BY <1>r DEF Request
    <3>2. request' = [request EXCEPT ![p][Adoption] = q]
      BY <2>4
    <3> HIDE DEF q
    <3>3. q \in GoodRequest
      BY <3>1 DEF GoodRequest, HasTry
    <3>4. OthersOK'
      BY <1>t, <2>2, <2>4 DEF OthersOK, disk, local, sync, used
    <3> QED
      BY <1>r, <3>2, <3>3, <3>4, OneRequestMoves, TypesFromParts
  <2> QED
    BY <1>4, <2>3, <2>4 DEF Adopt
<1>5. CASE Fail(p, r)
  <2> DEFINE q == [NoRequest EXCEPT !.phase = "refused", !.heard = request[p][r].heard]
  <2>1. q \in Request /\ q.phase = "refused"
    BY <1>r, NoRequestType DEF GoodRequest, Request
  <2>2. request' = [request EXCEPT ![p][r] = q] /\ failures' = failures + 1
    BY <1>5 DEF Fail
  <2> HIDE DEF q
  <2>3. q \in GoodRequest
    BY <2>1 DEF GoodRequest, HasTry
  <2>4. OthersOK'
    BY <1>t, <1>5, <2>2 DEF Fail, OthersOK, disk, local, sync, past
  <2> QED
    BY <2>2, <2>3, <2>4, OneRequestMoves, TypesFromParts
<1> QED
  BY <1>1, <1>2, <1>3, <1>4, <1>5

\* Every step keeps the types.
LEMMA WebTypesStay == WebTypeOK /\ [WebNext]_webVars => WebTypeOK'
<1> SUFFICES ASSUME WebTypeOK, [WebNext]_webVars PROVE WebTypeOK'
  OBVIOUS
<1>1. ASSUME NEW p \in Pages, PageStep(p) PROVE WebTypeOK'
  <2>1. Update(p) \/ Push(p) => WebTypeOK'
    BY PageTypes
  <2>2. Load(p) => WebTypeOK'
    BY LoadTypes
  <2>3. StoreFlush(p) \/ StoreRefuses(p) \/ StoreWrite(p) \/ StoreFails(p) \/ StorageEvent(p)
        => WebTypeOK'
    BY StoreTypes
  <2>4. Adoption \in Requests
    BY DEF Requests
  <2>5. Adopted(p) \/ Adopt(p) => WebTypeOK'
    BY <2>4, ReplyTypes, RouteTypes
  <2>6. ASSUME NEW r \in Requests,
               \/ Pushed(p, r) \/ Unanswered(p, r)
               \/ Read(p, r) \/ ApplyChanges(p, r) \/ LoseTheRace(p, r) \/ Fail(p, r)
        PROVE  WebTypeOK'
    BY <2>6, ReplyTypes, RouteTypes
  <2> QED
    BY <1>1, <2>1, <2>2, <2>3, <2>5, <2>6 DEF PageStep
<1>2. CASE UNCHANGED webVars
  BY <1>2 DEF webVars, disk, local, sync, used, past, WebTypeOK
<1> QED
  BY <1>1, <1>2 DEF WebNext

\* And so does the start.
LEMMA WebStarts == WebInit => WebInv
<1> SUFFICES ASSUME WebInit PROVE WebInv
  OBVIOUS
<1>1. row \in Row
  BY NoRowType DEF WebInit, Row
<1>2. request \in [Pages -> [Requests -> GoodRequest]]
  BY NoRequestType DEF WebInit
<1>3. << >> \in Seq(StoreCall)
  OBVIOUS
<1>4. OthersOK
  BY <1>1, <1>3, FreshStateType, NoChangesType DEF WebInit, OthersOK
<1>5. WebTypeOK
  <2>1. \A p \in Pages, r \in Requests : request[p][r] \in Request /\ HasTry(request[p][r])
    BY <1>2 DEF GoodRequest
  <2>2. request \in [Pages -> [Requests -> Request]]
    BY <1>2 DEF GoodRequest
  <2> QED
    BY <1>4, <2>1, <2>2 DEF OthersOK, WebTypeOK, HasTry
<1>6. \A p \in Pages, r \in Requests : request[p][r].phase = "none"
  BY DEF WebInit, NoRequest
<1>7. RowInv /\ ReadInv /\ ReplyInv
  BY <1>6 DEF WebInit, RowInv, NoRow, ReadInv, ReplyInv
<1>8. ConfirmedIsOnTheRow
  BY DEF WebInit, ConfirmedIsOnTheRow
<1> QED
  BY <1>5, <1>7, <1>8 DEF WebInv

-----------------------------------------------------------------------------
\* What a step may do to the row, to the requests and to what pages take for
\* confirmed; the invariants follow from these five alone.

RowMoves == \/ row' = row
            \/ row'.present /\ (row.present => row.revision < row'.revision)
KeptStays == Kept \subseteq Kept'
ReadsMove == \A q \in Pages, s \in Requests :
    request'[q][s].phase = "writing" =>
      \/ request[q][s].phase = "writing" /\ request'[q][s].base = request[q][s].base
      \/ row' = row /\ request'[q][s].base = row
RepliesMove == \A q \in Pages, s \in Requests :
    request'[q][s].phase = "answered" =>
      \/ request[q][s].phase = "answered" /\ request'[q][s].reply = request[q][s].reply
      \/ request'[q][s].reply = row'.state
ConfirmedMoves == \A q \in Pages : confirmed'[q] =>
    \/ confirmed[q] /\ baseline'[q].completed \subseteq baseline[q].completed
    \/ \E s \in Requests : /\ request[q][s].phase = "answered"
                           /\ baseline'[q] = request[q][s].reply

StepShape == RowMoves /\ KeptStays /\ ReadsMove /\ RepliesMove /\ ConfirmedMoves

\* A reading stays one, whatever a step does to the row.
LEMMA SeenStays ==
    ASSUME WebTypeOK, WebTypeOK', RowMoves, NEW base \in Row, Seen(base, row)
    PROVE  Seen(base, row')
<1>1. row.revision \in Nat /\ row'.revision \in Nat /\ base.revision \in Nat
  BY DEF WebTypeOK, Row
<1>2. CASE row' = row
  BY <1>2
<1>3. CASE row'.present /\ (row.present => row.revision < row'.revision)
  BY <1>1, <1>3 DEF Seen
<1> QED
  BY <1>2, <1>3 DEF RowMoves

\* The invariant follows from the shape of the steps.
LEMMA ShapeKeeps ==
    ASSUME WebInv, WebTypeOK', StepShape
    PROVE  WebInv'
<1>1. RowInv'
  BY DEF WebInv, RowInv, StepShape, RowMoves
<1>2. ReadInv'
  <2> SUFFICES ASSUME NEW q \in Pages, NEW s \in Requests, request'[q][s].phase = "writing"
               PROVE  Seen(request'[q][s].base, row')
    BY DEF ReadInv
  <2>1. CASE request[q][s].phase = "writing" /\ request'[q][s].base = request[q][s].base
    <3>1. request[q][s].base \in Row /\ Seen(request[q][s].base, row)
      BY <2>1 DEF WebInv, WebTypeOK, ReadInv, Request
    <3> QED
      BY <2>1, <3>1, SeenStays DEF WebInv, StepShape
  <2>2. CASE row' = row /\ request'[q][s].base = row
    <3>1. row.revision \in Nat
      BY DEF WebInv, WebTypeOK, Row
    <3> QED
      BY <2>2, <3>1 DEF WebInv, RowInv, Seen
  <2> QED
    BY <2>1, <2>2 DEF StepShape, ReadsMove
<1>3. ReplyInv'
  <2>1. row'.state.completed \subseteq Kept'
    BY DEF Kept
  <2> QED
    BY <2>1 DEF WebInv, ReplyInv, StepShape, KeptStays, RepliesMove
<1>4. ConfirmedIsOnTheRow'
  <2> SUFFICES ASSUME NEW q \in Pages, confirmed'[q]
               PROVE  baseline'[q].completed \subseteq Kept'
    BY DEF ConfirmedIsOnTheRow, Kept
  <2>1. CASE confirmed[q] /\ baseline'[q].completed \subseteq baseline[q].completed
    BY <2>1 DEF WebInv, ConfirmedIsOnTheRow, StepShape, KeptStays, Kept
  <2>2. ASSUME NEW s \in Requests, request[q][s].phase = "answered",
               baseline'[q] = request[q][s].reply
        PROVE  baseline'[q].completed \subseteq Kept'
    BY <2>2 DEF WebInv, ReplyInv, StepShape, KeptStays
  <2> QED
    BY <2>1, <2>2 DEF StepShape, ConfirmedMoves
<1> QED
  BY <1>1, <1>2, <1>3, <1>4 DEF WebInv

\* One request moves: to "writing" only with the row, to "answered" only with
\* what the row has become.
LEMMA OneMoves ==
    ASSUME WebTypeOK, NEW p \in Pages, NEW r \in Requests, NEW q,
           request' = [request EXCEPT ![p][r] = q],
           q.phase = "writing" => row' = row /\ q.base = row,
           q.phase = "answered" => q.reply = row'.state
    PROVE  ReadsMove /\ RepliesMove
<1>1. \A o \in Pages, s \in Requests :
        \/ request'[o][s] = request[o][s]
        \/ request'[o][s] = q
  BY DEF WebTypeOK
<1> QED
  BY <1>1 DEF ReadsMove, RepliesMove

\* The rest of the shape when only requests move.
LEMMA OnlyRequests ==
    ASSUME UNCHANGED <<row, overwritten, baseline, confirmed>>
    PROVE  RowMoves /\ KeptStays /\ ConfirmedMoves
  BY DEF RowMoves, KeptStays, Kept, ConfirmedMoves

\* Gestures of the page and work of its local store leave the row alone.
LEMMA PageShape ==
    ASSUME WebTypeOK, NEW p \in Pages,
           \/ Update(p) \/ Push(p)
           \/ StoreFlush(p) \/ StoreRefuses(p) \/ StoreWrite(p) \/ StoreFails(p)
           \/ StorageEvent(p)
    PROVE  StepShape
<1>1. CASE Push(p)
  <2> DEFINE changes == ProgressChanges(baseline[p], shown[p])
             req == [NoRequest EXCEPT !.phase = "reading", !.changes = changes]
  <2>1. UNCHANGED <<row, overwritten, confirmed>>
    BY <1>1 DEF Push, past
  <2>2. CASE changes = NoChanges
    <3>1. request' = request /\ baseline' = [baseline EXCEPT ![p] = shown[p]]
      BY <1>1, <2>2 DEF Push
    <3>2. changes.completed = {}
      BY <2>2 DEF NoChanges
    <3>3. shown[p].completed \ baseline[p].completed = {}
      BY <3>2 DEF ProgressChanges
    <3>4. \A q \in Pages : baseline'[q].completed \subseteq baseline[q].completed
      BY <3>1, <3>3 DEF WebTypeOK
    <3> QED
      BY <2>1, <3>1, <3>4
      DEF StepShape, RowMoves, KeptStays, Kept, ReadsMove, RepliesMove, ConfirmedMoves
  <2>3. CASE changes # NoChanges
    <3>1. PICK r \in Pushes : request' = [request EXCEPT ![p][r] = req]
      BY <1>1, <2>3 DEF Push, Sends
    <3>2. baseline' = baseline
      BY <1>1, <2>3 DEF Push
    <3>3. req.phase = "reading" /\ r \in Requests
      BY DEF NoRequest, Requests
    <3> HIDE DEF req
    <3> QED
      BY <2>1, <3>1, <3>2, <3>3, OneMoves, OnlyRequests DEF StepShape
  <2> QED
    BY <2>2, <2>3
<1>2. CASE \/ Update(p) \/ StoreFlush(p) \/ StoreRefuses(p) \/ StoreWrite(p) \/ StoreFails(p)
           \/ StorageEvent(p)
  <2>1. UNCHANGED <<row, overwritten, baseline, confirmed, request>>
    BY <1>2 DEF Update, StoreFlush, StoreRefuses, StoreWrite, StoreFails, StorageEvent,
                past, sync
  <2> QED
    BY <2>1, OnlyRequests DEF StepShape, ReadsMove, RepliesMove
<1> QED
  BY <1>1, <1>2

\* A mount keeps what was asked for, unheard, and may ask for an adoption.
LEMMA LoadRequests ==
    ASSUME WebTypeOK, NEW p \in Pages, Load(p), NEW q \in Pages, NEW s \in Requests
    PROVE  \/ request'[q][s].phase \in {"none", "reading"}
           \/ /\ request'[q][s].phase = request[q][s].phase
              /\ request'[q][s].base = request[q][s].base
              /\ request'[q][s].reply = request[q][s].reply
<1> DEFINE req == [NoRequest EXCEPT !.phase = "reading", !.local = Stored(p)]
<1>1. req.phase = "reading" /\ NoRequest.phase = "none"
  BY DEF NoRequest
<1>2. \E new : /\ request' = [request EXCEPT ![p] = new]
               /\ \A o \in Requests : new[o] = Unheard(p)[o] \/ new[o] = req
  <2>1. CASE request' = [request EXCEPT ![p] = Unheard(p)]
    BY <2>1
  <2>2. CASE request' = [request EXCEPT ![p] = [Unheard(p) EXCEPT ![Adoption] = req]]
    <3> HIDE DEF req
    <3>1. \A o \in Requests : \/ [Unheard(p) EXCEPT ![Adoption] = req][o] = Unheard(p)[o]
                              \/ [Unheard(p) EXCEPT ![Adoption] = req][o] = req
      BY DEF Unheard
    <3> QED
      BY <2>2, <3>1
  <2> QED
    BY <2>1, <2>2 DEF Load
<1> HIDE DEF req
<1>3. request[q][s] \in Request
  BY DEF WebTypeOK
<1>4. CASE q # p
  BY <1>2, <1>4 DEF WebTypeOK
<1>5. CASE q = p
  <2>1. request'[p][s] = Unheard(p)[s] \/ request'[p][s] = req
    BY <1>2 DEF WebTypeOK
  <2>2. Unheard(p)[s] = IF request[p][s].phase = "none" THEN NoRequest
                        ELSE [request[p][s] EXCEPT !.heard = FALSE]
    BY DEF Unheard
  <2> QED
    BY <1>1, <1>3, <1>5, <2>1, <2>2 DEF Request
<1> QED
  BY <1>4, <1>5

\* And it takes nothing for confirmed.
LEMMA LoadShape ==
    ASSUME WebTypeOK, NEW p \in Pages, Load(p)
    PROVE  StepShape
<1>1. /\ UNCHANGED <<row, overwritten>> /\ confirmed' = [confirmed EXCEPT ![p] = FALSE]
      /\ baseline' = [baseline EXCEPT ![p] = Stored(p)]
  BY DEF Load
<1>2. ConfirmedMoves
  BY <1>1 DEF ConfirmedMoves, WebTypeOK
<1>3. ReadsMove /\ RepliesMove
  BY LoadRequests DEF ReadsMove, RepliesMove
<1> QED
  BY <1>1, <1>2, <1>3 DEF StepShape, RowMoves, KeptStays, Kept

\* A page that hears a reply takes it for confirmed.
LEMMA ReplyShape ==
    ASSUME WebTypeOK, NEW p \in Pages, NEW r \in Requests,
           Pushed(p, r) \/ Adopted(p) \/ Unanswered(p, r)
    PROVE  StepShape
<1> DEFINE Takes(s) == /\ request[p][s].phase = "answered"
                       /\ baseline' = [baseline EXCEPT ![p] = request[p][s].reply]
                       /\ confirmed' = [confirmed EXCEPT ![p] = TRUE]
<1>0. Adoption \in Requests
  BY DEF Requests
<1>1. UNCHANGED <<row, overwritten>>
  BY DEF Pushed, Adopted, Unanswered, past
<1>2. \E s \in Requests : Ends(p, s)
  BY <1>0 DEF Pushed, Adopted, Unanswered
<1>3. NoRequest.phase = "none"
  BY DEF NoRequest
<1>4. ReadsMove /\ RepliesMove
  BY <1>2, <1>3, OneMoves DEF Ends
<1>5. UNCHANGED <<baseline, confirmed>> \/ \E s \in Requests : Takes(s)
  BY <1>0 DEF Pushed, Adopted, Unanswered, sync, past
<1>6. ConfirmedMoves
  <2>1. CASE UNCHANGED <<baseline, confirmed>>
    BY <2>1 DEF ConfirmedMoves
  <2>2. ASSUME NEW s \in Requests, Takes(s)
        PROVE  ConfirmedMoves
    BY <2>2 DEF ConfirmedMoves, WebTypeOK
  <2> QED
    BY <1>5, <2>1, <2>2
<1> QED
  BY <1>1, <1>4, <1>6 DEF StepShape, RowMoves, KeptStays, Kept

\* What a push has read is the row, if the revision is still the one it read.
LEMMA ReadIsCurrent ==
    ASSUME WebInv, NEW p \in Pages, NEW r \in Requests,
           request[p][r].phase = "writing", UnchangedSince(request[p][r].base)
    PROVE  request[p][r].base.state = row.state
<1>1. Seen(request[p][r].base, row)
  BY DEF WebInv, ReadInv
<1> QED
  BY <1>1 DEF WebInv, RowInv, Seen, UnchangedSince

\* A write raises the revision.
LEMMA StoresMoves ==
    ASSUME WebTypeOK, NEW state, Stores(state)
    PROVE  RowMoves /\ row'.state = state
<1>1. row.revision \in Nat
  BY DEF WebTypeOK, Row
<1> QED
  BY <1>1 DEF Stores, RowMoves

\* An answer carries what was written.
LEMMA AnswerMoves ==
    ASSUME WebTypeOK, NEW p \in Pages, NEW r \in Requests, NEW state,
           Answer(p, r, state), row'.state = state
    PROVE  ReadsMove /\ RepliesMove
<1> DEFINE q == [request[p][r] EXCEPT !.phase = "answered", !.reply = state]
<1>1. request[p][r] \in Request
  BY DEF WebTypeOK
<1>2. q.phase = "answered" /\ q.reply = state
  BY <1>1 DEF Request
<1>3. request' = [request EXCEPT ![p][r] = q]
  BY DEF Answer, WebTypeOK
<1> HIDE DEF q
<1> QED
  BY <1>2, <1>3, OneMoves

\* Only a push that finds the row as it read it, and an adoption, write.
LEMMA RouteShape ==
    ASSUME WebInv, NEW p \in Pages, NEW r \in Requests,
           Read(p, r) \/ ApplyChanges(p, r) \/ LoseTheRace(p, r) \/ Adopt(p) \/ Fail(p, r)
    PROVE  StepShape
<1>t. WebTypeOK /\ Adoption \in Requests
  BY DEF WebInv, Requests
<1>q. request[p][r] \in Request /\ request[p][Adoption] \in Request
  BY <1>t DEF WebTypeOK
<1>c. UNCHANGED <<baseline, confirmed>>
  BY DEF Read, ApplyChanges, LoseTheRace, Adopt, Fail, sync, past
<1>m. ConfirmedMoves
  BY <1>c DEF ConfirmedMoves
<1>1. CASE Read(p, r)
  <2> DEFINE q == [request[p][r] EXCEPT !.phase = "writing", !.base = row]
  <2>1. q.phase = "writing" /\ q.base = row
    BY <1>q DEF Request
  <2>2. request' = [request EXCEPT ![p][r] = q] /\ UNCHANGED <<row, overwritten>>
    BY <1>1, <1>t DEF Read, WebTypeOK, past
  <2> HIDE DEF q
  <2> QED
    BY <1>t, <1>c, <2>1, <2>2, OneMoves, OnlyRequests DEF StepShape
<1>2. CASE ApplyChanges(p, r)
  <2> DEFINE next == SanitizeState(ApplyProgressChanges(request[p][r].base.state,
                                                        request[p][r].changes))
  <2>1. /\ Stores(next) /\ Answer(p, r, next) /\ overwritten' = overwritten
        /\ request[p][r].phase = "writing" /\ UnchangedSince(request[p][r].base)
    BY <1>2 DEF ApplyChanges, past
  <2>2. row.state.completed \subseteq next.completed
    <3>1. request[p][r].base.state = row.state
      BY <2>1, ReadIsCurrent
    <3> QED
      BY <3>1 DEF ApplyProgressChanges, SanitizeState
  <2> HIDE DEF next
  <2>3. RowMoves /\ row'.state = next
    BY <1>t, <2>1, StoresMoves
  <2>4. ReadsMove /\ RepliesMove
    BY <1>t, <2>1, <2>3, AnswerMoves
  <2> QED
    BY <1>m, <2>1, <2>2, <2>3, <2>4 DEF StepShape, KeptStays, Kept
<1>3. CASE LoseTheRace(p, r)
  <2> DEFINE tries == request[p][r].attempt + 1
             phase == IF tries < MAX_RETRIES THEN "reading" ELSE "refused"
             q == [request[p][r] EXCEPT !.phase = phase, !.attempt = tries, !.base = NoRow]
  <2>1. phase \in {"reading", "refused"}
    OBVIOUS
  <2>2. request' = [request EXCEPT ![p][r] = q] /\ UNCHANGED <<row, overwritten>>
    BY <1>3 DEF LoseTheRace, past
  <2> HIDE DEF tries, phase
  <2>3. q.phase = phase
    BY <1>q DEF Request
  <2> HIDE DEF q
  <2> QED
    BY <1>t, <1>c, <2>1, <2>2, <2>3, OneMoves, OnlyRequests DEF StepShape
<1>4. CASE Adopt(p)
  <2> DEFINE merged == SanitizeState(AdoptState(request[p][Adoption].base.state,
                                                request[p][Adoption].local))
  <2>1. CASE /\ Stores(merged) /\ Answer(p, Adoption, merged)
             /\ overwritten' = overwritten \cup (row.state.completed \ merged.completed)
    <3> HIDE DEF merged
    <3>1. RowMoves /\ row'.state = merged
      BY <1>t, <2>1, StoresMoves
    <3>2. ReadsMove /\ RepliesMove
      BY <1>t, <2>1, <3>1, AnswerMoves
    <3> QED
      BY <1>m, <2>1, <3>1, <3>2 DEF StepShape, KeptStays, Kept
  <2>2. CASE /\ request' = [request EXCEPT ![p][Adoption].phase = "refused"]
             /\ UNCHANGED <<row, overwritten>>
    <3> DEFINE q == [request[p][Adoption] EXCEPT !.phase = "refused"]
    <3>1. q.phase = "refused"
      BY <1>q DEF Request
    <3>2. request' = [request EXCEPT ![p][Adoption] = q]
      BY <1>t, <2>2 DEF WebTypeOK
    <3> HIDE DEF q
    <3>3. ReadsMove /\ RepliesMove
      BY <1>t, <3>1, <3>2, OneMoves
    <3>4. UNCHANGED <<row, overwritten, baseline, confirmed>>
      BY <1>c, <2>2
    <3> QED
      BY <3>3, <3>4, OnlyRequests DEF StepShape
  <2> QED
    BY <1>4, <2>1, <2>2 DEF Adopt
<1>5. CASE Fail(p, r)
  <2> DEFINE q == [NoRequest EXCEPT !.phase = "refused", !.heard = request[p][r].heard]
  <2>1. q.phase = "refused"
    BY DEF NoRequest
  <2>2. request' = [request EXCEPT ![p][r] = q] /\ UNCHANGED <<row, overwritten>>
    BY <1>5 DEF Fail, past
  <2> HIDE DEF q
  <2> QED
    BY <1>t, <1>c, <2>1, <2>2, OneMoves, OnlyRequests DEF StepShape
<1> QED
  BY <1>1, <1>2, <1>3, <1>4, <1>5

\* Every step has the shape.
LEMMA StepsHaveTheShape == WebInv /\ [WebNext]_webVars => StepShape
<1> SUFFICES ASSUME WebInv, [WebNext]_webVars PROVE StepShape
  OBVIOUS
<1>t. WebTypeOK
  BY DEF WebInv
<1>1. ASSUME NEW p \in Pages, PageStep(p) PROVE StepShape
  <2>1. Adoption \in Requests
    BY DEF Requests
  <2>2. ASSUME NEW r \in Requests,
               \/ Pushed(p, r) \/ Unanswered(p, r)
               \/ Read(p, r) \/ ApplyChanges(p, r) \/ LoseTheRace(p, r) \/ Fail(p, r)
        PROVE  StepShape
    BY <1>t, <2>2, ReplyShape, RouteShape
  <2>3. Adopted(p) \/ Adopt(p) => StepShape
    BY <1>t, <2>1, ReplyShape, RouteShape
  <2>4. Load(p) => StepShape
    BY <1>t, LoadShape
  <2>5. \/ Update(p) \/ Push(p)
        \/ StoreFlush(p) \/ StoreRefuses(p) \/ StoreWrite(p) \/ StoreFails(p)
        \/ StorageEvent(p)
        => StepShape
    BY <1>t, PageShape
  <2> QED
    BY <1>1, <2>2, <2>3, <2>4, <2>5 DEF PageStep
<1>2. CASE UNCHANGED webVars
  BY <1>2 DEF webVars, sync, past, StepShape, RowMoves, KeptStays, Kept, ReadsMove,
              RepliesMove, ConfirmedMoves
<1> QED
  BY <1>1, <1>2 DEF WebNext

\* A push that is served is answered by its own write alone.
LEMMA OnlyItsWriteAnswers ==
    ASSUME WebTypeOK, WebNext, NEW p \in Pages, NEW r \in Pushes,
           request[p][r].phase = "writing", request'[p][r].phase = "answered"
    PROVE  ApplyChanges(p, r)
<1>t. r \in Requests /\ r # Adoption /\ Adoption \in Requests
  BY WebAssumption DEF Requests
<1>q. \A o \in Pages, s \in Requests : request[o][s] \in Request
  BY DEF WebTypeOK
<1>p. PICK o \in Pages : PageStep(o)
  BY DEF WebNext
<1>e. ASSUME NEW s \in Requests, NEW q, request' = [request EXCEPT ![o][s] = q]
      PROVE  o = p /\ s = r /\ q.phase = "answered"
  BY <1>e, <1>t DEF WebTypeOK
<1>1. ~(\/ Update(o) \/ StoreFlush(o) \/ StoreRefuses(o) \/ StoreWrite(o) \/ StoreFails(o)
        \/ StorageEvent(o))
  BY DEF Update, StoreFlush, StoreRefuses, StoreWrite, StoreFails, StorageEvent
<1>2. ~Push(o)
  <2> DEFINE req == [NoRequest EXCEPT !.phase = "reading",
                                      !.changes = ProgressChanges(baseline[o], shown[o])]
  <2>1. req.phase # "answered"
    BY DEF NoRequest
  <2>2. Push(o) => \E s \in Pushes : request' = [request EXCEPT ![o][s] = req]
    BY DEF Push, Sends
  <2> HIDE DEF req
  <2> QED
    BY <1>e, <2>1, <2>2 DEF Requests
<1>3. ~\E s \in Requests : Ends(o, s)
  <2>1. NoRequest.phase = "none"
    BY DEF NoRequest
  <2> QED
    BY <1>e, <2>1 DEF Ends
<1>4. ~Load(o)
  BY <1>t, LoadRequests
<1>5. ~Adopt(o)
  <2>1. Adopt(o) => \E q : request' = [request EXCEPT ![o][Adoption] = q]
    BY DEF Adopt, Answer
  <2> QED
    BY <1>e, <1>t, <2>1
<1>6. ASSUME NEW s \in Requests PROVE ~Read(o, s)
  <2> DEFINE q == [request[o][s] EXCEPT !.phase = "writing", !.base = row]
  <2>1. q.phase = "writing"
    BY <1>q DEF Request
  <2>2. Read(o, s) => request' = [request EXCEPT ![o][s] = q]
    BY DEF Read, WebTypeOK
  <2> HIDE DEF q
  <2> QED
    BY <1>e, <2>1, <2>2
<1>7. ASSUME NEW s \in Requests PROVE ~LoseTheRace(o, s)
  <2> DEFINE tries == request[o][s].attempt + 1
             phase == IF tries < MAX_RETRIES THEN "reading" ELSE "refused"
             q == [request[o][s] EXCEPT !.phase = phase, !.attempt = tries, !.base = NoRow]
  <2>1. phase # "answered"
    OBVIOUS
  <2>2. LoseTheRace(o, s) => request' = [request EXCEPT ![o][s] = q]
    BY DEF LoseTheRace
  <2> HIDE DEF tries, phase
  <2>3. q.phase = phase
    BY <1>q DEF Request
  <2> HIDE DEF q
  <2> QED
    BY <1>e, <2>1, <2>2, <2>3
<1>8. ASSUME NEW s \in Requests PROVE ~Fail(o, s)
  <2> DEFINE q == [NoRequest EXCEPT !.phase = "refused", !.heard = request[o][s].heard]
  <2>1. q.phase = "refused"
    BY DEF NoRequest
  <2>2. Fail(o, s) => request' = [request EXCEPT ![o][s] = q]
    BY DEF Fail
  <2> HIDE DEF q
  <2> QED
    BY <1>e, <2>1, <2>2
<1>9. ASSUME NEW s \in Requests, ApplyChanges(o, s) PROVE o = p /\ s = r
  <2>1. \E q : request' = [request EXCEPT ![o][s] = q]
    BY <1>9 DEF ApplyChanges, Answer, WebTypeOK
  <2> QED
    BY <1>e, <2>1
<1> QED
  BY <1>p, <1>1, <1>2, <1>3, <1>4, <1>5, <1>6, <1>7, <1>8, <1>9, <1>t
  DEF PageStep, Pushed, Adopted, Unanswered

-----------------------------------------------------------------------------
\* Theorems.

\* The invariant holds of every reachable state: in particular, what a request of
\* handlers.ts or adopt/route.ts has read and not yet written is the row itself or
\* an earlier revision of it.
THEOREM WebInvariant == WebSpec => []WebInv
<1>1. WebInv /\ [WebNext]_webVars => WebInv'
  <2> SUFFICES ASSUME WebInv, [WebNext]_webVars PROVE WebInv'
    OBVIOUS
  <2>1. WebTypeOK'
    BY WebTypesStay DEF WebInv
  <2> QED
    BY <2>1, StepsHaveTheShape, ShapeKeeps
<1> QED
  BY <1>1, WebStarts, PTL DEF WebSpec

\* Types: among them, a request that is served has a try left, so a push is read
\* and written at most MAX_RETRIES times (handlers.ts).
THEOREM WebTypes == WebSpec => []WebTypeOK
<1>1. WebInv => WebTypeOK
  BY DEF WebInv
<1> QED
  BY <1>1, WebInvariant, PTL

\* What a page takes for confirmed is on the row, unless an adoption that read the
\* row earlier wrote over it (useProgress.tsx, adopt/route.ts).
THEOREM ConfirmedStaysOnTheRow == WebSpec => []ConfirmedIsOnTheRow
<1>1. WebInv => ConfirmedIsOnTheRow
  BY DEF WebInv
<1> QED
  BY <1>1, WebInvariant, PTL

\* A push is replayed on the very row it replaces, however many writers came
\* between its first read and its write.  (handlers.ts:33: "two devices writing at
\* once cannot clobber each other".)
THEOREM PushesReplay == WebSpec => PushReplaysOnTheRow
<1> DEFINE Replays == \A p \in Pages, r \in Pushes :
             request[p][r].phase = "writing" /\ request'[p][r].phase = "answered"
             => row'.state = SanitizeState(
                   ApplyProgressChanges(row.state, request[p][r].changes))
<1>1. WebInv /\ [WebNext]_webVars => [Replays]_webVars
  <2> SUFFICES ASSUME WebInv, WebNext,
                      NEW p \in Pages, NEW r \in Pushes,
                      request[p][r].phase = "writing", request'[p][r].phase = "answered"
               PROVE  row'.state = SanitizeState(
                         ApplyProgressChanges(row.state, request[p][r].changes))
    OBVIOUS
  <2>1. r \in Requests /\ r # Adoption
    BY WebAssumption DEF Requests
  <2>2. ApplyChanges(p, r)
    BY OnlyItsWriteAnswers DEF WebInv
  <2>3. row'.state = SanitizeState(ApplyProgressChanges(request[p][r].base.state,
                                                        request[p][r].changes))
    BY <2>2 DEF ApplyChanges, Stores
  <2> QED
    BY <2>1, <2>2, <2>3, ReadIsCurrent DEF ApplyChanges
<1> QED
  BY <1>1, WebInvariant, PTL DEF WebSpec, PushReplaysOnTheRow

-----------------------------------------------------------------------------

\* The gates of a lesson (Gates).

\* A check of the page that is mounted.
OnPage(c) == c.visit = visit

\* Numbers are handed out in turn, to checks as to mounted pages.
NumbersAreGiven ==
    /\ outcome.no <= checked
    /\ \A c \in checks : c.no <= checked /\ c.visit <= visit

\* A page that was loaded with Pro has it for its lesson, and so has what is checked.
RightsAreLent ==
    /\ opened # Overview /\ held = "pro" => opened \in lent
    /\ \A c \in checks : IsFreeLesson(c.lesson) \/ c.lesson \in lent

\* A page checks one thing at a time, with the runner it has now, unless the local
\* one was found meanwhile.
OneCheckAtATime ==
    ~switched => \A c \in checks : OnPage(c) =>
        /\ c.by = RunnerNow /\ CanRun
        /\ \A d \in checks : OnPage(d) => d = c

\* While the buddy thinks of a result, or speaks of it, no other is out.
BuddyIsAboutTheResult ==
    (buddy.asking # "no" \/ buddy.shows # "nothing") /\ ~buddy.late /\ ~switched =>
        buddy.no = outcome.no /\ \A c \in checks : ~OnPage(c)

GatesInv ==
    /\ GatesTypeOK /\ NumbersAreGiven /\ RightsAreLent /\ GatesHold
    /\ OneCheckAtATime /\ ResultIsTheLatest /\ BuddyIsAboutTheResult /\ BuddyAnswers

\* The overview is not a lesson.
LEMMA NoLessonIsOverview == Overview \notin Lesson
BY DEF Overview, Lesson

\* The lesson of a page that is not gated, and what runs its program.
LEMMA OpenedIsALesson ==
    ASSUME GatesTypeOK, Unlocked
    PROVE  opened \in Lesson
BY DEF GatesTypeOK, Unlocked

\* A page that is not loaded shows nothing.
LEMMA GatesStart == GatesInit => GatesInv
<1> SUFFICES ASSUME GatesInit PROVE GatesInv
  OBVIOUS
<1> USE GatesAssumption DEF GatesInit
<1>1. earned \in LessonRecord
  BY DEF LessonRecord
<1>2. outcome \in [no: 0 .. MaxChecks, ok: BOOLEAN] /\ buddy \in BuddyBox
  BY DEF NoOutcome, QuietBox, BuddyBox
<1>3. 0 \in 0 .. MaxVisits /\ 0 \in 0 .. MaxChecks /\ FALSE \in BOOLEAN
  OBVIOUS
<1>4. GatesTypeOK
  BY <1>1, <1>2, <1>3 DEF GatesTypeOK, Rights, Probe
<1> QED
  BY <1>4 DEF GatesInv, NumbersAreGiven, RightsAreLent, GatesHold, OneCheckAtATime,
     ResultIsTheLatest, BuddyIsAboutTheResult, BuddyAnswers, NoOutcome, QuietBox

\* A page is mounted: nothing it waits for is out.
LEMMA MountingStaysSound ==
    ASSUME GatesInv, NEW l \in Lesson \cup {Overview}, Mounts(l), visit < MaxVisits,
           checks' \subseteq checks, held' \in Rights, bundle' \in Probe,
           UNCHANGED <<right, checked>>
    PROVE  GatesInv'
<1> USE GatesAssumption
<1>1. GatesTypeOK'
  <2>1. earned' \in LessonRecord
    BY DEF GatesInv, GatesTypeOK, Mounts, Resumes, LessonRecord
  <2>2. visit' \in 0 .. MaxVisits
    BY DEF GatesInv, GatesTypeOK, Mounts
  <2>3. buddy' \in BuddyBox /\ outcome' \in [no: 0 .. MaxChecks, ok: BOOLEAN]
    BY DEF Mounts, NoOutcome, QuietBox, BuddyBox
  <2>4. lent' \subseteq Lesson \cup {Overview}
    BY DEF GatesInv, GatesTypeOK, Mounts
  <2>5. opened' = l /\ sdk' = "asking" /\ switched' = FALSE /\ ended' = 0
    BY DEF Mounts
  <2>6. 0 \in 0 .. MaxChecks /\ FALSE \in BOOLEAN
    OBVIOUS
  <2>7. right' \in Rights /\ checks' \subseteq RunCheck /\ checked' \in 0 .. MaxChecks
    BY DEF GatesInv, GatesTypeOK
  <2> QED
    BY <2>1, <2>2, <2>3, <2>4, <2>5, <2>6, <2>7 DEF GatesTypeOK, Probe
<1>2. \A c \in checks' : c.visit < visit' /\ c.no > 0
  BY DEF GatesInv, GatesTypeOK, NumbersAreGiven, Mounts, RunCheck
<1>3. NumbersAreGiven'
  <2>1. checked \in Nat /\ checked' = checked /\ outcome'.no = 0
    BY DEF GatesInv, GatesTypeOK, Mounts, NoOutcome
  <2>2. \A c \in checks' : c.no <= checked
    BY DEF GatesInv, NumbersAreGiven
  <2>3. \A c \in checks' : c.visit <= visit'
    BY <1>2, <1>1 DEF GatesTypeOK, RunCheck
  <2> QED
    BY <2>1, <2>2, <2>3 DEF NumbersAreGiven
<1>4. lent \subseteq lent'
  BY DEF Mounts
<1>5. RightsAreLent'
  <2>1. opened' # Overview /\ held' = "pro" => opened' \in lent'
    BY DEF Mounts
  <2> QED
    BY <1>4, <2>1 DEF GatesInv, RightsAreLent
<1>6. GatesHold'
  <2>1. earned'.quizzes = earned.quizzes /\ earned'.solved = earned.solved
        /\ earned'.completed = earned.completed
    BY DEF GatesInv, GatesTypeOK, LessonRecord, Mounts, Resumes
  <2> QED
    BY <1>4, <2>1 DEF GatesInv, GatesHold
<1>7. \A c \in checks' : ~OnPage(c)'
  <2>1. visit \in Nat /\ visit' \in Nat /\ \A c \in checks' : c.visit \in Nat
    BY DEF GatesInv, GatesTypeOK, Mounts, RunCheck
  <2> QED
    BY <1>2, <2>1 DEF OnPage
<1>8. OneCheckAtATime'
  BY <1>7 DEF OneCheckAtATime
<1>9. ResultIsTheLatest'
  BY <1>7 DEF ResultIsTheLatest, OnPage, Mounts, NoOutcome
<1>10. buddy' = QuietBox
  BY DEF Mounts
<1> QED
  BY <1>1, <1>3, <1>5, <1>6, <1>8, <1>9, <1>10 DEF GatesInv, BuddyIsAboutTheResult, BuddyAnswers, QuietBox

\* Steps of a page that stays: its lesson, its right and its number are as they were.
PageStays == UNCHANGED <<held, opened, visit, checked>>

\* A page is loaded with the rights of that moment.
LEMMA LoadsStaySound ==
    ASSUME GatesInv, NEW l \in Lesson \cup {Overview}, LoadLearn(l) \/ FollowLink(l)
    PROVE  GatesInv'
<1>1. CASE LoadLearn(l)
  <2>1. held' \in Rights /\ bundle' \in Probe /\ checks' \subseteq checks
    BY <1>1 DEF LoadLearn, GatesInv, GatesTypeOK, Probe
  <2> QED
    BY <1>1, <2>1, MountingStaysSound DEF LoadLearn
<1>2. CASE FollowLink(l)
  <2>1. held' \in Rights /\ bundle' \in Probe /\ checks' \subseteq checks
    BY <1>2 DEF FollowLink, GatesInv, GatesTypeOK
  <2> QED
    BY <1>2, <2>1, MountingStaysSound DEF FollowLink
<1> QED
  BY <1>1, <1>2

\* A runner that is found is known from now on.
LEMMA ProbesStaySound ==
    ASSUME GatesInv, ProbeLocal \/ ProbeHosted
    PROVE  GatesInv'
<1>1. CASE ProbeLocal
  <2> USE <1>1 DEF ProbeLocal
  <2>1. GatesTypeOK'
    BY DEF GatesInv, GatesTypeOK, Probe
  <2>2. NumbersAreGiven' /\ RightsAreLent' /\ GatesHold'
    BY DEF GatesInv, NumbersAreGiven, RightsAreLent, GatesHold
  <2>3. ~switched' => ~switched /\ \A c \in checks : ~OnPage(c)
    BY DEF OnPage
  <2>4. OneCheckAtATime'
    BY <2>3 DEF OneCheckAtATime, OnPage
  <2>5. ResultIsTheLatest'
    BY <2>3 DEF GatesInv, ResultIsTheLatest, OnPage
  <2>6. BuddyIsAboutTheResult'
    BY <2>3 DEF GatesInv, BuddyIsAboutTheResult, OnPage
  <2>7. BuddyAnswers'
    BY <2>3 DEF GatesInv, BuddyAnswers
  <2> QED
    BY <2>1, <2>2, <2>4, <2>5, <2>6, <2>7 DEF GatesInv
<1>2. CASE ProbeHosted
  <2> USE <1>2 DEF ProbeHosted
  <2>1. GatesTypeOK'
    BY DEF GatesInv, GatesTypeOK, Probe, gatesPast
  <2>2. NumbersAreGiven' /\ RightsAreLent' /\ GatesHold' /\ ResultIsTheLatest'
        /\ BuddyIsAboutTheResult' /\ BuddyAnswers'
    BY DEF GatesInv, NumbersAreGiven, RightsAreLent, GatesHold, ResultIsTheLatest,
           BuddyIsAboutTheResult, BuddyAnswers, OnPage, gatesPast
  <2>3. CanRun => CanRun' /\ RunnerNow' = RunnerNow
    BY DEF CanRun, RunnerNow, UseWasm
  <2>4. OneCheckAtATime'
    BY <2>3 DEF GatesInv, OneCheckAtATime, OnPage, gatesPast
  <2> QED
    BY <2>1, <2>2, <2>4 DEF GatesInv
<1> QED
  BY <1>1, <1>2

\* Rights that change leave a loaded page as it is.
LEMMA RightsChangeSoundly == ASSUME GatesInv, RightChanges PROVE GatesInv'
<1> USE DEF RightChanges, gatesPage, gatesPast
<1>1. GatesTypeOK'
  BY DEF GatesInv, GatesTypeOK, Rights
<1>2. CanRun' = CanRun /\ RunnerNow' = RunnerNow
  BY DEF CanRun, RunnerNow, UseWasm
<1> QED
  BY <1>1, <1>2 DEF GatesInv, NumbersAreGiven, RightsAreLent, GatesHold, OneCheckAtATime,
     ResultIsTheLatest, BuddyIsAboutTheResult, BuddyAnswers, OnPage

\* What is open may be worked on: it is free, or the page has Pro.
LEMMA UnlockedIsLent ==
    ASSUME GatesInv, Unlocked
    PROVE  IsFreeLesson(opened) \/ opened \in lent
BY DEF GatesInv, RightsAreLent, Unlocked, CanPractice

\* A step that changes nothing but the record.
LEMMA RecordGrowsSoundly ==
    ASSUME GatesInv, earned' \in LessonRecord, UNCHANGED <<right, gatesPage, checks, checked, gatesPast>>,
           \A l \in earned'.quizzes \cup earned'.solved \cup earned'.completed :
               l \in earned.quizzes \cup earned.solved \cup earned.completed \/ IsFreeLesson(l) \/ l \in lent
    PROVE  GatesInv'
<1> USE DEF gatesPage, gatesPast
<1>1. GatesTypeOK'
  BY DEF GatesInv, GatesTypeOK
<1>2. CanRun' = CanRun /\ RunnerNow' = RunnerNow
  BY DEF CanRun, RunnerNow, UseWasm
<1>3. GatesHold'
  BY DEF GatesInv, GatesHold
<1> QED
  BY <1>1, <1>2, <1>3 DEF GatesInv, NumbersAreGiven, RightsAreLent, OneCheckAtATime,
     ResultIsTheLatest, BuddyIsAboutTheResult, BuddyAnswers, OnPage

\* A quiz is passed on a page that was let in.
LEMMA QuizzesStaySound == ASSUME GatesInv, PassQuiz PROVE GatesInv'
<1>1. opened \in Lesson
  BY OpenedIsALesson DEF GatesInv, PassQuiz
<1>2. earned' \in LessonRecord
  <2>1. earned \in LessonRecord
    BY DEF GatesInv, GatesTypeOK
  <2>2. earned.quizzes \cup {opened} \in SUBSET Lesson /\ earned.practice + 1 \in Nat
    BY <1>1, <2>1 DEF LessonRecord
  <2> QED
    BY <2>1, <2>2 DEF PassQuiz, LessonRecord
<1>3. IsFreeLesson(opened) \/ opened \in lent
  BY UnlockedIsLent DEF PassQuiz
<1>4. /\ earned'.quizzes = earned.quizzes \cup {opened}
      /\ earned'.solved = earned.solved /\ earned'.completed = earned.completed
  BY DEF PassQuiz, GatesInv, GatesTypeOK, LessonRecord
<1> QED
  BY <1>2, <1>3, <1>4, RecordGrowsSoundly DEF PassQuiz

\* A lesson is completed on a page that was let in.
LEMMA CompletionsStaySound == ASSUME GatesInv, Complete PROVE GatesInv'
<1>1. opened \in Lesson
  BY OpenedIsALesson DEF GatesInv, Complete
<1>2. opened.lang \in {"js", "cs"}
  BY <1>1 DEF Lesson
<1>3. earned' \in LessonRecord
  <2>1. earned \in LessonRecord
    BY DEF GatesInv, GatesTypeOK
  <2>2. /\ earned.completed \cup {opened} \in SUBSET Lesson /\ earned.practice + 1 \in Nat
        /\ earned.certificates \in SUBSET {"js", "cs"}
        /\ earned.certificates \cup {opened.lang} \in SUBSET {"js", "cs"}
    BY <1>1, <1>2, <2>1 DEF LessonRecord
  <2>3. PICK certificates \in SUBSET {"js", "cs"} :
            earned' = [earned EXCEPT !.completed = earned.completed \cup {opened},
                         !.practice = earned.practice + 1, !.certificates = certificates]
    BY <2>1, <2>2 DEF Complete, LessonRecord
  <2> QED
    BY <2>1, <2>2, <2>3 DEF LessonRecord
<1>4. IsFreeLesson(opened) \/ opened \in lent
  BY UnlockedIsLent DEF Complete
<1>5. /\ earned'.completed = earned.completed \cup {opened}
      /\ earned'.solved = earned.solved /\ earned'.quizzes = earned.quizzes
  BY DEF Complete, GatesInv, GatesTypeOK, LessonRecord
<1> QED
  BY <1>3, <1>4, <1>5, RecordGrowsSoundly DEF Complete

\* A check takes the next number and silences the buddy.
LEMMA ChecksBeginSoundly == ASSUME GatesInv, BeginCheck PROVE GatesInv'
<1> USE DEF BeginCheck
<1>1. opened \in Lesson /\ checked \in Nat /\ visit \in Nat
  BY OpenedIsALesson DEF GatesInv, GatesTypeOK
<1>2. NewRun \in RunCheck /\ NewRun.no = checked + 1 /\ NewRun.visit = visit
      /\ NewRun.lesson = opened /\ NewRun.by = RunnerNow
  <2>1. checked + 1 \in 1 .. MaxChecks
    BY <1>1, GatesAssumption
  <2>2. RunnerNow \in Runners
    BY DEF RunnerNow, Runners
  <2>3. (earned.hints[opened] < HintTiers) \in BOOLEAN
    OBVIOUS
  <2> QED
    BY <1>1, <2>1, <2>2, <2>3 DEF NewRun, RunCheck
<1> HIDE DEF NewRun
<1>3. GatesTypeOK'
  <2>1. earned' \in LessonRecord
    <3>1. earned \in LessonRecord
      BY DEF GatesInv, GatesTypeOK
    <3>2. earned.drafts \cup {opened} \in SUBSET Lesson
      BY <1>1, <3>1 DEF LessonRecord
    <3> QED
      BY <3>1, <3>2 DEF LessonRecord
  <2>2. buddy' \in BuddyBox
    BY DEF GatesInv, GatesTypeOK, BuddyBox
  <2>3. checked' \in 0 .. MaxChecks
    BY <1>1, GatesAssumption
  <2> QED
    BY <1>2, <2>1, <2>2, <2>3 DEF GatesInv, GatesTypeOK, gatesPast
<1>4. \A c \in checks' : c \in checks \/ c = NewRun
  OBVIOUS
<1>5. NumbersAreGiven'
  <2>1. \A c \in checks : c.no \in Nat /\ c.no <= checked /\ c.visit <= visit
    BY DEF GatesInv, GatesTypeOK, NumbersAreGiven, RunCheck
  <2>2. outcome.no \in Nat /\ outcome.no <= checked
    BY DEF GatesInv, GatesTypeOK, NumbersAreGiven
  <2>3. checked' = checked + 1 /\ outcome' = outcome /\ visit' = visit
    OBVIOUS
  <2>4. ASSUME NEW c \in checks' PROVE c.no <= checked' /\ c.visit <= visit'
    BY <1>1, <1>2, <1>4, <2>1, <2>3
  <2> QED
    BY <1>1, <2>2, <2>3, <2>4 DEF NumbersAreGiven
<1>6. RightsAreLent'
  BY <1>2, <1>4, UnlockedIsLent DEF GatesInv, RightsAreLent, gatesPast
<1>7. GatesHold'
  <2>1. NewRun.by = "hosted" => NewRun.lesson \in lent
    BY <1>2 DEF RunnerNow, UseWasm, CanRunCsharp, Unlocked, GatesInv, RightsAreLent
  <2>2. earned'.quizzes = earned.quizzes /\ earned'.solved = earned.solved
        /\ earned'.completed = earned.completed
    BY DEF GatesInv, GatesTypeOK, LessonRecord
  <2> QED
    BY <1>4, <2>1, <2>2 DEF GatesInv, GatesHold, gatesPast
<1>8. CanRun' = CanRun /\ RunnerNow' = RunnerNow
  BY DEF CanRun, RunnerNow, UseWasm
<1>9. ~switched => \A c \in checks : ~OnPage(c)
  BY DEF RunningNow, GatesInv, OneCheckAtATime, OnPage
<1>10. OneCheckAtATime'
  BY <1>2, <1>4, <1>8, <1>9 DEF OneCheckAtATime, OnPage, gatesPast
<1>11. ResultIsTheLatest'
  <2>1. NewRun.no > outcome.no
    BY <1>1, <1>2 DEF GatesInv, GatesTypeOK, NumbersAreGiven
  <2> QED
    BY <1>4, <2>1 DEF GatesInv, ResultIsTheLatest, gatesPast
<1>12. buddy'.shows = "nothing" /\ buddy'.asking = buddy.asking /\ buddy'.late = (buddy.asking # "no")
  BY DEF GatesInv, GatesTypeOK, BuddyBox
<1>13. BuddyIsAboutTheResult' /\ BuddyAnswers'
  BY <1>12 DEF GatesInv, BuddyIsAboutTheResult, BuddyAnswers
<1> QED
  BY <1>3, <1>5, <1>6, <1>7, <1>10, <1>11, <1>13 DEF GatesInv

\* What a result leaves in the record: of the lesson checked, more hints or its solution.
LEMMA ResultsAreRecorded ==
    ASSUME GatesTypeOK, NEW c \in checks, Solve(c.lesson) \/ Surface(c)
    PROVE  /\ earned' \in LessonRecord
           /\ earned'.quizzes = earned.quizzes /\ earned'.completed = earned.completed
           /\ earned'.solved \subseteq earned.solved \cup {c.lesson}
<1>1. c.lesson \in Lesson /\ earned \in LessonRecord
  BY DEF GatesTypeOK, RunCheck
<1>2. CASE Solve(c.lesson)
  <2>1. CASE c.lesson \in earned.solved
    BY <1>1, <1>2, <2>1 DEF Solve
  <2>2. CASE c.lesson \notin earned.solved
    <3>1. earned.solved \cup {c.lesson} \in SUBSET Lesson /\ earned.practice + 1 \in Nat
      BY <1>1 DEF LessonRecord
    <3> QED
      BY <1>1, <1>2, <2>2, <3>1 DEF Solve, LessonRecord
  <2> QED
    BY <2>1, <2>2
<1>3. CASE Surface(c)
  <2> DEFINE revealed == earned.hints[c.lesson]
             more == IF revealed < HintTiers THEN revealed + 1 ELSE HintTiers
  <2>1. more \in 0 .. HintTiers /\ earned.hints \in [Lesson -> 0 .. HintTiers]
    BY <1>1, GatesAssumption DEF LessonRecord
  <2>2. [earned.hints EXCEPT ![c.lesson] = more] \in [Lesson -> 0 .. HintTiers]
    BY <2>1
  <2>3. earned' = IF c.hintsLeft THEN [earned EXCEPT !.hints = [earned.hints EXCEPT ![c.lesson] = more]]
                  ELSE earned
    BY <1>3 DEF Surface
  <2> HIDE DEF more
  <2> QED
    BY <1>1, <2>2, <2>3 DEF LessonRecord
<1> QED
  BY <1>2, <1>3

\* A result is shown by the page that asked, and by no other.
LEMMA ChecksEndSoundly == ASSUME GatesInv, NEW c \in checks, CheckEnds(c) PROVE GatesInv'
<1> USE DEF CheckEnds
<1>1. c \in RunCheck /\ c.no \in 1 .. MaxChecks /\ ended \in 0 .. MaxChecks
  BY DEF GatesInv, GatesTypeOK, RunCheck
<1>2. PICK ok \in BOOLEAN :
          outcome' = IF OnPage(c) THEN [no |-> c.no, ok |-> ok] ELSE outcome
  BY DEF OnPage
<1>3. /\ earned' \in LessonRecord
      /\ earned'.quizzes = earned.quizzes /\ earned'.completed = earned.completed
      /\ earned'.solved \subseteq earned.solved \cup {c.lesson}
  BY ResultsAreRecorded DEF GatesInv
<1>4. checks' = checks \ {c} /\ visit' = visit /\ switched' = switched
  OBVIOUS
<1>5. GatesTypeOK'
  <2>1. outcome' \in [no: 0 .. MaxChecks, ok: BOOLEAN]
    BY <1>1, <1>2 DEF GatesInv, GatesTypeOK
  <2>2. ended' \in 0 .. MaxChecks
    BY <1>1
  <2> QED
    BY <1>3, <1>4, <2>1, <2>2 DEF GatesInv, GatesTypeOK
<1>6. NumbersAreGiven'
  <2>1. outcome'.no <= checked
    BY <1>2 DEF GatesInv, NumbersAreGiven
  <2> QED
    BY <1>4, <2>1 DEF GatesInv, NumbersAreGiven
<1>7. RightsAreLent'
  BY <1>4 DEF GatesInv, RightsAreLent
<1>8. GatesHold'
  <2>1. IsFreeLesson(c.lesson) \/ c.lesson \in lent
    BY DEF GatesInv, RightsAreLent
  <2> QED
    BY <1>3, <1>4, <2>1 DEF GatesInv, GatesHold
<1>9. CanRun' = CanRun /\ RunnerNow' = RunnerNow
  BY DEF CanRun, RunnerNow, UseWasm
<1>10. OneCheckAtATime'
  BY <1>4, <1>9 DEF GatesInv, OneCheckAtATime, OnPage
<1>11. ResultIsTheLatest'
  <2>1. SUFFICES ASSUME ~switched PROVE outcome'.no = ended' /\ \A d \in checks' : OnPage(d) => d.no > outcome'.no
    BY <1>4 DEF ResultIsTheLatest, OnPage
  <2>2. outcome.no = ended /\ \A d \in checks : OnPage(d) => d.no > outcome.no
    BY <2>1 DEF GatesInv, ResultIsTheLatest, OnPage
  <2>3. CASE OnPage(c)
    <3>1. \A d \in checks' : ~OnPage(d)
      BY <1>4, <2>1, <2>3 DEF GatesInv, OneCheckAtATime
    <3>2. c.no > ended
      BY <2>2, <2>3
    <3> QED
      BY <1>2, <2>3, <3>1, <3>2 DEF OnPage
  <2>4. CASE ~OnPage(c)
    BY <1>2, <1>4, <2>2, <2>4 DEF OnPage
  <2> QED
    BY <2>3, <2>4
<1>12. BuddyIsAboutTheResult'
  BY <1>2, <1>4 DEF GatesInv, BuddyIsAboutTheResult, OnPage
<1>13. BuddyAnswers'
  BY <1>2, <1>4 DEF GatesInv, BuddyIsAboutTheResult, BuddyAnswers, OnPage
<1> QED
  BY <1>5, <1>6, <1>7, <1>8, <1>10, <1>11, <1>12, <1>13 DEF GatesInv

\* The buddy is asked, judged and answers.
LEMMA BuddyStaysSound ==
    ASSUME GatesInv, AskTutor \/ TutorRules \/ TutorAnswers
    PROVE  GatesInv'
<1>1. UNCHANGED <<right, held, opened, visit, sdk, bundle, outcome, checks, earned, checked, gatesPast>>
  BY DEF AskTutor, TutorRules, TutorAnswers
<1>2. buddy \in BuddyBox /\ outcome.no \in 0 .. MaxChecks
  BY DEF GatesInv, GatesTypeOK
<1>3. /\ buddy' \in BuddyBox
      /\ buddy'.asking # "no" => held = "pro" /\ buddy'.shows = "nothing"
      /\ (buddy'.asking # "no" \/ buddy'.shows # "nothing") /\ ~buddy'.late /\ ~switched =>
             buddy'.no = outcome.no /\ \A c \in checks : ~OnPage(c)
  <2>1. CASE AskTutor
    <3>1. buddy' = [asking |-> "sent", no |-> outcome.no, shows |-> "nothing",
                    late |-> \E c \in checks : OnPage(c)]
      BY <2>1 DEF AskTutor, OnPage
    <3>2. (\E c \in checks : OnPage(c)) \in BOOLEAN
      OBVIOUS
    <3>3. buddy' \in BuddyBox
      BY <1>2, <3>1, <3>2 DEF BuddyBox
    <3>4. buddy'.no = outcome.no /\ buddy'.shows = "nothing" /\ buddy'.late = \E c \in checks : OnPage(c)
      BY <3>1
    <3>5. held = "pro"
      BY <2>1 DEF AskTutor, CanUseAiTutor
    <3> QED
      BY <3>3, <3>4, <3>5
  <2>2. CASE TutorRules
    BY <1>2, <2>2 DEF TutorRules, GatesInv, BuddyIsAboutTheResult, BuddyAnswers, BuddyBox
  <2>3. CASE TutorAnswers
    BY <1>2, <2>3 DEF TutorAnswers, GatesInv, BuddyIsAboutTheResult, BuddyAnswers, BuddyBox
  <2> QED
    BY <2>1, <2>2, <2>3
<1>4. GatesTypeOK'
  BY <1>1, <1>3 DEF GatesInv, GatesTypeOK, gatesPast
<1>5. CanRun' = CanRun /\ RunnerNow' = RunnerNow
  BY <1>1 DEF CanRun, RunnerNow, UseWasm
<1>6. NumbersAreGiven' /\ RightsAreLent' /\ GatesHold' /\ OneCheckAtATime' /\ ResultIsTheLatest'
  BY <1>1, <1>5 DEF GatesInv, NumbersAreGiven, RightsAreLent, GatesHold, OneCheckAtATime,
     ResultIsTheLatest, OnPage, gatesPast
<1>7. BuddyIsAboutTheResult' /\ BuddyAnswers'
  BY <1>1, <1>3 DEF BuddyIsAboutTheResult, BuddyAnswers, OnPage, gatesPast
<1> QED
  BY <1>4, <1>6, <1>7 DEF GatesInv

\* The gates of a lesson hold over everything a page and the server do.
THEOREM GatesInvariant == GatesSpec => []GatesInv
<1>1. ASSUME GatesInv, [GatesNext]_gatesVars PROVE GatesInv'
  <2>1. CASE UNCHANGED gatesVars
    BY <1>1, <2>1 DEF gatesVars, gatesPage, gatesPast, GatesInv, GatesTypeOK, NumbersAreGiven,
       RightsAreLent, GatesHold, OneCheckAtATime, ResultIsTheLatest, BuddyIsAboutTheResult,
       BuddyAnswers, OnPage, CanRun, RunnerNow, UseWasm
  <2>2. CASE GatesNext
    BY <1>1, <2>2, LoadsStaySound, ProbesStaySound, RightsChangeSoundly, QuizzesStaySound,
       ChecksBeginSoundly, ChecksEndSoundly, CompletionsStaySound, BuddyStaysSound DEF GatesNext
  <2> QED
    BY <1>1, <2>1, <2>2
<1> QED
  BY <1>1, GatesStart, PTL DEF GatesSpec

-----------------------------------------------------------------------------

\* The playground of the web edition (Playground).

PlayTypes ==
    /\ PlayTypeOK
    /\ open \in BOOLEAN /\ lang \in Langs
    /\ typed \in [DraftKeys -> Scribbles \cup {NoScribble}]
    /\ runs \in [Langs -> BOOLEAN]

\* A box that was typed in has the text typed last, also in its timer; the others have no timer.
BoxesHoldTheTyped ==
    open => \A b \in Boxes :
        /\ box[b].touched => Visible(b) /\ box[b].text = typed[KeyOf(b, lang)]
        /\ box[b].timer # NoScribble => box[b].touched /\ box[b].timer = box[b].text

\* A timer whose box is going has the text typed last, and no box of its draft is on the page.
OrphansHoldTheTyped ==
    \A o \in orphans :
        /\ o.text = typed[o.key]
        /\ open => lang = "cs" /\ o.key \in {"dom-html", "dom-js"}

FramesAreAsked == payload # Nothing => payload = asked

PlayInv ==
    /\ PlayTypes /\ BoxesHoldTheTyped /\ OrphansHoldTheTyped /\ FramesAreAsked /\ PlaygroundKeepsUp

\* Two boxes of a page never save under one key.
LEMMA KeysOfBoxes ==
    ASSUME NEW b \in Boxes, NEW l \in Langs
    PROVE  /\ KeyOf(b, l) \in DraftKeys
           /\ \A c \in Boxes : KeyOf(c, l) = KeyOf(b, l) => c = b
           /\ b # "code" => KeyOf(b, l) = b
           /\ b = "code" => KeyOf(b, l) \notin {"dom-html", "dom-js"}
BY DEF Boxes, Langs, KeyOf, DraftKeys

\* A draft as an editor shows it.
LEMMA HydratedType ==
    ASSUME NEW d \in [DraftKeys -> Saved \cup {Starter}], NEW k \in DraftKeys
    PROVE  /\ Hydrated(d, k) \in Box /\ Hydrated(d, k).timer = NoScribble /\ ~Hydrated(d, k).touched
           /\ Hydrated(d, k).text = IF d[k] = NoScribble THEN Starter ELSE d[k]
BY DEF Hydrated, Box, Saved, Shown

\* Following the record changes the text of those boxes nobody typed in.
LEMMA FollowingType ==
    ASSUME NEW d \in [DraftKeys -> Saved \cup {Starter}], NEW bs \in [Boxes -> Box], lang \in Langs
    PROVE  /\ Follow(d, bs) \in [Boxes -> Box]
           /\ \A b \in Boxes :
                 /\ Follow(d, bs)[b].touched = bs[b].touched /\ Follow(d, bs)[b].timer = bs[b].timer
                 /\ bs[b].touched => Follow(d, bs)[b] = bs[b]
                 /\ ~bs[b].touched => Follow(d, bs)[b].text = Hydrated(d, KeyOf(b, lang)).text
<1>1. ASSUME NEW b \in Boxes
      PROVE  /\ Follow(d, bs)[b] \in Box
             /\ Follow(d, bs)[b].touched = bs[b].touched /\ Follow(d, bs)[b].timer = bs[b].timer
             /\ bs[b].touched => Follow(d, bs)[b] = bs[b]
             /\ ~bs[b].touched => Follow(d, bs)[b].text = Hydrated(d, KeyOf(b, lang)).text
  <2>1. Hydrated(d, KeyOf(b, lang)).text \in Shown
    BY KeysOfBoxes, HydratedType DEF Box
  <2>2. Follow(d, bs)[b] = IF bs[b].touched THEN bs[b]
                          ELSE [bs[b] EXCEPT !.text = Hydrated(d, KeyOf(b, lang)).text]
    BY DEF Follow
  <2>3. bs[b] \in Box
    OBVIOUS
  <2> QED
    BY <2>1, <2>2, <2>3 DEF Box
<1>2. Follow(d, bs) = [b \in Boxes |-> Follow(d, bs)[b]]
  BY DEF Follow
<1> QED
  BY <1>1, <1>2

\* A playground that is closed holds nothing.
LEMMA PlayStarts == PlayInit => PlayInv
<1> SUFFICES ASSUME PlayInit PROVE PlayInv
  OBVIOUS
<1> USE DEF PlayInit
<1>1. drafts \in [DraftKeys -> Saved \cup {Starter}]
  BY DEF Saved
<1>2. \A b \in Boxes : box[b] = Hydrated(drafts, KeyOf(b, "js")) /\ KeyOf(b, "js") \in DraftKeys
  BY KeysOfBoxes DEF Langs
<1>3. box \in [Boxes -> Box]
  BY <1>1, <1>2, HydratedType
<1>4. PlayTypes
  BY <1>1, <1>3 DEF PlayTypes, PlayTypeOK, Langs
<1>5. ScribblesAreKept
  BY DEF ScribblesAreKept
<1>6. UntouchedFollows
  BY <1>2 DEF UntouchedFollows
<1>7. PreviewIsLatest /\ FramesAreAsked
  BY DEF PreviewIsLatest, FramesAreAsked
<1> QED
  BY <1>4, <1>5, <1>6, <1>7 DEF PlayInv, BoxesHoldTheTyped, OrphansHoldTheTyped, PlaygroundKeepsUp

\* Drafts that are saved, or come from elsewhere, lose nothing that was typed: what is
\* overwritten is what a box nobody typed in showed.
MaySave(k, x) ==
    \/ x = drafts[k] \/ x = typed[k]
    \/ x = Starter /\ drafts[k] = NoScribble
       /\ \E b \in Boxes : Visible(b) /\ KeyOf(b, lang) = k /\ ~box[b].touched

\* Saving keeps what was typed when a timer goes only with its text saved.
LEMMA SavingIsSound ==
    ASSUME PlayInv, UNCHANGED <<open, lang, typed>>, others \subseteq others',
           drafts' \in [DraftKeys -> Saved \cup {Starter}],
           \A k \in DraftKeys : MaySave(k, drafts'[k]) \/ k \in others',
           orphans' \subseteq orphans,
           \A o \in orphans : o \in orphans' \/ drafts'[o.key] = typed[o.key],
           NEW bs \in [Boxes -> Box],
           \A b \in Boxes :
               \/ bs[b] = box[b]
               \/ /\ Visible(b) /\ bs[b] = [box[b] EXCEPT !.timer = NoScribble]
                  /\ box[b].timer # NoScribble => drafts'[KeyOf(b, lang)] = typed[KeyOf(b, lang)],
           box' = IF open THEN Follow(drafts', bs) ELSE bs
    PROVE  /\ box' \in [Boxes -> Box] /\ BoxesHoldTheTyped' /\ OrphansHoldTheTyped'
           /\ ScribblesAreKept' /\ UntouchedFollows'
<1>1. /\ open \in BOOLEAN /\ lang \in Langs /\ box \in [Boxes -> Box]
      /\ orphans \subseteq [key: DraftKeys, text: Shown]
  BY DEF PlayInv, PlayTypes, PlayTypeOK
<1>2. box' \in [Boxes -> Box]
  BY <1>1, FollowingType
<1>3. ASSUME NEW b \in Boxes
      PROVE  /\ bs[b].touched = box[b].touched /\ bs[b].text = box[b].text
             /\ bs[b].timer \in {box[b].timer, NoScribble}
             /\ bs[b].timer # box[b].timer =>
                   Visible(b) /\ drafts'[KeyOf(b, lang)] = typed[KeyOf(b, lang)]
  <2>1. box[b] \in Box /\ bs[b] \in Box
    BY <1>1
  <2> QED
    BY <2>1 DEF Box
<1>4. ASSUME NEW b \in Boxes
      PROVE  /\ box'[b].touched = box[b].touched /\ box'[b].timer = bs[b].timer
             /\ box[b].touched => box'[b] = bs[b]
  BY <1>1, <1>3, FollowingType
<1>5. BoxesHoldTheTyped'
  <2> SUFFICES ASSUME open, NEW b \in Boxes
               PROVE  /\ box'[b].touched => Visible(b)' /\ box'[b].text = typed[KeyOf(b, lang)]
                      /\ box'[b].timer # NoScribble => box'[b].touched /\ box'[b].timer = box'[b].text
    BY DEF BoxesHoldTheTyped
  <2>1. Visible(b)' = Visible(b)
    BY DEF Visible
  <2> QED
    BY <1>3, <1>4, <2>1 DEF PlayInv, BoxesHoldTheTyped
<1>6. OrphansHoldTheTyped'
  BY DEF PlayInv, OrphansHoldTheTyped
<1>7. ScribblesAreKept'
  <2> SUFFICES ASSUME NEW k \in DraftKeys
               PROVE  \/ typed[k] \in {NoScribble, drafts'[k]} \/ k \in others'
                      \/ \E b \in Boxes : Visible(b)' /\ KeyOf(b, lang) = k /\ box'[b].timer = typed[k]
                      \/ [key |-> k, text |-> typed[k]] \in orphans'
    BY DEF ScribblesAreKept
  <2>1. \A b \in Boxes : Visible(b)' = Visible(b)
    BY DEF Visible
  <2>2. CASE [key |-> k, text |-> typed[k]] \in orphans
    BY <2>2
  <2>3. CASE \E b \in Boxes : Visible(b) /\ KeyOf(b, lang) = k /\ box[b].timer = typed[k]
    BY <1>3, <1>4, <2>1, <2>3
  <2>4. CASE typed[k] = drafts[k] /\ typed[k] # NoScribble
    BY <2>4 DEF MaySave
  <2> QED
    BY <2>2, <2>3, <2>4 DEF PlayInv, PlaygroundKeepsUp, ScribblesAreKept
<1>8. UntouchedFollows'
  <2> SUFFICES ASSUME NEW b \in Boxes, Visible(b)', ~box'[b].touched
               PROVE  box'[b].text = Hydrated(drafts', KeyOf(b, lang)).text
    BY DEF UntouchedFollows
  <2>1. open /\ ~bs[b].touched
    BY <1>3, <1>4 DEF Visible
  <2> QED
    BY <1>1, <2>1, FollowingType
<1> QED
  BY <1>2, <1>5, <1>6, <1>7, <1>8

\* A box's timer saves what was typed in it last.
LEMMA TimersFireSoundly == ASSUME PlayInv, NEW b \in Boxes, TimerFires(b) PROVE PlayInv'
<1> USE DEF TimerFires, playRuns, lab, playPast
<1> DEFINE k == KeyOf(b, lang)
           bs == [box EXCEPT ![b].timer = NoScribble]
<1>1. /\ lang \in Langs /\ box \in [Boxes -> Box] /\ drafts \in [DraftKeys -> Saved \cup {Starter}]
      /\ k \in DraftKeys
  BY KeysOfBoxes DEF PlayInv, PlayTypes, PlayTypeOK
<1>2. box[b] \in Box /\ box[b].timer \in Shown /\ box[b].timer = typed[k]
  BY <1>1 DEF PlayInv, BoxesHoldTheTyped, Visible, Box
<1>3. drafts' = [drafts EXCEPT ![k] = box[b].timer] /\ box' = Follow(drafts', bs)
  BY DEF Persist
<1>4. drafts' \in [DraftKeys -> Saved \cup {Starter}]
  BY <1>1, <1>2, <1>3 DEF Saved, Shown
<1>5. bs \in [Boxes -> Box]
  BY <1>1 DEF Box
<1>6. \A c \in Boxes : \/ bs[c] = box[c]
                     \/ /\ Visible(c) /\ bs[c] = [box[c] EXCEPT !.timer = NoScribble]
                        /\ box[c].timer # NoScribble => drafts'[KeyOf(c, lang)] = typed[KeyOf(c, lang)]
  BY <1>1, <1>2, <1>3
<1>7. \A j \in DraftKeys : MaySave(j, drafts'[j])
  BY <1>1, <1>2, <1>3 DEF MaySave
<1>8. open
  BY DEF Visible
<1> HIDE DEF bs
<1>9. /\ box' \in [Boxes -> Box] /\ BoxesHoldTheTyped' /\ OrphansHoldTheTyped'
      /\ ScribblesAreKept' /\ UntouchedFollows'
  <2>1. UNCHANGED <<open, lang, typed, others, orphans>>
    OBVIOUS
  <2> QED
    BY <1>3, <1>4, <1>5, <1>6, <1>7, <1>8, <2>1, SavingIsSound
<1> QED
  BY <1>4, <1>9 DEF PlayInv, PlayTypes, PlayTypeOK, PlaygroundKeepsUp, PreviewIsLatest, FramesAreAsked

\* So does the timer of a box that is gone.
LEMMA OrphansFireSoundly == ASSUME PlayInv, NEW o \in orphans, OrphanFires(o) PROVE PlayInv'
<1> USE DEF OrphanFires, playRuns, lab, playPast
<1>1. /\ box \in [Boxes -> Box] /\ drafts \in [DraftKeys -> Saved \cup {Starter}]
      /\ o.key \in DraftKeys /\ o.text \in Shown /\ o.text = typed[o.key]
  BY DEF PlayInv, PlayTypes, PlayTypeOK, OrphansHoldTheTyped
<1>2. /\ drafts' = [drafts EXCEPT ![o.key] = o.text]
      /\ box' = IF open THEN Follow(drafts', box) ELSE box
      /\ orphans' = orphans \ {o}
  BY DEF Persist
<1>3. drafts' \in [DraftKeys -> Saved \cup {Starter}]
  BY <1>1, <1>2 DEF Saved, Shown
<1>4. \A j \in DraftKeys : MaySave(j, drafts'[j])
  BY <1>1, <1>2 DEF MaySave
<1>5. orphans' \subseteq orphans /\ \A q \in orphans : q \in orphans' \/ drafts'[q.key] = typed[q.key]
  BY <1>1, <1>2
<1>6. /\ box' \in [Boxes -> Box] /\ BoxesHoldTheTyped' /\ OrphansHoldTheTyped'
      /\ ScribblesAreKept' /\ UntouchedFollows'
  <2>1. UNCHANGED <<open, lang, typed, others>>
    OBVIOUS
  <2> QED
    BY <1>1, <1>2, <1>3, <1>4, <1>5, <2>1, SavingIsSound
<1> QED
  BY <1>3, <1>5, <1>6 DEF PlayInv, PlayTypes, PlayTypeOK, PlaygroundKeepsUp, PreviewIsLatest, FramesAreAsked

\* The text of a box on the page is what was typed last, or what the record has.
LEMMA BoxesMaySave ==
    ASSUME PlayInv, NEW b \in Boxes, Visible(b)
    PROVE  /\ box[b].text \in Saved \cup {Starter} /\ MaySave(KeyOf(b, lang), box[b].text)
           /\ box[b].timer # NoScribble => box[b].text = typed[KeyOf(b, lang)]
<1>1. /\ box[b] \in Box /\ lang \in Langs /\ KeyOf(b, lang) \in DraftKeys
      /\ drafts \in [DraftKeys -> Saved \cup {Starter}]
  BY KeysOfBoxes DEF PlayInv, PlayTypes, PlayTypeOK
<1>2. CASE box[b].touched
  BY <1>1, <1>2 DEF PlayInv, BoxesHoldTheTyped, Visible, MaySave, Box, Saved, Shown
<1>3. CASE ~box[b].touched
  <2>1. box[b].text = IF drafts[KeyOf(b, lang)] = NoScribble THEN Starter ELSE drafts[KeyOf(b, lang)]
    BY <1>1, <1>3, HydratedType DEF PlayInv, PlaygroundKeepsUp, UntouchedFollows
  <2>2. box[b].timer = NoScribble
    BY <1>3 DEF PlayInv, BoxesHoldTheTyped, Visible
  <2> QED
    BY <1>1, <1>3, <2>1, <2>2 DEF MaySave, Box, Saved, Shown
<1> QED
  BY <1>2, <1>3

\* A run saves the program it runs.
LEMMA RunsSaveSoundly == ASSUME PlayInv, RunCode PROVE PlayInv'
<1> USE DEF RunCode, lab, playPast
<1> DEFINE k == KeyOf("code", lang)
           bs == [box EXCEPT !["code"].timer = NoScribble]
<1>1. /\ lang \in Langs /\ box \in [Boxes -> Box] /\ drafts \in [DraftKeys -> Saved \cup {Starter}]
      /\ "code" \in Boxes /\ k \in DraftKeys /\ Visible("code")
  BY KeysOfBoxes DEF PlayInv, PlayTypes, PlayTypeOK, Visible, Boxes
<1>2. /\ box["code"].text \in Saved \cup {Starter} /\ MaySave(k, box["code"].text)
      /\ box["code"].timer # NoScribble => box["code"].text = typed[k]
  BY <1>1, BoxesMaySave
<1>3. drafts' = [drafts EXCEPT ![k] = box["code"].text] /\ box' = Follow(drafts', bs)
  BY DEF Persist
<1>4. drafts' \in [DraftKeys -> Saved \cup {Starter}]
  BY <1>1, <1>2, <1>3
<1>5. bs \in [Boxes -> Box]
  BY <1>1 DEF Box
<1>6. \A c \in Boxes : \/ bs[c] = box[c]
                     \/ /\ Visible(c) /\ bs[c] = [box[c] EXCEPT !.timer = NoScribble]
                        /\ box[c].timer # NoScribble => drafts'[KeyOf(c, lang)] = typed[KeyOf(c, lang)]
  BY <1>1, <1>2, <1>3
<1>7. \A j \in DraftKeys : MaySave(j, drafts'[j])
  <2> TAKE j \in DraftKeys
  <2>1. CASE j = k
    BY <1>1, <1>2, <1>3, <2>1
  <2>2. CASE j # k
    BY <1>1, <1>3, <2>2 DEF MaySave
  <2> QED
    BY <2>1, <2>2
<1> HIDE DEF bs
<1>8. /\ box' \in [Boxes -> Box] /\ BoxesHoldTheTyped' /\ OrphansHoldTheTyped'
      /\ ScribblesAreKept' /\ UntouchedFollows'
  <2>1. UNCHANGED <<open, lang, typed, others, orphans>> /\ open
    OBVIOUS
  <2> QED
    BY <1>3, <1>4, <1>5, <1>6, <1>7, <2>1, SavingIsSound
<1>9. runs' \in [Langs -> BOOLEAN]
  BY <1>1 DEF PlayInv, PlayTypes
<1> QED
  BY <1>4, <1>8, <1>9 DEF PlayInv, PlayTypes, PlayTypeOK, PlaygroundKeepsUp, PreviewIsLatest, FramesAreAsked

\* A preview saves what it shows.
LEMMA PreviewsSaveSoundly == ASSUME PlayInv, UpdatePreview PROVE PlayInv'
<1> USE DEF UpdatePreview, playRuns
<1> DEFINE bs == [box EXCEPT !["dom-html"].timer = NoScribble, !["dom-js"].timer = NoScribble]
<1>1. /\ lang = "js" /\ open /\ box \in [Boxes -> Box] /\ drafts \in [DraftKeys -> Saved \cup {Starter}]
      /\ {"dom-html", "dom-js"} \subseteq Boxes /\ {"dom-html", "dom-js"} \subseteq DraftKeys
      /\ Visible("dom-html") /\ Visible("dom-js")
      /\ KeyOf("dom-html", lang) = "dom-html" /\ KeyOf("dom-js", lang) = "dom-js"
  BY DEF PlayInv, PlayTypes, PlayTypeOK, Visible, Boxes, DraftKeys, KeyOf
<1>2. \A b \in {"dom-html", "dom-js"} :
        /\ box[b].text \in Saved \cup {Starter} /\ MaySave(b, box[b].text)
        /\ box[b].timer # NoScribble => box[b].text = typed[b]
  <2> TAKE b \in {"dom-html", "dom-js"}
  <2>1. b \in Boxes /\ Visible(b) /\ KeyOf(b, lang) = b
    BY <1>1
  <2> QED
    BY <2>1, BoxesMaySave
<1>3. /\ drafts' = [drafts EXCEPT !["dom-html"] = box["dom-html"].text, !["dom-js"] = box["dom-js"].text]
      /\ box' = Follow(drafts', bs)
  BY DEF Persist
<1>4. /\ drafts' \in [DraftKeys -> Saved \cup {Starter}]
      /\ \A j \in DraftKeys : drafts'[j] = IF j \in {"dom-html", "dom-js"} THEN box[j].text ELSE drafts[j]
  BY <1>1, <1>2, <1>3
<1>5. /\ bs \in [Boxes -> Box]
      /\ \A c \in Boxes : bs[c] = IF c \in {"dom-html", "dom-js"} THEN [box[c] EXCEPT !.timer = NoScribble] ELSE box[c]
  BY <1>1 DEF Box
<1>6. \A c \in Boxes : \/ bs[c] = box[c]
                     \/ /\ Visible(c) /\ bs[c] = [box[c] EXCEPT !.timer = NoScribble]
                        /\ box[c].timer # NoScribble => drafts'[KeyOf(c, lang)] = typed[KeyOf(c, lang)]
  BY <1>1, <1>2, <1>4, <1>5
<1>7. \A j \in DraftKeys : MaySave(j, drafts'[j])
  <2> TAKE j \in DraftKeys
  <2>1. CASE j \in {"dom-html", "dom-js"}
    BY <1>2, <1>4, <2>1
  <2>2. CASE j \notin {"dom-html", "dom-js"}
    BY <1>4, <2>2 DEF MaySave
  <2> QED
    BY <2>1, <2>2
<1> HIDE DEF bs
<1>8. /\ box' \in [Boxes -> Box] /\ BoxesHoldTheTyped' /\ OrphansHoldTheTyped'
      /\ ScribblesAreKept' /\ UntouchedFollows'
  <2>1. UNCHANGED <<open, lang, typed, others, orphans>>
    OBVIOUS
  <2> QED
    BY <1>1, <1>3, <1>4, <1>5, <1>6, <1>7, <2>1, SavingIsSound
<1>9. payload' = asked' /\ preview' = Nothing
  OBVIOUS
<1> QED
  BY <1>4, <1>8, <1>9 DEF PlayInv, PlayTypes, PlayTypeOK, PlaygroundKeepsUp, PreviewIsLatest, FramesAreAsked

\* A draft from another device replaces what is in the record only.
LEMMA RemoteIsSound ==
    ASSUME PlayInv, NEW k \in DraftKeys, NEW x \in Scribbles, Remote(k, x)
    PROVE  PlayInv'
<1> USE DEF Remote, playRuns, lab
<1>1. box \in [Boxes -> Box] /\ drafts \in [DraftKeys -> Saved \cup {Starter}]
  BY DEF PlayInv, PlayTypes, PlayTypeOK
<1>2. drafts' = [drafts EXCEPT ![k] = x] /\ box' = IF open THEN Follow(drafts', box) ELSE box
  OBVIOUS
<1>3. drafts' \in [DraftKeys -> Saved \cup {Starter}]
  BY <1>1, <1>2 DEF Saved
<1>4. \A j \in DraftKeys : MaySave(j, drafts'[j]) \/ j \in others'
  BY <1>1, <1>2 DEF MaySave
<1>5. /\ box' \in [Boxes -> Box] /\ BoxesHoldTheTyped' /\ OrphansHoldTheTyped'
      /\ ScribblesAreKept' /\ UntouchedFollows'
  <2>1. UNCHANGED <<open, lang, typed, orphans>> /\ others \subseteq others'
    OBVIOUS
  <2> QED
    BY <1>1, <1>2, <1>3, <1>4, <2>1, SavingIsSound
<1> QED
  BY <1>3, <1>5 DEF PlayInv, PlayTypes, PlayTypeOK, PlaygroundKeepsUp, PreviewIsLatest, FramesAreAsked

\* Steps that leave the boxes, the drafts and the timers alone.
LEMMA QuietStepsAreSound ==
    ASSUME PlayInv, UNCHANGED <<open, lang, box, drafts, orphans, typed, others>>,
           result' \in Langs \cup {"none"}, runs' \in [Langs -> BOOLEAN],
           FramesAreAsked', PreviewIsLatest'
    PROVE  PlayInv'
<1>1. PlayTypes'
  BY DEF PlayInv, PlayTypes, PlayTypeOK
<1>2. \A b \in Boxes : Visible(b)' = Visible(b)
  BY DEF Visible
<1>3. ScribblesAreKept' /\ UntouchedFollows'
  BY <1>2 DEF PlayInv, PlaygroundKeepsUp, ScribblesAreKept, UntouchedFollows
<1> QED
  BY <1>1, <1>2, <1>3 DEF PlayInv, BoxesHoldTheTyped, OrphansHoldTheTyped, PlaygroundKeepsUp

\* Results and frames that come change no text.
LEMMA ResultsComeSoundly ==
    ASSUME PlayInv, (\E found \in BOOLEAN : Probed(found)) \/ (\E l \in Langs : RunEnds(l)) \/ FrameLoads
    PROVE  PlayInv'
<1>1. UNCHANGED <<open, lang, box, drafts, orphans, typed, others>>
  BY DEF Probed, RunEnds, FrameLoads, playRuns, lab, playPast
<1>2. result' \in Langs \cup {"none"} /\ runs' \in [Langs -> BOOLEAN]
  BY DEF Probed, RunEnds, FrameLoads, playRuns, PlayInv, PlayTypes, PlayTypeOK
<1>3. FramesAreAsked' /\ PreviewIsLatest'
  BY DEF Probed, RunEnds, FrameLoads, lab, playPast, PlayInv, PlaygroundKeepsUp, FramesAreAsked, PreviewIsLatest
<1> QED
  BY <1>1, <1>2, <1>3, QuietStepsAreSound

\* A page that opens shows the record.
LEMMA OpeningIsSound == ASSUME PlayInv, NEW l \in Langs, OpenPlayground(l) PROVE PlayInv'
<1> USE DEF OpenPlayground
<1>1. drafts \in [DraftKeys -> Saved \cup {Starter}]
  BY DEF PlayInv, PlayTypes, PlayTypeOK
<1>2. \A b \in Boxes : box'[b] = Hydrated(drafts, KeyOf(b, l)) /\ KeyOf(b, l) \in DraftKeys
  BY KeysOfBoxes
<1>3. \A b \in Boxes : box'[b] \in Box /\ box'[b].timer = NoScribble /\ ~box'[b].touched
  BY <1>1, <1>2, HydratedType
<1>4. PlayTypes'
  BY <1>3 DEF PlayInv, PlayTypes, PlayTypeOK
<1>5. BoxesHoldTheTyped' /\ OrphansHoldTheTyped'
  BY <1>3 DEF BoxesHoldTheTyped, OrphansHoldTheTyped
<1>6. ScribblesAreKept'
  BY DEF PlayInv, PlaygroundKeepsUp, ScribblesAreKept, Visible
<1>7. UntouchedFollows'
  BY <1>2 DEF UntouchedFollows
<1> QED
  BY <1>4, <1>5, <1>6, <1>7 DEF PlayInv, PlaygroundKeepsUp, PreviewIsLatest, FramesAreAsked

\* What is typed is held by the timer of its box.
LEMMA TypingIsSound ==
    ASSUME PlayInv, NEW b \in Boxes, NEW x \in Scribbles, Type(b, x)
    PROVE  PlayInv'
<1> USE DEF Type, playRuns, lab
<1> DEFINE k == KeyOf(b, lang)
           new == [text |-> x, touched |-> TRUE, timer |-> x]
<1>1. /\ lang \in Langs /\ open /\ box \in [Boxes -> Box] /\ k \in DraftKeys
      /\ typed \in [DraftKeys -> Scribbles \cup {NoScribble}]
      /\ \A c \in Boxes : KeyOf(c, lang) \in DraftKeys /\ (KeyOf(c, lang) = k => c = b)
  BY KeysOfBoxes DEF PlayInv, PlayTypes, PlayTypeOK, Visible
<1>2. new \in Box
  BY DEF Box, Shown
<1>3. /\ box' = [box EXCEPT ![b] = new] /\ typed' = [typed EXCEPT ![k] = x]
      /\ box' \in [Boxes -> Box] /\ typed' \in [DraftKeys -> Scribbles \cup {NoScribble}]
  BY <1>1, <1>2
<1>4. PlayTypes'
  BY <1>3 DEF PlayInv, PlayTypes, PlayTypeOK
<1>5. \A c \in Boxes : Visible(c)' = Visible(c)
  BY DEF Visible
<1>6. BoxesHoldTheTyped'
  <2> SUFFICES ASSUME NEW c \in Boxes
               PROVE  /\ box'[c].touched => Visible(c)' /\ box'[c].text = typed'[KeyOf(c, lang)]
                      /\ box'[c].timer # NoScribble => box'[c].touched /\ box'[c].timer = box'[c].text
    BY DEF BoxesHoldTheTyped
  <2>1. CASE c = b
    BY <1>1, <1>3, <1>5, <2>1
  <2>2. CASE c # b
    BY <1>1, <1>3, <1>5, <2>2 DEF PlayInv, BoxesHoldTheTyped
  <2> QED
    BY <2>1, <2>2
<1>7. \A o \in orphans : o.key # k
  <2> SUFFICES ASSUME NEW o \in orphans, o.key = k PROVE FALSE
    OBVIOUS
  <2>1. lang = "cs" /\ o.key \in {"dom-html", "dom-js"}
    BY <1>1 DEF PlayInv, OrphansHoldTheTyped
  <2>2. b = "code"
    BY <2>1 DEF Visible
  <2> QED
    BY <1>1, <2>1, <2>2, KeysOfBoxes
<1>8. OrphansHoldTheTyped'
  BY <1>1, <1>3, <1>7 DEF PlayInv, PlayTypes, PlayTypeOK, OrphansHoldTheTyped
<1>9. ScribblesAreKept'
  <2> SUFFICES ASSUME NEW j \in DraftKeys
               PROVE  \/ typed'[j] \in {NoScribble, drafts[j]} \/ j \in others'
                      \/ \E c \in Boxes : Visible(c)' /\ KeyOf(c, lang) = j /\ box'[c].timer = typed'[j]
                      \/ [key |-> j, text |-> typed'[j]] \in orphans
    BY DEF ScribblesAreKept
  <2>1. CASE j = k
    <3>1. box'[b].timer = typed'[j] /\ Visible(b)'
      BY <1>1, <1>3, <1>5, <2>1
    <3> QED
      BY <2>1, <3>1
  <2>2. CASE j # k
    <3>1. typed'[j] = typed[j] /\ (j \in others => j \in others')
      BY <1>1, <1>3, <2>2
    <3>2. \A c \in Boxes : KeyOf(c, lang) = j => box'[c] = box[c]
      BY <1>1, <1>3, <2>2
    <3> QED
      BY <1>5, <3>1, <3>2 DEF PlayInv, PlaygroundKeepsUp, ScribblesAreKept
  <2> QED
    BY <2>1, <2>2
<1>10. UntouchedFollows'
  BY <1>1, <1>3, <1>5 DEF PlayInv, PlaygroundKeepsUp, UntouchedFollows
<1> QED
  BY <1>4, <1>6, <1>8, <1>9, <1>10
  DEF PlayInv, PlaygroundKeepsUp, PreviewIsLatest, FramesAreAsked

\* The timers of boxes that go: each holds the text typed last in its box.
LEMMA LeftHoldsTheTyped ==
    ASSUME PlayInv, NEW S \in SUBSET Boxes
    PROVE  /\ Left(S) \subseteq [key: DraftKeys, text: Shown]
           /\ \A o \in Left(S) : o.text = typed[o.key]
           /\ \A o \in Left(S) : \E b \in S : Visible(b) /\ o.key = KeyOf(b, lang)
           /\ \A b \in S : Visible(b) /\ box[b].timer # NoScribble =>
                 [key |-> KeyOf(b, lang), text |-> box[b].timer] \in Left(S)
<1>1. lang \in Langs /\ box \in [Boxes -> Box]
  BY DEF PlayInv, PlayTypes, PlayTypeOK
<1>2. ASSUME NEW b \in S, Visible(b), box[b].timer # NoScribble
      PROVE  /\ KeyOf(b, lang) \in DraftKeys /\ box[b].timer \in Shown
             /\ box[b].timer = typed[KeyOf(b, lang)]
  BY <1>1, <1>2, KeysOfBoxes DEF PlayInv, BoxesHoldTheTyped, Visible, Box
<1>3. \A o \in Left(S) : \E b \in S : /\ Visible(b) /\ box[b].timer # NoScribble
                                   /\ o = [key |-> KeyOf(b, lang), text |-> box[b].timer]
  BY DEF Left
<1> QED
  BY <1>2, <1>3 DEF Left

\* A language that is left leaves its timers behind.
LEMMA SelectingIsSound == ASSUME PlayInv, NEW l \in Langs, SelectLang(l) PROVE PlayInv'
<1> USE DEF SelectLang
<1> DEFINE k == KeyOf("code", lang)
           going == IF lang = "js" THEN Left({"dom-html", "dom-js"}) ELSE {}
<1>1. /\ lang \in Langs /\ open /\ box \in [Boxes -> Box] /\ drafts \in [DraftKeys -> Saved \cup {Starter}]
      /\ "code" \in Boxes /\ k \in DraftKeys /\ Visible("code")
      /\ orphans \subseteq [key: DraftKeys, text: Shown]
  BY KeysOfBoxes DEF PlayInv, PlayTypes, PlayTypeOK, Visible, Boxes
<1>2. /\ box["code"].text \in Saved \cup {Starter} /\ MaySave(k, box["code"].text)
      /\ box["code"].timer # NoScribble => box["code"].text = typed[k]
  BY <1>1, BoxesMaySave
<1>3. /\ drafts' = [drafts EXCEPT ![k] = box["code"].text]
      /\ drafts' \in [DraftKeys -> Saved \cup {Starter}]
  BY <1>1, <1>2 DEF Persist
<1>4. \A b \in Boxes : box'[b] = Hydrated(drafts', KeyOf(b, l)) /\ KeyOf(b, l) \in DraftKeys
  BY <1>3, KeysOfBoxes DEF Persist
<1>5. \A b \in Boxes : box'[b] \in Box /\ box'[b].timer = NoScribble /\ ~box'[b].touched
  BY <1>3, <1>4, HydratedType
<1>6. /\ orphans' = orphans \cup going /\ going \subseteq [key: DraftKeys, text: Shown]
      /\ \A o \in going : lang = "js" /\ o.text = typed[o.key] /\ o.key \in {"dom-html", "dom-js"}
  <2>1. {"dom-html", "dom-js"} \in SUBSET Boxes /\ \A b \in {"dom-html", "dom-js"} : KeyOf(b, lang) = b
    BY DEF Boxes, KeyOf
  <2>2. CASE lang = "js"
    BY <2>1, <2>2, LeftHoldsTheTyped
  <2>3. CASE lang # "js"
    BY <2>3
  <2> QED
    BY <2>2, <2>3
<1>7. PlayTypes'
  <2>1. box' \in [Boxes -> Box]
    BY <1>5
  <2> QED
    BY <1>1, <1>3, <1>6, <2>1 DEF PlayInv, PlayTypes, PlayTypeOK
<1>8. BoxesHoldTheTyped'
  BY <1>5 DEF BoxesHoldTheTyped
<1>9. OrphansHoldTheTyped'
  <2>1. l = "js" => lang = "cs" /\ orphans' = {}
    BY <1>1, <1>6 DEF Langs
  <2>2. l # "js" => l = "cs" /\ lang' = "cs"
    BY DEF Langs
  <2> QED
    BY <1>1, <1>6, <2>1, <2>2 DEF PlayInv, OrphansHoldTheTyped
<1>10. ScribblesAreKept'
  <2> SUFFICES ASSUME NEW j \in DraftKeys
               PROVE  \/ typed[j] \in {NoScribble, drafts'[j]} \/ j \in others
                      \/ [key |-> j, text |-> typed[j]] \in orphans'
    BY DEF ScribblesAreKept
  <2>1. CASE typed[j] = drafts[j] /\ typed[j] # NoScribble
    BY <1>1, <1>2, <1>3, <2>1 DEF MaySave
  <2>2. CASE [key |-> j, text |-> typed[j]] \in orphans
    BY <1>6, <2>2
  <2>3. ASSUME NEW b \in Boxes, Visible(b), KeyOf(b, lang) = j, box[b].timer = typed[j], typed[j] # NoScribble
        PROVE  typed[j] = drafts'[j] \/ [key |-> j, text |-> typed[j]] \in orphans'
    <3>1. CASE b = "code"
      BY <1>1, <1>2, <1>3, <2>3, <3>1
    <3>2. CASE b # "code"
      <4>1. lang = "js" /\ b \in {"dom-html", "dom-js"} /\ {"dom-html", "dom-js"} \in SUBSET Boxes
        BY <2>3, <3>2 DEF Visible, Boxes
      <4>2. [key |-> j, text |-> typed[j]] \in going
        BY <2>3, <4>1, LeftHoldsTheTyped
      <4> QED
        BY <1>6, <4>2
    <3> QED
      BY <3>1, <3>2
  <2> QED
    BY <2>1, <2>2, <2>3 DEF PlayInv, PlaygroundKeepsUp, ScribblesAreKept
<1>11. UntouchedFollows'
  BY <1>4 DEF UntouchedFollows
<1> QED
  BY <1>7, <1>8, <1>9, <1>10, <1>11 DEF PlayInv, PlaygroundKeepsUp, PreviewIsLatest, FramesAreAsked

\* So does a page that is left.
LEMMA ClosingIsSound == ASSUME PlayInv, ClosePlayground PROVE PlayInv'
<1> USE DEF ClosePlayground, lab, playPast
<1>1. Boxes \in SUBSET Boxes /\ orphans' = orphans \cup Left(Boxes)
  OBVIOUS
<1>2. PlayTypes'
  BY <1>1, LeftHoldsTheTyped DEF PlayInv, PlayTypes, PlayTypeOK
<1>3. BoxesHoldTheTyped' /\ UntouchedFollows'
  BY DEF BoxesHoldTheTyped, UntouchedFollows, Visible
<1>4. OrphansHoldTheTyped'
  BY <1>1, LeftHoldsTheTyped DEF PlayInv, OrphansHoldTheTyped
<1>5. ScribblesAreKept'
  <2> SUFFICES ASSUME NEW j \in DraftKeys
               PROVE  \/ typed[j] \in {NoScribble, drafts[j]} \/ j \in others
                      \/ [key |-> j, text |-> typed[j]] \in orphans'
    BY DEF ScribblesAreKept
  <2>1. ASSUME NEW b \in Boxes, Visible(b), KeyOf(b, lang) = j, box[b].timer = typed[j], typed[j] # NoScribble
        PROVE  [key |-> j, text |-> typed[j]] \in orphans'
    BY <1>1, <2>1, LeftHoldsTheTyped
  <2> QED
    BY <1>1, <2>1 DEF PlayInv, PlaygroundKeepsUp, ScribblesAreKept
<1> QED
  BY <1>2, <1>3, <1>4, <1>5 DEF PlayInv, PlaygroundKeepsUp, PreviewIsLatest, FramesAreAsked

\* What was typed last in the playground is in the record or about to be.
THEOREM PlayInvariant == PlaySpec => []PlayInv
<1>1. ASSUME PlayInv, [PlayNext]_playVars PROVE PlayInv'
  <2>1. CASE UNCHANGED playVars
    <3>1. UNCHANGED <<open, lang, box, drafts, orphans, typed, others, result, runs, payload, preview, asked>>
      BY <2>1 DEF playVars, playRuns, lab, playPast
    <3>2. FramesAreAsked' /\ PreviewIsLatest' /\ result' \in Langs \cup {"none"} /\ runs' \in [Langs -> BOOLEAN]
      BY <1>1, <3>1 DEF PlayInv, PlayTypes, PlayTypeOK, PlaygroundKeepsUp, FramesAreAsked, PreviewIsLatest
    <3> QED
      BY <1>1, <3>1, <3>2, QuietStepsAreSound
  <2>2. CASE PlayNext
    BY <1>1, <2>2, OpeningIsSound, SelectingIsSound, ResultsComeSoundly, TimersFireSoundly, TypingIsSound,
       OrphansFireSoundly, RemoteIsSound, RunsSaveSoundly, PreviewsSaveSoundly, ClosingIsSound DEF PlayNext
  <2> QED
    BY <1>1, <2>1, <2>2
<1> QED
  BY <1>1, PlayStarts, PTL DEF PlaySpec

-----------------------------------------------------------------------------

\* The frame of the web edition (WebFrame).

Palette == [open: BOOLEAN, query: Queries, active: Int, dark: BOOLEAN]
Theme == [os: BOOLEAN, stored: Prefs, painted: BOOLEAN, says: [Controls -> Prefs]]
Upload == [status: {"synced", "syncing", "error"}, timer: BOOLEAN, out: Nat]

FrameTypes ==
    /\ palette \in Palette /\ palette.active >= -1 /\ drawer \in BOOLEAN /\ menu \in BOOLEAN
    /\ theme \in Theme /\ chosen \in Prefs /\ elsewhere \in BOOLEAN
    /\ leaving \in {"none", "busy", "stuck", "deleted"}
    /\ upload \in Upload /\ typedEmail \in BOOLEAN /\ overlap \in BOOLEAN

FrameInv == FrameTypes /\ FrameIsHonest

\* The frame's types as the run checks them.
LEMMA FrameTypesAre == FrameTypes => FrameTypeOK
BY DEF FrameTypes, FrameTypeOK, Palette

\* The palette opens on the query that matches all.
LEMMA ShutType == /\ NoQuery \in Queries /\ Shut \in Palette /\ Shut.active = 0 /\ ~Shut.open
                  /\ \A q \in Queries : RowsFor[q] \in Nat
<1>1. NoQuery \in Queries
  BY FrameAssumption DEF NoQuery
<1> QED
  BY <1>1, FrameAssumption DEF Shut, Palette

\* The first frame shows the theme that is stored.
LEMMA FrameStarts == FrameInit => FrameInv
<1> SUFFICES ASSUME FrameInit PROVE FrameInv
  OBVIOUS
<1> USE DEF FrameInit
<1>1. PICK os \in BOOLEAN, p \in Prefs :
         theme = [os |-> os, stored |-> p, painted |-> p = "dark" \/ (p = "system" /\ os),
                  says |-> [c \in Controls |-> p]]
  OBVIOUS
<1>2. (p = "dark" \/ (p = "system" /\ os)) \in BOOLEAN
  OBVIOUS
<1>3. theme \in Theme /\ theme.stored = p /\ theme.os = os /\ theme.painted = (p = "dark" \/ (p = "system" /\ os))
  BY <1>1, <1>2 DEF Theme
<1>4. upload \in Upload /\ upload.out = 0 /\ ~upload.timer
  BY DEF Upload
<1>5. FrameTypes
  <2>1. palette \in Palette /\ palette.active >= -1
    BY ShutType
  <2>2. chosen \in Prefs
    BY <1>3
  <2> QED
    BY <1>3, <1>4, <2>1, <2>2 DEF FrameTypes
<1> QED
  BY <1>3, <1>4, <1>5, ShutType DEF FrameInv, FrameIsHonest, HighlightIsARow, PaintedAsChosen, SavedIsHonest,
     DeletionIsTyped, ResolveTheme

\* Whether a preference is dark.
LEMMA ResolvesToBool == ASSUME NEW pref \in Prefs PROVE ResolveTheme(pref) \in BOOLEAN
BY DEF ResolveTheme

\* The promises of the palette and the theme need nothing of the rest, nor it of them.
LEMMA SurfacesAreSound ==
    ASSUME FrameInv, palette' \in Palette, palette'.active >= -1, drawer' \in BOOLEAN, menu' \in BOOLEAN,
           UNCHANGED <<leaving, upload, framePast>>,
           theme' \in Theme, chosen' \in Prefs, elsewhere' \in BOOLEAN,
           HighlightIsARow', PaintedAsChosen'
    PROVE  FrameInv'
<1> USE DEF framePast
<1>1. FrameTypes'
  BY DEF FrameInv, FrameTypes
<1>2. SavedIsHonest' /\ DeletionIsTyped'
  BY DEF FrameInv, FrameIsHonest, SavedIsHonest, DeletionIsTyped, SyncBadge
<1> QED
  BY <1>1, <1>2 DEF FrameInv, FrameIsHonest

\* Another query starts at its first row.
LEMMA NewQuery ==
    ASSUME NEW p \in Palette, NEW q \in Queries
    PROVE  [p EXCEPT !.query = q, !.active = 0] =
               [open |-> p.open, query |-> q, active |-> 0, dark |-> p.dark]
<1>1. PICK r : r = [p EXCEPT !.query = q]
  OBVIOUS
<1>2. r = [open |-> p.open, query |-> q, active |-> p.active, dark |-> p.dark]
  BY <1>1 DEF Palette
<1>3. [r EXCEPT !.active = 0] = [open |-> p.open, query |-> q, active |-> 0, dark |-> p.dark]
  BY <1>2
<1> QED
  BY <1>1, <1>3

\* The theme stays: the palette may open, and says what is painted.
LEMMA PaletteIsSound ==
    ASSUME FrameInv,
           \/ \E b \in BOOLEAN : OpenPalette(b) \/ Arrow(b)
           \/ \E q \in Queries : TypeQuery(q)
           \/ Escape \/ ClickBackdrop \/ ToggleDrawer \/ ToggleMenu
    PROVE  FrameInv'
<1>1. /\ palette \in Palette /\ palette.active >= -1 /\ drawer \in BOOLEAN /\ menu \in BOOLEAN
      /\ theme \in Theme /\ chosen \in Prefs /\ elsewhere \in BOOLEAN
  BY DEF FrameInv, FrameTypes
<1>2. UNCHANGED <<themes, leaving, upload, framePast>>
  BY DEF OpenPalette, Arrow, TypeQuery, Escape, ClickBackdrop, ToggleDrawer, ToggleMenu
<1>3. drawer' \in BOOLEAN /\ menu' \in BOOLEAN
  BY <1>1 DEF OpenPalette, Arrow, TypeQuery, Escape, ClickBackdrop, ToggleDrawer, ToggleMenu
<1>4. /\ palette' \in Palette /\ palette'.active >= -1 /\ HighlightIsARow'
      /\ palette'.open => \/ palette.open /\ palette'.dark = palette.dark
                          \/ palette'.dark = ResolveTheme(theme.stored)
  <2>1. ASSUME NEW b \in BOOLEAN, OpenPalette(b)
        PROVE  /\ palette' \in Palette /\ palette'.active >= -1 /\ HighlightIsARow'
               /\ palette'.dark = ResolveTheme(theme.stored)
    <3>1. ResolveTheme(theme.stored) \in BOOLEAN
      BY DEF ResolveTheme
    <3>2. palette' = [open |-> TRUE, query |-> NoQuery, active |-> 0, dark |-> ResolveTheme(theme.stored)]
      BY <2>1 DEF OpenPalette, Shut
    <3> QED
      BY <3>1, <3>2, ShutType DEF Palette, HighlightIsARow
  <2>2. ASSUME NEW down \in BOOLEAN, Arrow(down)
        PROVE  /\ palette' \in Palette /\ palette'.active >= -1 /\ HighlightIsARow'
               /\ palette.open /\ palette'.dark = palette.dark
    <3> DEFINE n == RowsFor[palette.query]
               to == IF down THEN (IF palette.active + 1 < n - 1 THEN palette.active + 1 ELSE n - 1)
                     ELSE IF palette.active > 0 THEN palette.active - 1 ELSE 0
    <3>1. n \in Nat /\ palette.active \in Int
      BY <1>1, ShutType DEF Palette
    <3>2. palette.open /\ palette' = [palette EXCEPT !.active = to]
      BY <2>2 DEF Arrow
    <3>3. n > 0 => palette.active \in 0 .. n - 1
      BY <3>2 DEF FrameInv, FrameIsHonest, HighlightIsARow
    <3>4. to \in Int /\ to >= -1 /\ (n > 0 => to \in 0 .. n - 1)
      BY <1>1, <3>1, <3>3
    <3> HIDE DEF to
    <3>5. palette' \in Palette /\ palette'.active = to /\ palette'.query = palette.query
          /\ palette'.dark = palette.dark
      BY <1>1, <3>2, <3>4 DEF Palette
    <3> QED
      BY <3>2, <3>4, <3>5 DEF HighlightIsARow
  <2>3. ASSUME NEW q \in Queries, TypeQuery(q)
        PROVE  /\ palette' \in Palette /\ palette'.active >= -1 /\ HighlightIsARow'
               /\ palette.open /\ palette'.dark = palette.dark
    <3>1. RowsFor[q] \in Nat
      BY ShutType
    <3>2. palette.open /\ palette' = [palette EXCEPT !.query = q, !.active = 0]
      <4> DEFINE p == [palette EXCEPT !.query = q, !.active = 0]
      <4>1. p = [open |-> palette.open, query |-> q, active |-> 0, dark |-> palette.dark]
        BY <1>1, NewQuery
      <4>2. p \in Palette
        BY <1>1, <4>1 DEF Palette
      <4>3. palette' = Clamped(p) /\ palette.open
        BY <2>3 DEF TypeQuery
      <4>4. p.query = q /\ p.active = 0
        BY <4>1
      <4> HIDE DEF p
      <4>5. Clamped(p) = [p EXCEPT !.active = 0]
        BY <3>1, <4>4 DEF Clamped
      <4>6. [p EXCEPT !.active = 0] = p
        BY <4>2, <4>4 DEF Palette
      <4> QED
        BY <4>3, <4>5, <4>6 DEF p
    <3>3. palette' \in Palette /\ palette'.query = q /\ palette'.active = 0 /\ palette'.dark = palette.dark
      <4>1. palette' = [open |-> palette.open, query |-> q, active |-> 0, dark |-> palette.dark]
        BY <1>1, <3>2 DEF Palette
      <4> QED
        BY <1>1, <4>1 DEF Palette
    <3> QED
      BY <3>1, <3>2, <3>3 DEF HighlightIsARow
  <2>4. CASE Escape \/ ClickBackdrop
    BY <2>4, ShutType DEF Escape, ClickBackdrop, HighlightIsARow
  <2>5. CASE ToggleDrawer \/ ToggleMenu
    BY <1>1, <2>5 DEF ToggleDrawer, ToggleMenu, HighlightIsARow
  <2> QED
    BY <2>1, <2>2, <2>3, <2>4, <2>5
<1>5. PaintedAsChosen'
  BY <1>2, <1>4 DEF themes, FrameInv, FrameIsHonest, PaintedAsChosen, ResolveTheme
<1> QED
  BY <1>1, <1>2, <1>3, <1>4, <1>5, SurfacesAreSound DEF themes

\* A preference that is applied is what is stored and painted.
LEMMA ThemesAreApplied ==
    ASSUME theme \in Theme, NEW who, NEW pref \in Prefs, ApplyThemePref(who, pref)
    PROVE  /\ theme' \in Theme /\ chosen' = pref /\ elsewhere' = FALSE
           /\ theme'.stored = pref /\ theme'.os = theme.os /\ theme'.painted = ResolveTheme(pref)
           /\ theme'.painted = ResolveTheme(pref)'
<1>1. ResolveTheme(pref) \in BOOLEAN
  BY ResolvesToBool
<1>2. [c \in Controls |-> IF who \in {c, "boot"} THEN pref ELSE theme.says[c]] \in [Controls -> Prefs]
  BY DEF Theme
<1>3. theme' = [theme EXCEPT !.stored = pref, !.painted = ResolveTheme(pref),
                             !.says = [c \in Controls |-> IF who \in {c, "boot"} THEN pref ELSE theme.says[c]]]
  BY DEF ApplyThemePref
<1>4. /\ theme' \in Theme /\ theme'.stored = pref /\ theme'.os = theme.os
      /\ theme'.painted = ResolveTheme(pref)
  BY <1>1, <1>2, <1>3 DEF Theme
<1>5. ResolveTheme(pref)' = ResolveTheme(pref)
  BY <1>4 DEF ResolveTheme
<1> QED
  BY <1>4, <1>5 DEF ApplyThemePref

\* Whatever chooses a theme paints it.
LEMMA ThemingIsSound ==
    ASSUME FrameInv,
           \/ \E b \in BOOLEAN : Activate(b)
           \/ \E c \in Controls, p \in Prefs : ChooseTheme(c, p)
           \/ MountSettings
           \/ \E p \in Prefs, os \in BOOLEAN : ThemeElsewhere(p, os)
    PROVE  FrameInv'
<1>1. /\ palette \in Palette /\ palette.active >= -1 /\ drawer \in BOOLEAN /\ menu \in BOOLEAN
      /\ theme \in Theme /\ chosen \in Prefs /\ elsewhere \in BOOLEAN
  BY DEF FrameInv, FrameTypes
<1>2. UNCHANGED <<leaving, upload, framePast>>
  BY DEF Activate, ChooseTheme, MountSettings, ThemeElsewhere
<1>3. ASSUME NEW b \in BOOLEAN, Activate(b) PROVE FrameInv'
  <2>1. drawer' \in BOOLEAN /\ menu' \in BOOLEAN /\ palette.open
    BY <1>1, <1>3 DEF Activate
  <2>2. CASE b
    <3>0. PICK pref \in Prefs : pref = IF palette.dark THEN "light" ELSE "dark"
      BY DEF Prefs
    <3>1. ApplyThemePref("palette", pref) /\ palette' = [palette EXCEPT !.dark = ~palette.dark]
      BY <1>3, <2>2, <3>0 DEF Activate
    <3>2. palette' \in Palette /\ palette'.dark = ~palette.dark /\ palette'.open = palette.open
          /\ palette'.query = palette.query /\ palette'.active = palette.active
      BY <1>1, <3>1 DEF Palette
    <3>3. ResolveTheme(pref) = ~palette.dark
      BY <1>1, <3>0 DEF ResolveTheme, Palette
    <3>4. /\ theme' \in Theme /\ chosen' = pref /\ elsewhere' = FALSE /\ theme'.stored = pref
          /\ theme'.painted = ResolveTheme(pref) /\ theme'.painted = ResolveTheme(pref)'
      <4>1. PICK who : who = "palette"
        OBVIOUS
      <4>2. ApplyThemePref(who, pref)
        BY <3>1, <4>1
      <4> QED
        BY <1>1, <4>2, ThemesAreApplied
    <3>5. HighlightIsARow'
      BY <3>2 DEF FrameInv, FrameIsHonest, HighlightIsARow
    <3>6. PaintedAsChosen'
      <4>1. theme'.painted = palette'.dark
        BY <3>2, <3>3, <3>4
      <4>2. ResolveTheme(chosen)' = ResolveTheme(pref)'
        BY <3>4 DEF ResolveTheme
      <4> QED
        BY <3>4, <4>1, <4>2 DEF PaintedAsChosen
    <3> QED
      BY <1>1, <1>2, <2>1, <3>1, <3>2, <3>4, <3>5, <3>6, SurfacesAreSound
  <2>3. CASE ~b
    <3>1. palette' = Shut /\ UNCHANGED themes
      BY <1>3, <2>3 DEF Activate
    <3>2. HighlightIsARow' /\ PaintedAsChosen'
      BY <3>1, ShutType DEF themes, FrameInv, FrameIsHonest, HighlightIsARow, PaintedAsChosen, ResolveTheme
    <3> QED
      BY <1>1, <1>2, <2>1, <3>1, <3>2, ShutType, SurfacesAreSound DEF themes
  <2> QED
    BY <2>2, <2>3
<1>4. ASSUME NEW c \in Controls, NEW p \in Prefs, ChooseTheme(c, p) PROVE FrameInv'
  <2>1. ~palette.open /\ UNCHANGED <<palette, drawer>> /\ menu' \in BOOLEAN /\ ApplyThemePref(c, p)
    BY <1>4 DEF ChooseTheme
  <2>2. /\ theme' \in Theme /\ chosen' = p /\ elsewhere' = FALSE /\ theme'.stored = p
        /\ theme'.painted = ResolveTheme(p)'
    BY <1>1, <2>1, ThemesAreApplied
  <2>3. HighlightIsARow' /\ PaintedAsChosen'
    BY <2>1, <2>2 DEF HighlightIsARow, PaintedAsChosen
  <2> QED
    BY <1>1, <1>2, <2>1, <2>2, <2>3, SurfacesAreSound
<1>5. CASE MountSettings
  <2>1. UNCHANGED <<palette, drawer, menu, chosen, elsewhere>>
    BY <1>5 DEF MountSettings, frameSurfaces
  <2>2. theme' = [theme EXCEPT !.says = [theme.says EXCEPT !["settings"] = theme.stored]]
    BY <1>5 DEF MountSettings
  <2>3. theme.says \in [Controls -> Prefs] /\ theme.stored \in Prefs
    BY <1>1 DEF Theme
  <2>4. /\ theme' \in Theme /\ theme'.stored = theme.stored /\ theme'.painted = theme.painted
        /\ theme'.os = theme.os
    BY <1>1, <2>2, <2>3 DEF Theme
  <2>5. HighlightIsARow' /\ PaintedAsChosen'
    BY <2>1, <2>4 DEF FrameInv, FrameIsHonest, HighlightIsARow, PaintedAsChosen, ResolveTheme
  <2> QED
    BY <1>1, <1>2, <2>1, <2>4, <2>5, SurfacesAreSound
<1>6. ASSUME NEW p \in Prefs, NEW os \in BOOLEAN, ThemeElsewhere(p, os) PROVE FrameInv'
  <2>1. UNCHANGED <<palette, drawer, menu, chosen>> /\ elsewhere' = TRUE
    BY <1>6 DEF ThemeElsewhere, frameSurfaces
  <2>2. theme' \in Theme
    BY <1>1, <1>6 DEF ThemeElsewhere, Theme
  <2>3. HighlightIsARow' /\ PaintedAsChosen'
    BY <2>1 DEF FrameInv, FrameIsHonest, HighlightIsARow, PaintedAsChosen
  <2> QED
    BY <1>1, <1>2, <2>1, <2>2, <2>3, SurfacesAreSound
<1> QED
  BY <1>3, <1>4, <1>5, <1>6

\* A frame that is loaded paints what is stored.
LEMMA LoadingIsSound == ASSUME FrameInv, LoadFrame PROVE FrameInv'
<1> USE DEF LoadFrame
<1>1. theme \in Theme /\ theme.stored \in Prefs
  BY DEF FrameInv, FrameTypes, Theme
<1>2. /\ theme' \in Theme /\ chosen' = theme.stored /\ elsewhere' = FALSE /\ theme'.stored = theme.stored
      /\ theme'.painted = ResolveTheme(theme.stored) /\ theme'.os = theme.os
  BY <1>1, ThemesAreApplied
<1>3. upload' \in Upload /\ upload'.out = 0 /\ ~upload'.timer
  BY DEF Upload
<1>4. FrameTypes'
  <2>1. palette' \in Palette /\ palette'.active >= -1
    BY ShutType
  <2>2. chosen' \in Prefs /\ theme' \in Theme /\ elsewhere' \in BOOLEAN
    BY <1>1, <1>2
  <2>3. leaving' \in {"none", "busy", "stuck", "deleted"} /\ typedEmail' \in BOOLEAN
        /\ drawer' \in BOOLEAN /\ menu' \in BOOLEAN /\ overlap' \in BOOLEAN
    BY DEF FrameInv, FrameTypes
  <2> QED
    BY <1>3, <2>1, <2>2, <2>3 DEF FrameTypes
<1>5. HighlightIsARow' /\ PaintedAsChosen'
  BY <1>2, ShutType DEF HighlightIsARow, PaintedAsChosen, ResolveTheme
<1>6. SavedIsHonest' /\ DeletionIsTyped'
  BY <1>3 DEF FrameInv, FrameIsHonest, SavedIsHonest, DeletionIsTyped
<1> QED
  BY <1>4, <1>5, <1>6 DEF FrameInv, FrameIsHonest

\* The deletion of the account and the badge leave the surfaces and the theme alone.
LEMMA BackgroundIsSound ==
    ASSUME FrameInv,
           \/ \E b \in BOOLEAN : DeleteAccount(b) \/ DeleteAnswered(b) \/ PushEnds(b)
           \/ DeleteUnreached \/ ScheduleSync \/ PushStarts
    PROVE  FrameInv'
<1>1. UNCHANGED <<palette, drawer, menu, theme, chosen, elsewhere>>
  BY DEF DeleteAccount, DeleteAnswered, PushEnds, DeleteUnreached, ScheduleSync, PushStarts,
     frameSurfaces, themes
<1>2. HighlightIsARow' /\ PaintedAsChosen'
  BY <1>1 DEF FrameInv, FrameIsHonest, HighlightIsARow, PaintedAsChosen, ResolveTheme
<1>3. /\ upload \in Upload /\ typedEmail \in BOOLEAN /\ overlap \in BOOLEAN
      /\ leaving \in {"none", "busy", "stuck", "deleted"}
  BY DEF FrameInv, FrameTypes
<1>4. CASE (\E b \in BOOLEAN : DeleteAccount(b) \/ DeleteAnswered(b)) \/ DeleteUnreached
  <2>1. UNCHANGED <<upload, overlap>>
    BY <1>4 DEF DeleteAccount, DeleteAnswered, DeleteUnreached, framePast
  <2>2. SavedIsHonest'
    BY <2>1 DEF FrameInv, FrameIsHonest, SavedIsHonest, SyncBadge
  <2>3. /\ leaving' \in {"none", "busy", "stuck", "deleted"} /\ typedEmail' \in BOOLEAN
        /\ DeletionIsTyped'
    BY <1>3, <1>4 DEF DeleteAccount, DeleteAnswered, DeleteUnreached, framePast, DeletionIsTyped
  <2> QED
    BY <1>1, <1>2, <2>1, <2>2, <2>3 DEF FrameInv, FrameTypes, FrameIsHonest
<1>5. CASE (\E ok \in BOOLEAN : PushEnds(ok)) \/ ScheduleSync \/ PushStarts
  <2>1. UNCHANGED <<leaving, typedEmail>>
    BY <1>5 DEF PushEnds, ScheduleSync, PushStarts, framePast
  <2>2. /\ upload' \in Upload /\ overlap' \in BOOLEAN
        /\ upload'.status = "synced" /\ (upload'.timer \/ upload'.out > 0) => overlap'
    <3>1. ASSUME NEW ok \in BOOLEAN, PushEnds(ok)
          PROVE  /\ upload' \in Upload /\ overlap' \in BOOLEAN
                 /\ upload'.status = "synced" /\ (upload'.timer \/ upload'.out > 0) => overlap'
      <4>1. upload.out \in Nat /\ upload.out > 0 /\ upload.out - 1 \in Nat
        <5>1. upload.out \in Nat
          BY <1>3 DEF Upload
        <5>2. upload.out > 0
          BY <3>1 DEF PushEnds
        <5> QED
          BY <5>1, <5>2
      <4>2. upload' = [upload EXCEPT !.status = IF ok THEN "synced" ELSE "error", !.out = upload.out - 1]
            /\ overlap' = (ok /\ (upload.timer \/ upload.out > 1))
        BY <3>1 DEF PushEnds
      <4>3. /\ upload' \in Upload /\ upload'.timer = upload.timer /\ upload'.out = upload.out - 1
            /\ upload'.status = IF ok THEN "synced" ELSE "error"
        BY <1>3, <4>1, <4>2 DEF Upload
      <4>4. overlap' \in BOOLEAN
        BY <4>2
      <4>5. ASSUME upload'.status = "synced", upload'.timer \/ upload'.out > 0 PROVE overlap'
        BY <4>1, <4>2, <4>3, <4>5
      <4> QED
        BY <4>3, <4>4, <4>5
    <3>2. CASE ScheduleSync
      BY <1>3, <3>2 DEF ScheduleSync, Upload
    <3>3. CASE PushStarts
      <4>1. upload.timer /\ upload' = [upload EXCEPT !.timer = FALSE, !.out = upload.out + 1] /\ overlap' = overlap
        BY <3>3 DEF PushStarts, framePast
      <4>2. upload' \in Upload /\ upload'.status = upload.status
        <5>1. upload.out + 1 \in Nat
          BY <1>3 DEF Upload
        <5>2. upload' = [status |-> upload.status, timer |-> FALSE, out |-> upload.out + 1]
          BY <1>3, <4>1 DEF Upload
        <5> QED
          BY <1>3, <5>1, <5>2 DEF Upload
      <4>3. upload.status = "synced" => overlap
        BY <4>1 DEF FrameInv, FrameIsHonest, SavedIsHonest, SyncBadge
      <4> QED
        BY <1>3, <4>1, <4>2, <4>3
    <3> QED
      BY <1>5, <3>1, <3>2, <3>3
  <2>3. SavedIsHonest'
    <3>1. SyncBadge' = "Saved" => upload'.status = "synced"
      BY <2>2 DEF SyncBadge, Upload
    <3> QED
      BY <2>2, <3>1 DEF SavedIsHonest
  <2>4. DeletionIsTyped'
    BY <2>1 DEF FrameInv, FrameIsHonest, DeletionIsTyped
  <2> QED
    BY <1>1, <1>2, <2>1, <2>2, <2>3, <2>4 DEF FrameInv, FrameTypes, FrameIsHonest
<1> QED
  BY <1>4, <1>5

\* The frame of every page tells the truth.
THEOREM FrameInvariant == FrameSpec => []FrameInv
<1>1. ASSUME FrameInv, [FrameNext]_frameVars PROVE FrameInv'
  <2>1. CASE UNCHANGED frameVars
    BY <1>1, <2>1 DEF frameVars, frameSurfaces, themes, framePast, FrameInv, FrameTypes, FrameIsHonest,
       HighlightIsARow, PaintedAsChosen, SavedIsHonest, DeletionIsTyped, ResolveTheme, SyncBadge
  <2>2. CASE FrameNext
    BY <1>1, <2>2, PaletteIsSound, ThemingIsSound, LoadingIsSound, BackgroundIsSound DEF FrameNext
  <2> QED
    BY <1>1, <2>1, <2>2
<1> QED
  BY <1>1, FrameStarts, PTL DEF FrameSpec

-----------------------------------------------------------------------------

\* The weights of a project's criteria (Notes).

\* Numbers added up, the first n of them.
AddedUp(f, w, n) ==
    f \in [0 .. n -> Nat] /\ f[0] = 0 /\ \A m \in 1 .. n : f[m] = f[m - 1] + w[m]

\* A list of numbers has a sum.
LEMMA NumbersAddUp ==
    ASSUME NEW n \in Nat, NEW w \in [1 .. n -> Nat]
    PROVE  \E f : AddedUp(f, w, n)
<1> DEFINE step == [m \in 1 .. n |-> [x \in Nat |-> x + w[m]]]
<1>1. step \in [1 .. n -> [Nat -> Nat]]
  OBVIOUS
<1>2. \A m \in 1 .. n, x \in Nat : step[m][x] = x + w[m]
  OBVIOUS
<1> HIDE DEF step
<1>3. PICK f : Follows(f, Nat, 0, step, n)
  BY <1>1, StepsAfterSteps DEF StepsOn
<1>4. f \in [0 .. n -> Nat] /\ f[0] = 0 /\ \A m \in 1 .. n : f[m] = step[m][f[m - 1]]
  BY <1>3 DEF Follows
<1>5. ASSUME NEW m \in 1 .. n PROVE f[m] = f[m - 1] + w[m]
  <2>1. m - 1 \in 0 .. n
    OBVIOUS
  <2> QED
    BY <1>2, <1>4, <2>1
<1> QED
  BY <1>4, <1>5 DEF AddedUp

\* What counts of each criterion of a set.
Counted(S) == [i \in 1 .. Len(Weights) |-> IF i \in S THEN Weights[i] ELSE 0]

\* The weight of some criteria is the sum of their numbers.
LEMMA WeightIsASum ==
    ASSUME NEW S
    PROVE  \E f : AddedUp(f, Counted(S), Len(Weights)) /\ Weight(S) = f[Len(Weights)]
<1> DEFINE n == Len(Weights)
<1>1. n \in Nat /\ \A i \in 1 .. n : Weights[i] \in Nat
  BY NotesAssumption
<1>2. Counted(S) \in [1 .. n -> Nat] /\ \A i \in 1 .. n : Counted(S)[i] = IF i \in S THEN Weights[i] ELSE 0
  BY <1>1 DEF Counted
<1>3. PICK f : AddedUp(f, Counted(S), n)
  <2> HIDE DEF n
  <2> QED
    BY <1>1, <1>2, NumbersAddUp
<1>4. f \in [0 .. n -> Nat] /\ f[0] = 0 /\ \A m \in 1 .. n : f[m] = f[m - 1] + Counted(S)[m]
  BY <1>3 DEF AddedUp
<1>5. f = [i \in 0 .. n |-> IF i = 0 THEN 0 ELSE f[i - 1] + (IF i \in S THEN Weights[i] ELSE 0)]
  <2>1. ASSUME NEW i \in 0 .. n
        PROVE  f[i] = IF i = 0 THEN 0 ELSE f[i - 1] + (IF i \in S THEN Weights[i] ELSE 0)
    <3>1. CASE i = 0
      BY <1>4, <3>1
    <3>2. CASE i # 0
      <4>1. i \in 1 .. n
        BY <1>1, <3>2
      <4>2. f[i] = f[i - 1] + Counted(S)[i] /\ Counted(S)[i] = IF i \in S THEN Weights[i] ELSE 0
        BY <1>2, <1>4, <4>1
      <4> QED
        BY <3>2, <4>2
    <3> QED
      BY <3>1, <3>2
  <2> QED
    BY <1>4, <2>1
<1> DEFINE sum[i \in 0 .. Len(Weights)] ==
             IF i = 0 THEN 0 ELSE sum[i - 1] + (IF i \in S THEN Weights[i] ELSE 0)
<1>6. sum = [i \in 0 .. n |-> IF i = 0 THEN 0 ELSE sum[i - 1] + (IF i \in S THEN Weights[i] ELSE 0)]
  BY <1>5
<1>7. Weight(S) = sum[n]
  BY DEF Weight
<1> HIDE DEF sum
<1>8. sum[0] = 0 /\ \A i \in 1 .. n : sum[i] = sum[i - 1] + Counted(S)[i]
  <2>1. 0 \in 0 .. n
    BY <1>1
  <2>2. sum[0] = 0
    BY <1>6, <2>1
  <2>3. ASSUME NEW i \in 1 .. n PROVE sum[i] = sum[i - 1] + Counted(S)[i]
    <3>1. i \in 0 .. n /\ i # 0
      BY <1>1
    <3>2. sum[i] = sum[i - 1] + (IF i \in S THEN Weights[i] ELSE 0)
      BY <1>6, <3>1
    <3> QED
      BY <1>2, <3>2
  <2> QED
    BY <2>2, <2>3
<1> DEFINE P == {k \in Nat : k <= n => sum[k] = f[k]}
<1>9. 0 \in P
  BY <1>4, <1>8
<1>10. ASSUME NEW k \in P PROVE k + 1 \in P
  <2>1. SUFFICES ASSUME k + 1 <= n PROVE sum[k + 1] = f[k + 1]
    OBVIOUS
  <2>2. k \in Nat /\ k <= n /\ sum[k] = f[k] /\ k + 1 \in 1 .. n /\ (k + 1) - 1 = k
    BY <1>1, <2>1
  <2>3. sum[k + 1] = sum[k] + Counted(S)[k + 1] /\ f[k + 1] = f[k] + Counted(S)[k + 1]
    BY <1>4, <1>8, <2>2
  <2> QED
    BY <2>2, <2>3
<1>11. n \in P
  <2>1. P \in SUBSET Nat
    OBVIOUS
  <2> HIDE DEF P
  <2>2. P = Nat
    BY <1>9, <1>10, <2>1, NatInductionOnASet
  <2> QED
    BY <1>1, <2>2
<1> QED
  BY <1>1, <1>3, <1>7, <1>11

\* The criteria met and those that are not weigh together what all weigh.
LEMMA WeightsAddUp ==
    ASSUME NEW S \in SUBSET Criteria
    PROVE  /\ Weight(S) \in Nat /\ Weight(Criteria \ S) \in Nat
           /\ Weight(S) + Weight(Criteria \ S) = Weight(Criteria)
<1> DEFINE n == Len(Weights)
           T == Criteria \ S
<1>1. n \in Nat /\ Criteria = 1 .. n /\ \A i \in 1 .. n : Weights[i] \in Nat
  BY NotesAssumption DEF Criteria
<1>2. PICK f : AddedUp(f, Counted(S), n) /\ Weight(S) = f[n]
  BY WeightIsASum
<1>3. PICK g : AddedUp(g, Counted(T), n) /\ Weight(T) = g[n]
  BY WeightIsASum
<1>4. PICK h : AddedUp(h, Counted(Criteria), n) /\ Weight(Criteria) = h[n]
  BY WeightIsASum
<1>5. \A i \in 1 .. n : /\ Counted(S)[i] \in Nat /\ Counted(T)[i] \in Nat
                        /\ Counted(Criteria)[i] = Counted(S)[i] + Counted(T)[i]
  <2> TAKE i \in 1 .. n
  <2>1. CASE i \in S
    BY <1>1, <2>1 DEF Counted
  <2>2. CASE i \notin S
    BY <1>1, <2>2 DEF Counted
  <2> QED
    BY <2>1, <2>2
<1>6. /\ f \in [0 .. n -> Nat] /\ g \in [0 .. n -> Nat] /\ h \in [0 .. n -> Nat]
      /\ f[0] = 0 /\ g[0] = 0 /\ h[0] = 0
      /\ \A m \in 1 .. n : /\ f[m] = f[m - 1] + Counted(S)[m] /\ g[m] = g[m - 1] + Counted(T)[m]
                           /\ h[m] = h[m - 1] + Counted(Criteria)[m]
  BY <1>2, <1>3, <1>4 DEF AddedUp
<1> DEFINE P == {k \in Nat : k <= n => f[k] + g[k] = h[k]}
<1>7. 0 \in P
  BY <1>6
<1>8. ASSUME NEW k \in P PROVE k + 1 \in P
  <2>1. SUFFICES ASSUME k + 1 <= n PROVE f[k + 1] + g[k + 1] = h[k + 1]
    OBVIOUS
  <2>2. k \in Nat /\ k \in 0 .. n /\ f[k] + g[k] = h[k] /\ k + 1 \in 1 .. n /\ (k + 1) - 1 = k
    BY <1>1, <2>1
  <2>3. /\ f[k + 1] = f[k] + Counted(S)[k + 1] /\ g[k + 1] = g[k] + Counted(T)[k + 1]
        /\ h[k + 1] = h[k] + Counted(Criteria)[k + 1]
    BY <1>6, <2>2
  <2>4. /\ f[k] \in Nat /\ g[k] \in Nat /\ h[k] \in Nat
        /\ Counted(Criteria)[k + 1] = Counted(S)[k + 1] + Counted(T)[k + 1]
        /\ Counted(S)[k + 1] \in Nat /\ Counted(T)[k + 1] \in Nat
    BY <1>5, <1>6, <2>2
  <2> QED
    BY <2>2, <2>3, <2>4
<1>9. n \in P
  <2>1. P \in SUBSET Nat
    OBVIOUS
  <2> HIDE DEF P
  <2>2. P = Nat
    BY <1>7, <1>8, <2>1, NatInductionOnASet
  <2> QED
    BY <1>1, <2>2
<1>10. n \in 0 .. n
  BY <1>1
<1> QED
  BY <1>1, <1>2, <1>3, <1>4, <1>6, <1>9, <1>10

\* Who passes lacks a fifth at most, and what the score is rounded by.
THEOREM PassersLackLittle ==
    ASSUME NEW marks \in SUBSET Criteria, RubricPassed(marks)
    PROVE  /\ 200 * Weight(Criteria \ marks) <= 41 * Weight(Criteria)
           /\ Weight(Criteria) = 100 => 5 * Weight(Criteria \ marks) <= Weight(Criteria)
<1>1. PICK m \in Nat, lacks \in Nat, total \in Nat :
          /\ m = Weight(marks) /\ lacks = Weight(Criteria \ marks) /\ total = Weight(Criteria)
          /\ m + lacks = total
  <2>1. Weight(Criteria) \in Nat
    BY WeightsAddUp
  <2> QED
    BY <2>1, WeightsAddUp
<1>2. total > 0 /\ (m * 200 + total) \div (2 * total) >= 80
  BY <1>1 DEF RubricPassed, RubricScore, PassMark
<1>3. 160 * total <= m * 200 + total
  <2>1. PICK d \in Nat : d = 2 * total /\ d > 0
    BY <1>2
  <2>2. PICK a \in Nat : a = m * 200 + total
    OBVIOUS
  <2>3. PICK q \in Int : q = a \div d /\ q >= 80
    BY <1>2, <2>1, <2>2
  <2>4. d * q <= a
    BY <2>1, <2>2, <2>3
  <2>5. d * 80 <= d * q
    BY <2>1, <2>3
  <2> QED
    BY <2>1, <2>2, <2>3, <2>4, <2>5
<1> QED
  BY <1>1, <1>3

-----------------------------------------------------------------------------

\* The notebook and the projects (Notes).

NoteTexts == Jottings \cup {Blank, Outline}
NoteRecords == [texts: [Sheets -> NoteTexts], marks: SUBSET Criteria]
LateTimers == [sheet: Sheets, text: Jottings]

NoteTypes ==
    /\ at \in Sheets \cup {"settings", "away"}
    /\ note \in [text: NoteTexts, touched: BOOLEAN, timer: Jottings \cup {NoJotting}]
    /\ own \in NoteRecords
    /\ late \in Seq(LateTimers)
    /\ jotted \in [Sheets -> Jottings \cup {NoJotting}]
    /\ gone \in SUBSET Sheets

\* A timer of a sheet, after the k-th, holds what was typed on it last; or there
\* is nothing to hold, or the timer of the page does.
Pending(s, k) == \E j \in DOMAIN late : j > k /\ late[j] = [sheet |-> s, text |-> jotted[s]]
Excused(s) == jotted[s] = NoJotting \/ s \in gone \/ (at = s /\ note.timer = jotted[s])

RecordHolds == \A s \in Sheets : own.texts[s] = jotted[s] \/ Excused(s) \/ Pending(s, 0)
LateHolds == \A i \in DOMAIN late :
    late[i].text = jotted[late[i].sheet] \/ Excused(late[i].sheet) \/ Pending(late[i].sheet, i)
TimerHolds == at \in Sheets /\ note.timer # NoJotting => note.timer = jotted[at]

\* The record the page had when the file was picked is the learner's still, but for
\* what was written since.
FileHolds == file # NoCopy =>
    \A f \in (Sheets \cup {"marks"}) \ crossed : Held(file, f) = Held(own, f)

NotesInv == /\ NoteTypes /\ RecordHolds /\ LateHolds /\ TimerHolds
            /\ UntouchedShows /\ FileHolds /\ CopyHoldsTheReplaced

\* What the invariant says is what the run checks.
LEMMA NotesInvIsEnough ==
    ASSUME NotesInv
    PROVE  NotesTypeOK /\ NotesKeepUp
<1>1. NotesTypeOK
  BY DEF NotesInv, NoteTypes, NotesTypeOK, NoteRecords, LateTimers
<1>2. JottingsAreKept
  <2>1. ASSUME NEW s \in Sheets
        PROVE  \/ jotted[s] \in {NoJotting, own.texts[s]} \/ s \in gone
               \/ at = s /\ note.timer = jotted[s]
               \/ \E i \in DOMAIN late : late[i] = [sheet |-> s, text |-> jotted[s]]
    <3>1. own.texts[s] = jotted[s] \/ Excused(s) \/ Pending(s, 0)
      BY DEF NotesInv, RecordHolds
    <3> QED
      BY <3>1 DEF Excused, Pending
  <2> QED
    BY <2>1 DEF JottingsAreKept
<1>3. PassingIsNearlyAll
  <2>1. own.marks \in SUBSET Criteria
    BY DEF NotesInv, NoteTypes, NoteRecords
  <2> QED
    BY <2>1, PassersLackLittle DEF PassingIsNearlyAll
<1> QED
  BY <1>1, <1>2, <1>3 DEF NotesInv, NotesKeepUp

\* At first no sheet was written on.
LEMMA NotesStart == NotesInit => NotesInv
<1> SUFFICES ASSUME NotesInit PROVE NotesInv
  OBVIOUS
<1>1. NoteTypes
  <2>1. /\ Blank \in NoteTexts /\ FreshRecord \in NoteRecords
        /\ NoJotting \in Jottings \cup {NoJotting}
    BY DEF NoteTexts, NoteRecords, FreshRecord
  <2>2. FreshRecord.texts["scratchpad"] = Blank
    BY DEF FreshRecord, Sheets
  <2> QED
    BY <2>1, <2>2 DEF NotesInit, NoteTypes, Hydrate
<1>2. RecordHolds /\ LateHolds /\ TimerHolds
  BY DEF NotesInit, RecordHolds, LateHolds, TimerHolds, Excused, Sheets
<1>3. UntouchedShows /\ FileHolds /\ CopyHoldsTheReplaced
  BY DEF NotesInit, UntouchedShows, FileHolds, CopyHoldsTheReplaced, Sheets
<1> QED
  BY <1>1, <1>2, <1>3 DEF NotesInv

\* A record with another text on one sheet.
LEMMA WithTextIs ==
    ASSUME own \in NoteRecords, NEW s \in Sheets, NEW x \in NoteTexts
    PROVE  /\ WithText(s, x) \in NoteRecords
           /\ WithText(s, x).texts[s] = x
           /\ \A t \in Sheets \ {s} : WithText(s, x).texts[t] = own.texts[t]
           /\ \A f \in (Sheets \cup {"marks"}) \ {s} : Held(WithText(s, x), f) = Held(own, f)
<1>1. PICK ts \in [Sheets -> NoteTexts] : ts = [own.texts EXCEPT ![s] = x]
  BY DEF NoteRecords
<1>2. WithText(s, x) = [texts |-> ts, marks |-> own.marks]
  BY <1>1 DEF WithText, NoteRecords
<1>3. own.marks \in SUBSET Criteria /\ own.texts \in [Sheets -> NoteTexts]
  BY DEF NoteRecords
<1>4. ts[s] = x /\ \A t \in Sheets \ {s} : ts[t] = own.texts[t]
  BY <1>1, <1>3
<1>5. WithText(s, x) \in NoteRecords
  BY <1>2, <1>3 DEF NoteRecords
<1>6. \A f \in (Sheets \cup {"marks"}) \ {s} : Held(WithText(s, x), f) = Held(own, f)
  BY <1>2, <1>4 DEF Held
<1> QED
  BY <1>2, <1>4, <1>5, <1>6

\* The sheet shows the record when nobody typed on it, after a save too.
LEMMA MirrorShows ==
    ASSUME NoteTypes, NEW r \in NoteRecords,
           NEW n \in [text: NoteTexts, touched: BOOLEAN, timer: Jottings \cup {NoJotting}]
    PROVE  /\ Mirror(r, n) \in [text: NoteTexts, touched: BOOLEAN, timer: Jottings \cup {NoJotting}]
           /\ Mirror(r, n).timer = n.timer
           /\ at \in Sheets /\ ~Mirror(r, n).touched => Mirror(r, n).text = r.texts[at]
<1>1. CASE at \in Sheets /\ ~n.touched
  <2>1. PICK x \in NoteTexts : x = r.texts[at]
    BY <1>1 DEF NoteRecords
  <2>2. Mirror(r, n) = [n EXCEPT !.text = x]
    BY <1>1, <2>1 DEF Mirror
  <2>3. Mirror(r, n) = [text |-> x, touched |-> n.touched, timer |-> n.timer]
    BY <2>2
  <2> QED
    BY <2>1, <2>3
<1>2. CASE ~(at \in Sheets /\ ~n.touched)
  BY <1>2 DEF Mirror
<1> QED
  BY <1>1, <1>2

\* The timers of a page that is left go on.
LEMMA LeftOverHolds ==
    ASSUME NotesInv, NEW ls, ls = late \o LeftOver
    PROVE  /\ ls \in Seq(LateTimers)
           /\ DOMAIN late \subseteq DOMAIN ls
           /\ \A i \in DOMAIN late : ls[i] = late[i]
           /\ \A i \in DOMAIN ls \ DOMAIN late :
                at \in Sheets /\ ls[i] = [sheet |-> at, text |-> jotted[at]]
           /\ at \in Sheets /\ note.timer # NoJotting =>
                \E i \in DOMAIN ls : /\ \A j \in DOMAIN late : i > j
                                     /\ i > 0 /\ ls[i] = [sheet |-> at, text |-> jotted[at]]
<1>1. late \in Seq(LateTimers) /\ Len(late) \in Nat /\ DOMAIN late = 1 .. Len(late)
  BY DEF NotesInv, NoteTypes
<1>2. CASE at \in Sheets /\ note.timer # NoJotting
  <2>1. note.timer \in Jottings /\ note.timer = jotted[at]
    BY <1>2 DEF NotesInv, NoteTypes, TimerHolds
  <2>2. PICK l \in LateTimers : l = [sheet |-> at, text |-> note.timer]
    BY <1>2, <2>1 DEF LateTimers
  <2>3. ls = late \o <<l>>
    BY <1>2, <2>2 DEF LeftOver
  <2>4. /\ ls \in Seq(LateTimers) /\ DOMAIN ls = 1 .. Len(late) + 1
        /\ \A i \in 1 .. Len(late) : ls[i] = late[i]
        /\ ls[Len(late) + 1] = l
    BY <1>1, <2>3
  <2>5. \E i \in DOMAIN ls : /\ \A j \in DOMAIN late : i > j
                             /\ i > 0 /\ ls[i] = [sheet |-> at, text |-> jotted[at]]
    <3> DEFINE i == Len(late) + 1
    <3>1. i \in DOMAIN ls /\ i > 0 /\ \A j \in DOMAIN late : i > j
      BY <1>1, <2>4
    <3>2. ls[i] = [sheet |-> at, text |-> jotted[at]]
      BY <2>1, <2>2, <2>4
    <3> QED
      BY <3>1, <3>2
  <2> QED
    BY <1>1, <1>2, <2>1, <2>2, <2>4, <2>5
<1>3. CASE ~(at \in Sheets /\ note.timer # NoJotting)
  <2>1. LeftOver = <<>>
    BY <1>3 DEF LeftOver
  <2>2. ls = late
    BY <1>1, <2>1, ConcatEmptySeq
  <2> QED
    BY <1>1, <1>3, <2>2
<1> QED
  BY <1>2, <1>3

\* A timer that is left is of a sheet.
LEMMA LateIsOfASheet ==
    ASSUME NotesInv, NEW i \in DOMAIN late
    PROVE  i \in Nat \ {0} /\ late[i] \in LateTimers /\ late[i].sheet \in Sheets
<1>1. late \in Seq(LateTimers)
  BY DEF NotesInv, NoteTypes
<1>2. late[i] \in LateTimers
  <2> HIDE DEF LateTimers
  <2> QED
    BY <1>1
<1> QED
  BY <1>1, <1>2 DEF LateTimers

NoteShapes == [text: NoteTexts, touched: BOOLEAN, timer: Jottings \cup {NoJotting}]

\* Saving keeps what the page shows and the backup being read in step.
LEMMA SaveKeeps ==
    ASSUME NotesInv, NEW r \in NoteRecords, NEW n \in NoteShapes, NEW ss,
           \A f \in (Sheets \cup {"marks"}) \ ss : Held(r, f) = Held(own, f),
           SaveInto(r, n, ss), UNCHANGED <<at, file>>
    PROVE  /\ own' = r /\ note' \in NoteShapes /\ note'.timer = n.timer
           /\ UntouchedShows' /\ FileHolds'
<1>1. NoteTypes /\ FileHolds
  BY DEF NotesInv
<1>2. own' = r /\ note' = Mirror(r, n) /\ crossed' = (IF file = NoCopy THEN crossed ELSE crossed \cup ss)
  BY DEF SaveInto
<1>3. /\ Mirror(r, n) \in NoteShapes /\ Mirror(r, n).timer = n.timer
      /\ at \in Sheets /\ ~Mirror(r, n).touched => Mirror(r, n).text = r.texts[at]
  BY <1>1, MirrorShows DEF NoteShapes
<1>4. UntouchedShows'
  BY <1>2, <1>3 DEF UntouchedShows
<1>5. FileHolds'
  BY <1>1, <1>2 DEF FileHolds, Held
<1> QED
  BY <1>2, <1>3, <1>4, <1>5

\* When neither the timers nor what was typed change, and the page's timer does not
\* either, what was excused is.
LEMMA ExcusedStays ==
    ASSUME NEW s \in Sheets, UNCHANGED <<at, jotted>>, note'.timer = note.timer, gone \subseteq gone'
    PROVE  Excused(s) => Excused(s)'
BY DEF Excused

\* A sheet that is opened shows the record.
LEMMA VisitKeeps ==
    ASSUME NotesInv, NEW to \in Sheets \cup {"settings"}, VisitPage(to)
    PROVE  NotesInv'
<1>1. /\ at = "away" /\ at' = to /\ UNCHANGED <<own, late, file, copy, jotted, gone, crossed, missed>>
      /\ note' = IF to \in Sheets THEN Hydrate(to, own) ELSE note
  BY DEF VisitPage, jotPast
<1>2. own \in NoteRecords
  BY DEF NotesInv, NoteTypes
<1>3. NoteTypes' /\ (to \in Sheets => note' = Hydrate(to, own) /\ note'.timer = NoJotting)
  <2>1. to \in Sheets => Hydrate(to, own) \in NoteShapes /\ Hydrate(to, own).timer = NoJotting
    BY <1>2 DEF Hydrate, NoteShapes, NoteRecords
  <2> QED
    BY <1>1, <2>1 DEF NotesInv, NoteTypes, NoteShapes
<1>4. at \notin Sheets
  BY <1>1 DEF Sheets
<1>5. \A s \in Sheets : Excused(s) => Excused(s)'
  BY <1>1, <1>4 DEF Excused
<1>6. \A s \in Sheets, k \in Nat : Pending(s, k) => Pending(s, k)'
  BY <1>1 DEF Pending
<1>7. RecordHolds'
  BY <1>1, <1>5, <1>6 DEF RecordHolds, NotesInv
<1>8. LateHolds'
  <2>1. \A i \in DOMAIN late : i \in Nat /\ late[i].sheet \in Sheets
    BY LateIsOfASheet
  <2> QED
    BY <1>1, <1>5, <1>6, <2>1 DEF LateHolds, NotesInv
<1>9. TimerHolds' /\ UntouchedShows'
  BY <1>1, <1>3, <1>4 DEF TimerHolds, UntouchedShows, Hydrate, Sheets
<1>10. FileHolds' /\ CopyHoldsTheReplaced'
  BY <1>1 DEF NotesInv, FileHolds, CopyHoldsTheReplaced, Held
<1> QED
  BY <1>3, <1>7, <1>8, <1>9, <1>10 DEF NotesInv

\* What was typed last is pending after a page is left, when its timer held it.
LEMMA LeavingKeeps ==
    ASSUME NotesInv, late' = late \o LeftOver, jotted' = jotted, gone \subseteq gone',
           NEW s \in Sheets
    PROVE  /\ \A k \in Nat : Pending(s, k) => Pending(s, k)'
           /\ Excused(s) => Excused(s)' \/ (Pending(s, 0)' /\ \A k \in DOMAIN late : Pending(s, k)')
           /\ \A i \in DOMAIN late' \ DOMAIN late : late'[i].text = jotted'[late'[i].sheet]
           /\ \A i \in DOMAIN late : late'[i] = late[i]
           /\ late' \in Seq(LateTimers)
<1>1. PICK ls : ls = late \o LeftOver
  OBVIOUS
<1>2. /\ ls \in Seq(LateTimers)
      /\ DOMAIN late \subseteq DOMAIN ls
      /\ \A i \in DOMAIN late : ls[i] = late[i]
      /\ \A i \in DOMAIN ls \ DOMAIN late :
           at \in Sheets /\ ls[i] = [sheet |-> at, text |-> jotted[at]]
      /\ at \in Sheets /\ note.timer # NoJotting =>
           \E i \in DOMAIN ls : /\ \A j \in DOMAIN late : i > j
                                /\ i > 0 /\ ls[i] = [sheet |-> at, text |-> jotted[at]]
  BY <1>1, LeftOverHolds
<1>3. late' = ls
  BY <1>1
<1>4. \A k \in Nat : Pending(s, k) => Pending(s, k)'
  BY <1>2, <1>3 DEF Pending
<1>5. Excused(s) => Excused(s)' \/ (Pending(s, 0)' /\ \A k \in DOMAIN late : Pending(s, k)')
  <2>1. CASE jotted[s] = NoJotting \/ s \in gone
    BY <2>1 DEF Excused
  <2>2. CASE at = s /\ note.timer = jotted[s] /\ jotted[s] # NoJotting
    <3>1. PICK i \in DOMAIN ls : /\ \A j \in DOMAIN late : i > j
                                 /\ i > 0 /\ ls[i] = [sheet |-> s, text |-> jotted[s]]
      BY <1>2, <2>2
    <3> QED
      BY <1>3, <3>1 DEF Pending
  <2> QED
    BY <2>1, <2>2 DEF Excused
<1>6. \A i \in DOMAIN late' \ DOMAIN late : late'[i].text = jotted'[late'[i].sheet]
  BY <1>2, <1>3
<1> QED
  BY <1>2, <1>3, <1>4, <1>5, <1>6

\* So both hold still on what they told of.
LEMMA LeavingHolds ==
    ASSUME NotesInv, late' = late \o LeftOver, jotted' = jotted, gone \subseteq gone'
    PROVE  /\ LateHolds' /\ late' \in Seq(LateTimers)
           /\ \A s \in Sheets : own'.texts[s] = own.texts[s] \/ Excused(s)' \/ Pending(s, 0)' =>
                own'.texts[s] = jotted'[s] \/ Excused(s)' \/ Pending(s, 0)'
<1>1. \A s \in Sheets :
           /\ \A k \in Nat : Pending(s, k) => Pending(s, k)'
           /\ Excused(s) => Excused(s)' \/ (Pending(s, 0)' /\ \A k \in DOMAIN late : Pending(s, k)')
           /\ \A i \in DOMAIN late' \ DOMAIN late : late'[i].text = jotted'[late'[i].sheet]
           /\ \A i \in DOMAIN late : late'[i] = late[i]
           /\ late' \in Seq(LateTimers)
  BY LeavingKeeps
<1>2. late' \in Seq(LateTimers) /\ "play" \in Sheets
  BY <1>1 DEF Sheets
<1>3. ASSUME NEW s \in Sheets, own'.texts[s] = own.texts[s] \/ Excused(s)' \/ Pending(s, 0)'
      PROVE  own'.texts[s] = jotted'[s] \/ Excused(s)' \/ Pending(s, 0)'
  <2>1. own.texts[s] = jotted[s] \/ Excused(s) \/ Pending(s, 0)
    BY DEF NotesInv, RecordHolds
  <2> QED
    BY <1>1, <1>3, <2>1
<1>4. ASSUME NEW i \in DOMAIN late', NEW s, s = late'[i].sheet
      PROVE  late'[i].text = jotted'[s] \/ Excused(s)' \/ Pending(s, i)'
  <2>1. CASE i \notin DOMAIN late
    BY <1>1, <1>2, <1>4, <2>1
  <2>2. CASE i \in DOMAIN late
    <3>1. i \in Nat /\ late[i].sheet \in Sheets /\ late'[i] = late[i]
      BY <1>1, <1>2, <2>2, LateIsOfASheet
    <3>2. s \in Sheets /\ s = late[i].sheet
      BY <1>4, <3>1
    <3>3. late[i].text = jotted[s] \/ Excused(s) \/ Pending(s, i)
      BY <2>2, <3>2 DEF NotesInv, LateHolds
    <3>4. late[i].text = jotted'[s] \/ Excused(s)' \/ Pending(s, i)'
      <4>1. Pending(s, i) => Pending(s, i)'
        BY <1>1, <3>1, <3>2
      <4>2. Excused(s) => Excused(s)' \/ Pending(s, i)'
        BY <1>1, <2>2, <3>2
      <4> QED
        BY <3>3, <4>1, <4>2
    <3> QED
      BY <3>1, <3>2, <3>4
  <2> QED
    BY <2>1, <2>2
<1>5. LateHolds'
  <2> SUFFICES ASSUME NEW i \in DOMAIN late'
               PROVE  (late[i].text = jotted[late[i].sheet] \/ Excused(late[i].sheet) \/ Pending(late[i].sheet, i))'
    BY DEF LateHolds
  <2>1. PICK s : s = late'[i].sheet
    OBVIOUS
  <2>2. late'[i].text = jotted'[s] \/ Excused(s)' \/ Pending(s, i)'
    BY <1>4, <2>1
  <2> QED
    BY <2>1, <2>2 DEF Excused, Pending
<1> QED
  BY <1>2, <1>3, <1>5

\* A sheet that is left leaves its timer behind.
LEMMA LeaveKeeps ==
    ASSUME NotesInv, LeavePage
    PROVE  NotesInv'
<1>1. /\ at' = "away" /\ late' = late \o LeftOver
      /\ UNCHANGED <<note, own, file, copy, strokes, jotted, gone, crossed, missed>>
  BY DEF LeavePage, jotPast
<1>2. /\ LateHolds' /\ late' \in Seq(LateTimers)
      /\ \A s \in Sheets : own'.texts[s] = jotted'[s] \/ Excused(s)' \/ Pending(s, 0)'
  BY <1>1, LeavingHolds
<1>3. NoteTypes'
  BY <1>1, <1>2 DEF NotesInv, NoteTypes
<1>4. RecordHolds' /\ TimerHolds' /\ UntouchedShows'
  BY <1>1, <1>2 DEF RecordHolds, TimerHolds, UntouchedShows, Sheets
<1>5. FileHolds' /\ CopyHoldsTheReplaced'
  BY <1>1 DEF NotesInv, FileHolds, CopyHoldsTheReplaced, Held
<1> QED
  BY <1>2, <1>3, <1>4, <1>5 DEF NotesInv

\* What is typed is held by the timer of the page.
LEMMA JotKeeps ==
    ASSUME NotesInv, NEW x \in Jottings, Jot(x)
    PROVE  NotesInv'
<1>1. /\ at \in Sheets /\ at' = at /\ note' = [text |-> x, touched |-> TRUE, timer |-> x]
      /\ jotted' = [jotted EXCEPT ![at] = x] /\ gone' = gone \ {at}
      /\ UNCHANGED <<own, late, file, copy, crossed, missed>>
  BY DEF Jot
<1>2. jotted' \in [Sheets -> Jottings \cup {NoJotting}] /\ jotted'[at] = x
      /\ \A s \in Sheets \ {at} : jotted'[s] = jotted[s]
  BY <1>1 DEF NotesInv, NoteTypes
<1>3. NoteTypes'
  <2>1. note' \in NoteShapes
    BY <1>1 DEF NoteShapes, NoteTexts
  <2> QED
    BY <1>1, <1>2, <2>1 DEF NotesInv, NoteTypes, NoteShapes
<1>4. Excused(at)'
  BY <1>1, <1>2 DEF Excused
<1>5. \A s \in Sheets \ {at} : /\ Excused(s) => Excused(s)'
                             /\ \A k \in Nat : Pending(s, k) => Pending(s, k)'
  BY <1>1, <1>2 DEF Excused, Pending
<1>6. RecordHolds'
  <2> SUFFICES ASSUME NEW s \in Sheets
               PROVE  own'.texts[s] = jotted'[s] \/ Excused(s)' \/ Pending(s, 0)'
    BY DEF RecordHolds
  <2>1. CASE s = at
    <3>1. PICK t : t = at
      OBVIOUS
    <3> QED
      BY <1>1, <1>2, <2>1 DEF Excused
  <2>2. CASE s # at
    BY <1>1, <1>2, <1>5, <2>2 DEF NotesInv, RecordHolds
  <2> QED
    BY <2>1, <2>2
<1>7. LateHolds'
  <2> SUFFICES ASSUME NEW i \in DOMAIN late
               PROVE  (late[i].text = jotted[late[i].sheet] \/ Excused(late[i].sheet) \/ Pending(late[i].sheet, i))'
    BY <1>1 DEF LateHolds
  <2>1. PICK s \in Sheets : s = late[i].sheet
    BY LateIsOfASheet
  <2>2. late[i].text = jotted'[s] \/ Excused(s)' \/ Pending(s, i)'
    <3>1. CASE s = at
      BY <1>1, <1>2, <3>1 DEF Excused
    <3>2. CASE s # at
      <4>1. late[i].text = jotted[s] \/ Excused(s) \/ Pending(s, i)
        BY <2>1 DEF NotesInv, LateHolds
      <4>2. i \in Nat
        BY LateIsOfASheet
      <4>3. (Excused(s) => Excused(s)') /\ (Pending(s, i) => Pending(s, i)')
        BY <1>5, <3>2, <4>2
      <4> QED
        BY <1>2, <3>2, <4>1, <4>3
    <3> QED
      BY <3>1, <3>2
  <2> QED
    BY <1>1, <2>1, <2>2 DEF Excused, Pending
<1>8. TimerHolds' /\ UntouchedShows'
  BY <1>1, <1>2 DEF TimerHolds, UntouchedShows
<1>9. FileHolds' /\ CopyHoldsTheReplaced'
  BY <1>1 DEF NotesInv, FileHolds, CopyHoldsTheReplaced, Held
<1> QED
  BY <1>3, <1>6, <1>7, <1>8, <1>9 DEF NotesInv

\* When only the record changes, and not on a sheet where something was typed that
\* is still to be told of, what is pending is.
LEMMA RestHolds ==
    ASSUME NotesInv, UNCHANGED <<at, late, jotted>>, note'.timer = note.timer, gone \subseteq gone',
           \A s \in Sheets : own'.texts[s] = own.texts[s] \/ s \in gone'
    PROVE  RecordHolds' /\ LateHolds' /\ TimerHolds'
<1>1. \A s \in Sheets : Excused(s) => Excused(s)'
  BY ExcusedStays
<1>2. \A s \in Sheets, k \in Nat : Pending(s, k) => Pending(s, k)'
  BY DEF Pending
<1>3. RecordHolds'
  <2> SUFFICES ASSUME NEW s \in Sheets
               PROVE  own'.texts[s] = jotted'[s] \/ Excused(s)' \/ Pending(s, 0)'
    BY DEF RecordHolds
  <2>1. CASE s \in gone'
    BY <2>1 DEF Excused
  <2>2. CASE s \notin gone'
    <3>1. own.texts[s] = jotted[s] \/ Excused(s) \/ Pending(s, 0)
      BY DEF NotesInv, RecordHolds
    <3> QED
      BY <1>1, <1>2, <2>2, <3>1
  <2> QED
    BY <2>1, <2>2
<1>4. LateHolds'
  <2> SUFFICES ASSUME NEW i \in DOMAIN late
               PROVE  (late[i].text = jotted[late[i].sheet] \/ Excused(late[i].sheet) \/ Pending(late[i].sheet, i))'
    BY DEF LateHolds
  <2>1. PICK s \in Sheets : s = late[i].sheet
    BY LateIsOfASheet
  <2>2. late[i].text = jotted[s] \/ Excused(s) \/ Pending(s, i)
    BY <2>1 DEF NotesInv, LateHolds
  <2>3. i \in Nat
    BY LateIsOfASheet
  <2>4. late[i].text = jotted'[s] \/ Excused(s)' \/ Pending(s, i)'
    BY <1>1, <1>2, <2>2, <2>3
  <2> QED
    BY <2>1, <2>4 DEF Excused, Pending
<1>5. TimerHolds'
  BY DEF NotesInv, TimerHolds
<1> QED
  BY <1>3, <1>4, <1>5

\* The page's timer saves what was typed last.
LEMMA DueKeeps ==
    ASSUME NotesInv, DueFires
    PROVE  NotesInv'
<1>1. /\ at \in Sheets /\ note.timer # NoJotting /\ \A i \in DOMAIN late : late[i].sheet # at
      /\ SaveInto(WithText(at, note.timer), [note EXCEPT !.timer = NoJotting], {at})
      /\ UNCHANGED <<at, late, file, copy, jotted, gone, missed>>
  BY DEF DueFires
<1>2. note \in NoteShapes /\ own \in NoteRecords
  BY DEF NotesInv, NoteTypes, NoteShapes
<1>3. note.timer \in Jottings /\ note.timer = jotted[at]
  BY <1>1, <1>2 DEF NotesInv, TimerHolds, NoteShapes
<1>4. PICK a \in Sheets, x \in NoteTexts : a = at /\ x = note.timer
  BY <1>1, <1>3 DEF NoteTexts
<1>5. PICK r : r = WithText(a, x)
  OBVIOUS
<1>6. /\ r \in NoteRecords /\ r.texts[a] = x /\ \A t \in Sheets \ {a} : r.texts[t] = own.texts[t]
      /\ \A f \in (Sheets \cup {"marks"}) \ {a} : Held(r, f) = Held(own, f)
  BY <1>2, <1>5, WithTextIs
<1>7. PICK n \in NoteShapes : n = [note EXCEPT !.timer = NoJotting] /\ n.timer = NoJotting
  <2>1. PICK m : m = [note EXCEPT !.timer = NoJotting]
    OBVIOUS
  <2>2. m = [text |-> note.text, touched |-> note.touched, timer |-> NoJotting]
    BY <1>2, <2>1 DEF NoteShapes
  <2>3. m \in NoteShapes
    BY <1>2, <2>2 DEF NoteShapes
  <2> QED
    BY <2>1, <2>2, <2>3
<1>8. own' = r /\ note' \in NoteShapes /\ note'.timer = NoJotting /\ UntouchedShows' /\ FileHolds'
  <2>1. SaveInto(r, n, {a})
    BY <1>1, <1>4, <1>5, <1>7
  <2> QED
    BY <1>1, <1>6, <1>7, <2>1, SaveKeeps
<1>9. NoteTypes'
  BY <1>1, <1>6, <1>8 DEF NotesInv, NoteTypes, NoteShapes
<1>10. \A s \in Sheets \ {a} : (Excused(s) => Excused(s)') /\ \A k \in Nat : Pending(s, k) => Pending(s, k)'
  BY <1>1, <1>4 DEF Excused, Pending
<1>11. RecordHolds'
  <2> SUFFICES ASSUME NEW s \in Sheets
               PROVE  own'.texts[s] = jotted'[s] \/ Excused(s)' \/ Pending(s, 0)'
    BY DEF RecordHolds
  <2>1. CASE s = a
    BY <1>1, <1>3, <1>4, <1>6, <1>8, <2>1
  <2>2. CASE s # a
    <3>1. own.texts[s] = jotted[s] \/ Excused(s) \/ Pending(s, 0)
      BY DEF NotesInv, RecordHolds
    <3>2. own'.texts[s] = own.texts[s] /\ jotted'[s] = jotted[s]
      BY <1>1, <1>6, <1>8, <2>2
    <3>3. (Excused(s) => Excused(s)') /\ (Pending(s, 0) => Pending(s, 0)')
      BY <1>10, <2>2
    <3> QED
      BY <3>1, <3>2, <3>3
  <2> QED
    BY <2>1, <2>2
<1>12. LateHolds'
  <2> SUFFICES ASSUME NEW i \in DOMAIN late
               PROVE  (late[i].text = jotted[late[i].sheet] \/ Excused(late[i].sheet) \/ Pending(late[i].sheet, i))'
    BY <1>1 DEF LateHolds
  <2>1. PICK s \in Sheets : s = late[i].sheet
    BY LateIsOfASheet
  <2>2. i \in Nat /\ s # a
    BY <1>1, <1>4, <2>1, LateIsOfASheet
  <2>3. late[i].text = jotted[s] \/ Excused(s) \/ Pending(s, i)
    BY <2>1 DEF NotesInv, LateHolds
  <2>4. (Excused(s) => Excused(s)') /\ (Pending(s, i) => Pending(s, i)')
    BY <1>10, <2>2
  <2>5. late[i].text = jotted'[s] \/ Excused(s)' \/ Pending(s, i)'
    BY <1>1, <2>3, <2>4
  <2> QED
    BY <1>1, <2>1, <2>5 DEF Excused, Pending
<1>13. TimerHolds' /\ CopyHoldsTheReplaced'
  BY <1>1, <1>8 DEF NotesInv, TimerHolds, CopyHoldsTheReplaced
<1> QED
  BY <1>8, <1>9, <1>11, <1>12, <1>13 DEF NotesInv

\* The timer of a page that is gone saves what was typed there, in its turn.
LEMMA LateKeeps ==
    ASSUME NotesInv, LateFires
    PROVE  NotesInv'
<1>1. /\ late # <<>> /\ late' = Tail(late)
      /\ SaveInto(WithText(Head(late).sheet, Head(late).text), note, {Head(late).sheet})
      /\ UNCHANGED <<at, file, copy, jotted, gone, missed>>
  BY DEF LateFires
<1>2. note \in NoteShapes /\ own \in NoteRecords /\ late \in Seq(LateTimers)
  BY DEF NotesInv, NoteTypes, NoteShapes
<1>3. /\ 1 \in DOMAIN late /\ Head(late) = late[1] /\ DOMAIN late = 1 .. Len(late) /\ Len(late) \in Nat
      /\ late' \in Seq(LateTimers) /\ DOMAIN late' = 1 .. Len(late) - 1
      /\ \A i \in 1 .. Len(late) - 1 : late'[i] = late[i + 1]
  <2> HIDE DEF LateTimers
  <2> QED
    BY <1>1, <1>2
<1>4. PICK a \in Sheets, x \in NoteTexts : a = late[1].sheet /\ x = late[1].text
  <2>1. late[1] \in LateTimers
    BY <1>3, LateIsOfASheet
  <2> QED
    BY <2>1 DEF LateTimers, NoteTexts
<1>5. PICK r : r = WithText(a, x)
  OBVIOUS
<1>6. /\ r \in NoteRecords /\ r.texts[a] = x /\ \A t \in Sheets \ {a} : r.texts[t] = own.texts[t]
      /\ \A f \in (Sheets \cup {"marks"}) \ {a} : Held(r, f) = Held(own, f)
  BY <1>2, <1>5, WithTextIs
<1>7. PICK n \in NoteShapes : n = note
  BY <1>2
<1>8. own' = r /\ note' \in NoteShapes /\ note'.timer = note.timer /\ UntouchedShows' /\ FileHolds'
  <2>1. SaveInto(r, n, {a})
    BY <1>1, <1>3, <1>4, <1>5, <1>7
  <2> QED
    BY <1>1, <1>6, <1>7, <2>1, SaveKeeps
<1>9. NoteTypes'
  BY <1>1, <1>3, <1>6, <1>8 DEF NotesInv, NoteTypes, NoteShapes
<1>10. \A s \in Sheets : Excused(s) => Excused(s)'
  BY <1>1, <1>8 DEF Excused
<1>11. \A s \in Sheets, k \in Nat : Pending(s, k + 1) => Pending(s, k)'
  <2> SUFFICES ASSUME NEW s \in Sheets, NEW k \in Nat, Pending(s, k + 1)
               PROVE  Pending(s, k)'
    OBVIOUS
  <2>1. PICK j \in DOMAIN late : j > k + 1 /\ late[j] = [sheet |-> s, text |-> jotted[s]]
    BY DEF Pending
  <2>2. j - 1 \in DOMAIN late' /\ j - 1 > k /\ late'[j - 1] = late[j]
    BY <1>3, <2>1
  <2>3. late'[j - 1] = [sheet |-> s, text |-> jotted'[s]]
    BY <1>1, <2>1, <2>2
  <2> QED
    BY <2>2, <2>3 DEF Pending
<1>12. RecordHolds'
  <2> SUFFICES ASSUME NEW s \in Sheets
               PROVE  own'.texts[s] = jotted'[s] \/ Excused(s)' \/ Pending(s, 0)'
    BY DEF RecordHolds
  <2>0. 0 \in Nat /\ 0 + 1 = 1
    OBVIOUS
  <2>1. CASE s = a
    <3>1. x = jotted[s] \/ Excused(s) \/ Pending(s, 1)
      BY <1>3, <1>4, <2>1 DEF NotesInv, LateHolds
    <3>2. Pending(s, 1) => Pending(s, 0)'
      BY <1>11, <2>0
    <3> QED
      BY <1>1, <1>6, <1>8, <1>10, <2>1, <3>1, <3>2
  <2>2. CASE s # a
    <3>1. own.texts[s] = jotted[s] \/ Excused(s) \/ Pending(s, 0)
      BY DEF NotesInv, RecordHolds
    <3>2. Pending(s, 0) => Pending(s, 1)
      <4>1. ASSUME NEW j \in DOMAIN late, late[j] = [sheet |-> s, text |-> jotted[s]]
            PROVE  j > 1
        <5>1. late[j].sheet = s /\ j \in Nat \ {0}
          BY <4>1, LateIsOfASheet
        <5> QED
          BY <1>4, <2>2, <5>1
      <4> QED
        BY <4>1 DEF Pending
    <3>3. Pending(s, 1) => Pending(s, 0)'
      BY <1>11, <2>0
    <3>4. own'.texts[s] = own.texts[s] /\ jotted'[s] = jotted[s]
      BY <1>1, <1>6, <1>8, <2>2
    <3> QED
      BY <1>10, <3>1, <3>2, <3>3, <3>4
  <2> QED
    BY <2>1, <2>2
<1>13. LateHolds'
  <2> SUFFICES ASSUME NEW i \in DOMAIN late'
               PROVE  (late[i].text = jotted[late[i].sheet] \/ Excused(late[i].sheet) \/ Pending(late[i].sheet, i))'
    BY DEF LateHolds
  <2>1. i \in Nat /\ i + 1 \in DOMAIN late /\ late'[i] = late[i + 1]
    BY <1>3
  <2>2. PICK s \in Sheets : s = late[i + 1].sheet
    BY <2>1, LateIsOfASheet
  <2>3. late[i + 1].text = jotted[s] \/ Excused(s) \/ Pending(s, i + 1)
    BY <2>1, <2>2 DEF NotesInv, LateHolds
  <2>4. late[i + 1].text = jotted'[s] \/ Excused(s)' \/ Pending(s, i)'
    BY <1>1, <1>10, <1>11, <2>1, <2>3
  <2> QED
    BY <2>1, <2>2, <2>4 DEF Excused, Pending
<1>14. TimerHolds' /\ CopyHoldsTheReplaced'
  BY <1>1, <1>8 DEF NotesInv, TimerHolds, CopyHoldsTheReplaced
<1> QED
  BY <1>8, <1>9, <1>12, <1>13, <1>14 DEF NotesInv

\* A criterion that is ticked changes no text.
LEMMA ToggleKeeps ==
    ASSUME NotesInv, NEW i \in Criteria, ToggleCriterion(i)
    PROVE  NotesInv'
<1>1. /\ SaveInto([own EXCEPT !.marks = Toggled(@, i)], note, {"marks"})
      /\ UNCHANGED <<at, late, file, copy, jotted, gone, missed>>
  BY DEF ToggleCriterion
<1>2. note \in NoteShapes /\ own \in NoteRecords
  BY DEF NotesInv, NoteTypes, NoteShapes
<1>3. PICK ms \in SUBSET Criteria : ms = Toggled(own.marks, i)
  BY <1>2 DEF Toggled, NoteRecords
<1>4. PICK r \in NoteRecords : r = [own EXCEPT !.marks = Toggled(@, i)] /\ r.texts = own.texts
  <2>1. [own EXCEPT !.marks = Toggled(@, i)] = [own EXCEPT !.marks = ms]
    BY <1>3
  <2>2. [own EXCEPT !.marks = ms] = [texts |-> own.texts, marks |-> ms]
    BY <1>2 DEF NoteRecords
  <2>3. [texts |-> own.texts, marks |-> ms] \in NoteRecords
    BY <1>2 DEF NoteRecords
  <2> QED
    BY <2>1, <2>2, <2>3
<1>5. \A f \in (Sheets \cup {"marks"}) \ {"marks"} : Held(r, f) = Held(own, f)
  BY <1>4 DEF Held
<1>6. PICK n \in NoteShapes : n = note
  BY <1>2
<1>7. own' = r /\ note' \in NoteShapes /\ note'.timer = note.timer /\ UntouchedShows' /\ FileHolds'
  <2>1. SaveInto(r, n, {"marks"})
    BY <1>1, <1>4, <1>6
  <2> QED
    BY <1>1, <1>5, <1>6, <2>1, SaveKeeps
<1>8. NoteTypes'
  BY <1>1, <1>7 DEF NotesInv, NoteTypes, NoteShapes
<1>9. RecordHolds' /\ LateHolds' /\ TimerHolds'
  BY <1>1, <1>4, <1>7, RestHolds
<1>10. CopyHoldsTheReplaced'
  BY <1>1 DEF NotesInv, CopyHoldsTheReplaced
<1> QED
  BY <1>7, <1>8, <1>9, <1>10 DEF NotesInv

\* What another device writes excuses what it wrote over.
LEMMA ElsewhereKeeps ==
    ASSUME NotesInv, NEW s \in Sheets, NEW x \in Jottings, WrittenElsewhere(s, x)
    PROVE  NotesInv'
<1>1. /\ SaveInto(WithText(s, x), note, {s}) /\ gone' = gone \cup {s}
      /\ UNCHANGED <<at, late, file, copy, jotted, missed>>
  BY DEF WrittenElsewhere
<1>2. note \in NoteShapes /\ own \in NoteRecords /\ x \in NoteTexts
  BY DEF NotesInv, NoteTypes, NoteShapes, NoteTexts
<1>3. PICK r : r = WithText(s, x)
  OBVIOUS
<1>4. /\ r \in NoteRecords /\ \A t \in Sheets \ {s} : r.texts[t] = own.texts[t]
      /\ \A f \in (Sheets \cup {"marks"}) \ {s} : Held(r, f) = Held(own, f)
  BY <1>2, <1>3, WithTextIs
<1>5. PICK n \in NoteShapes : n = note
  BY <1>2
<1>6. own' = r /\ note' \in NoteShapes /\ note'.timer = note.timer /\ UntouchedShows' /\ FileHolds'
  <2>1. SaveInto(r, n, {s})
    BY <1>1, <1>3, <1>5
  <2> QED
    BY <1>1, <1>4, <1>5, <2>1, SaveKeeps
<1>7. NoteTypes'
  BY <1>1, <1>4, <1>6 DEF NotesInv, NoteTypes, NoteShapes
<1>8. RecordHolds' /\ LateHolds' /\ TimerHolds'
  BY <1>1, <1>4, <1>6, RestHolds
<1>9. CopyHoldsTheReplaced'
  BY <1>1 DEF NotesInv, CopyHoldsTheReplaced
<1> QED
  BY <1>6, <1>7, <1>8, <1>9 DEF NotesInv

\* A project that is started brings its outline where nothing was typed, or when the learner agrees.
LEMMA StartKeeps ==
    ASSUME NotesInv, NEW agrees \in BOOLEAN, StartProject(agrees)
    PROVE  NotesInv'
<1> DEFINE asks == own.texts["play"] \notin {Blank, Outline}
<1>1. /\ at = "project"
      /\ own' = WithText("play", Outline) /\ note' = Hydrate("play", own')
      /\ at' = "play" /\ late' = late \o LeftOver
      /\ gone' = IF asks THEN gone \cup {"play"} ELSE gone
      /\ crossed' = crossed \cup (IF file = NoCopy THEN {} ELSE {"play"})
      /\ UNCHANGED <<file, copy, jotted, missed>>
  BY DEF StartProject
<1>2. own \in NoteRecords /\ "play" \in Sheets /\ Outline \in NoteTexts
  BY DEF NotesInv, NoteTypes, Sheets, NoteTexts
<1>3. /\ own' \in NoteRecords /\ own'.texts["play"] = Outline
      /\ \A t \in Sheets \ {"play"} : own'.texts[t] = own.texts[t]
      /\ \A f \in (Sheets \cup {"marks"}) \ {"play"} : Held(own', f) = Held(own, f)
  <2>1. PICK r : r = WithText("play", Outline)
    OBVIOUS
  <2>2. /\ r \in NoteRecords /\ r.texts["play"] = Outline
        /\ \A t \in Sheets \ {"play"} : r.texts[t] = own.texts[t]
        /\ \A f \in (Sheets \cup {"marks"}) \ {"play"} : Held(r, f) = Held(own, f)
    BY <1>2, <2>1, WithTextIs
  <2> QED
    BY <1>1, <2>1, <2>2
<1>4. note' = [text |-> Outline, touched |-> FALSE, timer |-> NoJotting]
  BY <1>1, <1>3 DEF Hydrate
<1>5. /\ LateHolds' /\ late' \in Seq(LateTimers)
      /\ \A s \in Sheets : own'.texts[s] = own.texts[s] \/ Excused(s)' \/ Pending(s, 0)' =>
           own'.texts[s] = jotted'[s] \/ Excused(s)' \/ Pending(s, 0)'
  <2>1. gone \subseteq gone'
    BY <1>1
  <2> QED
    BY <1>1, <2>1, LeavingHolds
<1>6. NoteTypes'
  <2>1. note' \in NoteShapes
    BY <1>2, <1>4 DEF NoteShapes
  <2>2. gone' \in SUBSET Sheets
    BY <1>1, <1>2 DEF NotesInv, NoteTypes
  <2> QED
    BY <1>1, <1>2, <1>3, <1>5, <2>1, <2>2 DEF NotesInv, NoteTypes, NoteShapes
<1>7. RecordHolds'
  <2> SUFFICES ASSUME NEW s \in Sheets
               PROVE  own'.texts[s] = jotted'[s] \/ Excused(s)' \/ Pending(s, 0)'
    BY DEF RecordHolds
  <2>1. CASE s # "play"
    BY <1>3, <1>5, <2>1
  <2>2. CASE s = "play" /\ asks
    BY <1>1, <2>2 DEF Excused
  <2>3. CASE s = "play" /\ ~asks /\ own.texts["play"] = Outline
    BY <1>3, <1>5, <2>3
  <2>4. CASE s = "play" /\ own.texts["play"] = Blank
    <3>1. own.texts[s] = jotted[s] \/ Excused(s) \/ Pending(s, 0)
      BY DEF NotesInv, RecordHolds
    <3>2. jotted[s] # Blank
      BY NotesAssumption DEF NotesInv, NoteTypes, NoJotting, Blank
    <3>3. at # s
      BY <1>1, <2>4
    <3>4. CASE Pending(s, 0)
      <4>1. \A k \in Nat : Pending(s, k) => Pending(s, k)'
        <5>1. gone \subseteq gone'
          BY <1>1
        <5> QED
          BY <1>1, <5>1, LeavingKeeps
      <4> QED
        BY <3>4, <4>1
    <3>5. CASE jotted[s] = NoJotting \/ s \in gone
      BY <1>1, <3>5 DEF Excused
    <3> QED
      BY <2>4, <3>1, <3>2, <3>3, <3>4, <3>5 DEF Excused
  <2> QED
    BY <2>1, <2>2, <2>3, <2>4
<1>8. TimerHolds' /\ UntouchedShows'
  BY <1>1, <1>3, <1>4 DEF TimerHolds, UntouchedShows
<1>9. FileHolds'
  <2> SUFFICES ASSUME file # NoCopy, NEW f \in (Sheets \cup {"marks"}) \ crossed'
               PROVE  Held(file, f) = Held(own', f)
    BY <1>1 DEF FileHolds, Held
  <2>1. f # "play" /\ f \notin crossed
    BY <1>1
  <2>2. Held(file, f) = Held(own, f)
    BY <2>1 DEF NotesInv, FileHolds
  <2> QED
    BY <1>3, <2>1, <2>2
<1>10. CopyHoldsTheReplaced'
  BY <1>1 DEF NotesInv, CopyHoldsTheReplaced
<1> QED
  BY <1>5, <1>6, <1>7, <1>8, <1>9, <1>10 DEF NotesInv

\* The record replaced by another: a backup or a fresh one.
LEMMA ReplacingKeeps ==
    ASSUME NotesInv, NEW r \in NoteRecords, ReplaceBy(r), UNCHANGED <<at, late, jotted>>, file' = NoCopy,
           \A f \in (Sheets \cup {"marks"}) \ crossed' : Held(copy', f) = Held(own, f)
    PROVE  NotesInv'
<1>1. own' = r /\ note' = Mirror(r, note) /\ gone' = Sheets /\ missed' = {}
  BY DEF ReplaceBy
<1>2. note \in NoteShapes /\ NoteTypes
  BY DEF NotesInv, NoteTypes, NoteShapes
<1>3. PICK n \in NoteShapes : n = note
  BY <1>2
<1>4. /\ Mirror(r, n) \in NoteShapes /\ Mirror(r, n).timer = n.timer
      /\ at \in Sheets /\ ~Mirror(r, n).touched => Mirror(r, n).text = r.texts[at]
  BY <1>2, MirrorShows DEF NoteShapes
<1>5. note' \in NoteShapes /\ note'.timer = note.timer /\ UntouchedShows'
  BY <1>1, <1>3, <1>4 DEF UntouchedShows
<1>6. NoteTypes'
  BY <1>1, <1>5 DEF NotesInv, NoteTypes, NoteShapes
<1>7. RecordHolds' /\ LateHolds' /\ TimerHolds'
  <2>1. gone \subseteq gone' /\ \A s \in Sheets : s \in gone'
    BY <1>1, <1>2 DEF NoteTypes
  <2> QED
    BY <1>5, <2>1, RestHolds
<1>8. FileHolds' /\ CopyHoldsTheReplaced'
  BY <1>1 DEF FileHolds, CopyHoldsTheReplaced
<1> QED
  BY <1>5, <1>6, <1>7, <1>8 DEF NotesInv

\* When nothing that the invariant is about changes but for the backup read.
LEMMA FileStepKeeps ==
    ASSUME NotesInv, UNCHANGED <<at, note, own, late, jotted, gone, missed>>, FileHolds'
    PROVE  NotesInv'
<1>1. NoteTypes' /\ UntouchedShows' /\ CopyHoldsTheReplaced'
  BY DEF NotesInv, NoteTypes, UntouchedShows, CopyHoldsTheReplaced
<1>2. RecordHolds' /\ LateHolds' /\ TimerHolds'
  BY RestHolds
<1> QED
  BY <1>1, <1>2 DEF NotesInv

\* A backup that is read replaces the record after it was downloaded.
LEMMA FileReadKeeps ==
    ASSUME NotesInv, NEW accepted \in BOOLEAN, FileRead(accepted)
    PROVE  NotesInv'
<1>1. /\ file # NoCopy /\ file' = NoCopy /\ UNCHANGED <<at, late, jotted, crossed>>
      /\ accepted => copy' = file /\ ReplaceBy(Backup)
      /\ ~accepted => UNCHANGED <<note, own, copy, gone, missed>>
  BY DEF FileRead
<1>2. CASE accepted
  <2>1. Backup \in NoteRecords
    BY DEF Backup, NoteRecords, NoteTexts
  <2>2. \A f \in (Sheets \cup {"marks"}) \ crossed' : Held(copy', f) = Held(own, f)
    BY <1>1, <1>2 DEF NotesInv, FileHolds
  <2>3. PICK r \in NoteRecords : r = Backup
    BY <2>1
  <2> QED
    BY <1>1, <1>2, <2>2, <2>3, ReplacingKeeps
<1>3. CASE ~accepted
  <2>1. FileHolds'
    BY <1>1 DEF FileHolds
  <2> QED
    BY <1>1, <1>3, <2>1, FileStepKeeps
<1> QED
  BY <1>2, <1>3

\* So does starting over.
LEMMA ResetNotesKeeps ==
    ASSUME NotesInv, NEW agrees \in BOOLEAN, ResetProgress(agrees)
    PROVE  NotesInv'
<1>1. /\ file = NoCopy /\ file' = file /\ UNCHANGED <<at, late, jotted>> /\ copy' = own
      /\ agrees => ReplaceBy(FreshRecord)
      /\ ~agrees => UNCHANGED <<note, own, gone, missed>>
  BY DEF ResetProgress
<1>2. CASE agrees
  <2>1. FreshRecord \in NoteRecords
    BY DEF FreshRecord, NoteRecords, NoteTexts
  <2>2. PICK r \in NoteRecords : r = FreshRecord
    BY <2>1
  <2> QED
    BY <1>1, <1>2, <2>2, ReplacingKeeps
<1>3. CASE ~agrees
  <2>1. FileHolds'
    BY <1>1 DEF FileHolds
  <2> QED
    BY <1>1, <1>3, <2>1, FileStepKeeps
<1> QED
  BY <1>2, <1>3

\* Every step of the notebook, the projects and the settings keeps what was typed.
LEMMA NotesStepKeeps == NotesInv /\ [NotesNext]_noteVars => NotesInv'
<1> SUFFICES ASSUME NotesInv, [NotesNext]_noteVars
             PROVE  NotesInv'
  OBVIOUS
<1>1. CASE UNCHANGED noteVars
  <2>1. UNCHANGED <<at, note, own, late, jotted, gone, missed, file, crossed>>
    BY <1>1 DEF noteVars, jotPast
  <2>2. FileHolds'
    BY <2>1 DEF NotesInv, FileHolds, Held
  <2> QED
    BY <2>1, <2>2, FileStepKeeps
<1>2. CASE \E to \in Sheets \cup {"settings"} : VisitPage(to)
  BY <1>2, VisitKeeps
<1>3. CASE LeavePage
  BY <1>3, LeaveKeeps
<1>4. CASE DueFires
  BY <1>4, DueKeeps
<1>5. CASE LateFires
  BY <1>5, LateKeeps
<1>6. CASE ExportProgress
  <2>1. UNCHANGED <<at, note, own, late, jotted, gone, missed, file, crossed>>
    BY <1>6 DEF ExportProgress, jotPast
  <2>2. FileHolds'
    BY <2>1 DEF NotesInv, FileHolds, Held
  <2> QED
    BY <2>1, <2>2, FileStepKeeps
<1>7. CASE PickFile
  <2>1. UNCHANGED <<at, note, own, late, jotted, gone, missed>> /\ file' = own
    BY <1>7 DEF PickFile
  <2>2. FileHolds'
    BY <2>1 DEF FileHolds, Held
  <2> QED
    BY <2>1, <2>2, FileStepKeeps
<1>8. CASE \E x \in Jottings : Jot(x) \/ \E s \in Sheets : WrittenElsewhere(s, x)
  BY <1>8, JotKeeps, ElsewhereKeeps
<1>9. CASE \E i \in Criteria : ToggleCriterion(i)
  BY <1>9, ToggleKeeps
<1>10. CASE \E b \in BOOLEAN : StartProject(b) \/ FileRead(b) \/ ResetProgress(b)
  BY <1>10, StartKeeps, FileReadKeeps, ResetNotesKeeps
<1> QED
  BY <1>1, <1>2, <1>3, <1>4, <1>5, <1>6, <1>7, <1>8, <1>9, <1>10 DEF NotesNext

\* What was typed on the notebook, in a project or as the draft it starts is in the
\* record, or a timer still holds it, whatever page the learner has gone to; a sheet
\* nobody typed on shows the record; and the download before an import or a reset
\* holds what they replace.
THEOREM NotesInvariant == NotesSpec => []NotesInv
<1>1. NotesInit => NotesInv
  BY NotesStart
<1>2. NotesInv /\ [NotesNext]_noteVars => NotesInv'
  BY NotesStepKeeps
<1> QED
  BY <1>1, <1>2, PTL DEF NotesSpec

-----------------------------------------------------------------------------

\* Levels and badges (Milestones).

\* A higher level takes more XP.
LEMMA ThresholdGrows ==
    ASSUME NEW i \in Nat \ {0}, NEW j \in Nat, i < j
    PROVE  LevelThreshold(i) < LevelThreshold(j)
<1>1. i * (i - 1) <= j * (i - 1)
  OBVIOUS
<1>2. j * (i - 1) < j * (j - 1)
  OBVIOUS
<1>3. LevelThreshold(i) = 50 * (i * (i - 1)) /\ LevelThreshold(j) = 50 * (j * (j - 1))
  BY DEF LevelThreshold
<1>4. PICK a \in Int, b \in Int, c \in Int :
          a = i * (i - 1) /\ b = j * (i - 1) /\ c = j * (j - 1)
  OBVIOUS
<1> QED
  BY <1>1, <1>2, <1>3, <1>4

\* Each level takes a hundred XP more than the one before took.
LEMMA NextThreshold ==
    ASSUME NEW l \in Nat
    PROVE  LevelThreshold(l) \in Int /\ LevelThreshold(l + 1) = LevelThreshold(l) + 100 * l
BY DEF LevelThreshold

\* Every number of XP has a level.
LEMMA LevelExists ==
    ASSUME NEW n \in Nat
    PROVE  \E l \in 1 .. n + 1 : LevelThreshold(l) <= n /\ n < LevelThreshold(l + 1)
<1> DEFINE P == {k \in Nat : \E l \in 1 .. k + 1 : LevelThreshold(l) <= k /\ k < LevelThreshold(l + 1)}
<1>1. 0 \in P
  <2>1. LevelThreshold(1) = 0 /\ LevelThreshold(2) = 100 /\ 1 \in 1 .. 0 + 1 /\ 1 + 1 = 2
    BY DEF LevelThreshold
  <2> QED
    BY <2>1
<1>2. ASSUME NEW k \in P PROVE k + 1 \in P
  <2>1. PICK l \in 1 .. k + 1 : LevelThreshold(l) <= k /\ k < LevelThreshold(l + 1)
    OBVIOUS
  <2>2. /\ k \in Nat /\ l \in Nat /\ l + 1 \in Nat /\ LevelThreshold(l + 1) \in Int
        /\ LevelThreshold((l + 1) + 1) = LevelThreshold(l + 1) + 100 * (l + 1)
        /\ LevelThreshold(l) \in Int
    BY <2>1, NextThreshold
  <2>3. CASE k + 1 < LevelThreshold(l + 1)
    BY <2>1, <2>2, <2>3
  <2>4. CASE ~(k + 1 < LevelThreshold(l + 1))
    <3>1. LevelThreshold(l + 1) <= k + 1 /\ k + 1 < LevelThreshold((l + 1) + 1)
      BY <2>1, <2>2, <2>4
    <3>2. l + 1 \in 1 .. (k + 1) + 1
      BY <2>1
    <3> QED
      BY <2>2, <3>1, <3>2
  <2> QED
    BY <2>3, <2>4
<1>3. P \in SUBSET Nat
  OBVIOUS
<1> HIDE DEF P
<1>4. P = Nat
  BY <1>1, <1>2, <1>3, NatInductionOnASet
<1> USE DEF P
<1> QED
  BY <1>4

\* One more XP leads to the next level or to none.
LEMMA LevelsFollow ==
    ASSUME NEW n \in Nat
    PROVE  LevelThreshold(LevelForXp(n)) <= n /\ LevelForXp(n + 1) - LevelForXp(n) \in {0, 1}
<1>1. /\ LevelForXp(n) \in 1 .. n + 1
      /\ LevelThreshold(LevelForXp(n)) <= n /\ n < LevelThreshold(LevelForXp(n) + 1)
  BY LevelExists DEF LevelForXp
<1>2. /\ LevelForXp(n + 1) \in 1 .. (n + 1) + 1
      /\ LevelThreshold(LevelForXp(n + 1)) <= n + 1 /\ n + 1 < LevelThreshold(LevelForXp(n + 1) + 1)
  <2>1. n + 1 \in Nat
    OBVIOUS
  <2> QED
    BY <2>1, LevelExists DEF LevelForXp
<1>3. PICK a \in Nat, b \in Nat : a = LevelForXp(n) /\ b = LevelForXp(n + 1) /\ a > 0 /\ b > 0
  BY <1>1, <1>2
<1>4. /\ LevelThreshold(a) \in Int /\ LevelThreshold(b) \in Int
      /\ LevelThreshold(a + 1) \in Int /\ LevelThreshold(b + 1) \in Int
  BY NextThreshold
<1>5. ~(b + 1 < a)
  <2>1. ASSUME b + 1 < a PROVE LevelThreshold(b + 1) < LevelThreshold(a)
    BY <1>3, <2>1, ThresholdGrows
  <2> QED
    BY <1>1, <1>2, <1>3, <1>4, <2>1
<1>6. b + 1 # a
  BY <1>1, <1>2, <1>3, <1>4
<1>7. ~(a + 1 < b)
  <2>1. ASSUME a + 1 < b PROVE LevelThreshold(a + 1) < LevelThreshold(b)
    BY <1>3, <2>1, ThresholdGrows
  <2> QED
    BY <1>1, <1>2, <1>3, <1>4, <2>1
<1> QED
  BY <1>1, <1>3, <1>5, <1>6, <1>7

Stats == [is: Nat, target: Nat \ {0}]

\* Of three, the first nearest if it is nearer than the second, and that no farther
\* than the third.
LEMMA NearerTwice ==
    ASSUME NEW a \in Stats, NEW b \in Stats, NEW c \in Stats, ~Nearer(b, a), ~Nearer(c, b)
    PROVE  /\ ~Nearer(c, a)
           /\ Nearer(a, b) \/ Nearer(b, c) => Nearer(a, c)
<1>1. PICK ai \in Nat, bi \in Nat, ci \in Nat, ag \in Nat \ {0}, bg \in Nat \ {0}, cg \in Nat \ {0} :
          ai = a.is /\ bi = b.is /\ ci = c.is /\ ag = a.target /\ bg = b.target /\ cg = c.target
  BY DEF Stats
<1>2. PICK ab \in Nat, ba \in Nat, bc \in Nat, cb \in Nat, ac \in Nat, ca \in Nat :
          /\ ab = ai * bg /\ ba = bi * ag /\ bc = bi * cg /\ cb = ci * bg
          /\ ac = ai * cg /\ ca = ci * ag
  OBVIOUS
<1>3. ab >= ba /\ bc >= cb
  BY <1>1, <1>2 DEF Nearer
<1>4. ab * cg >= ba * cg /\ bc * ag >= cb * ag
  BY <1>3
<1>5. ba * cg = bc * ag /\ ab * cg = ac * bg /\ cb * ag = ca * bg
  BY <1>2
<1>6. ac * bg >= ca * bg
  <2>1. PICK u \in Nat, v \in Nat, w \in Nat : u = ab * cg /\ v = ba * cg /\ w = cb * ag
    OBVIOUS
  <2> QED
    BY <1>4, <1>5, <2>1
<1>7. ac >= ca
  <2>1. ASSUME ac < ca PROVE ac * bg < ca * bg
    BY <2>1
  <2> QED
    BY <1>6, <2>1
<1>8. ASSUME ab > ba \/ bc > cb PROVE ac > ca
  <2>1. ab > ba => ab * cg > ba * cg
    OBVIOUS
  <2>2. bc > cb => bc * ag > cb * ag
    OBVIOUS
  <2>3. ac * bg > ca * bg
    <3>1. PICK u \in Nat, v \in Nat, w \in Nat : u = ab * cg /\ v = ba * cg /\ w = cb * ag
      OBVIOUS
    <3> QED
      BY <1>4, <1>5, <1>8, <2>1, <2>2, <3>1
  <2>4. ac # ca
    BY <2>3
  <2> QED
    BY <1>7, <2>4
<1> QED
  BY <1>1, <1>2, <1>7, <1>8 DEF Nearer

\* Of two badges at most one is nearer.
LEMMA NotBothNearer ==
    ASSUME NEW a \in Stats, NEW b \in Stats
    PROVE  Nearer(a, b) => ~Nearer(b, a)
<1>1. PICK ai \in Nat, bi \in Nat, ag \in Nat, bg \in Nat :
          ai = a.is /\ bi = b.is /\ ag = a.target /\ bg = b.target
  BY DEF Stats
<1>2. PICK ab \in Nat, ba \in Nat : ab = ai * bg /\ ba = bi * ag
  OBVIOUS
<1> QED
  BY <1>1, <1>2 DEF Nearer

\* The order of the badges is one: of two, one comes before; and it is passed on.
LEMMA BeforeIsTotal ==
    ASSUME NEW bs, NEW i \in Int, NEW j \in Int, i # j
    PROVE  Before(bs, i, j) \/ Before(bs, j, i)
<1>1. i < j \/ j < i
  OBVIOUS
<1>2. CASE Earned(bs[i]) # Earned(bs[j])
  <2>1. Earned(bs[i]) \/ Earned(bs[j])
    BY <1>2 DEF Earned
  <2> QED
    BY <1>2, <2>1 DEF Before
<1>3. CASE /\ Earned(bs[i]) = Earned(bs[j])
           /\ ~Earned(bs[i]) /\ (Nearer(bs[i], bs[j]) \/ Nearer(bs[j], bs[i]))
  <2>1. Before(bs, i, j) = Nearer(bs[i], bs[j]) /\ Before(bs, j, i) = Nearer(bs[j], bs[i])
    BY <1>3 DEF Before
  <2> QED
    BY <1>3, <2>1
<1>4. CASE /\ Earned(bs[i]) = Earned(bs[j])
           /\ ~(~Earned(bs[i]) /\ (Nearer(bs[i], bs[j]) \/ Nearer(bs[j], bs[i])))
  <2>1. Before(bs, i, j) = (i < j) /\ Before(bs, j, i) = (j < i)
    BY <1>4 DEF Before
  <2> QED
    BY <1>1, <2>1
<1> QED
  BY <1>2, <1>3, <1>4

\* The order of badges is transitive.
LEMMA BeforeIsPassedOn ==
    ASSUME NEW bs, NEW i \in Int, NEW j \in Int, NEW k \in Int,
           bs[i] \in Stats, bs[j] \in Stats, bs[k] \in Stats,
           Before(bs, i, j), Before(bs, j, k)
    PROVE  Before(bs, i, k)
<1>1. /\ Nearer(bs[i], bs[j]) => ~Nearer(bs[j], bs[i])
      /\ Nearer(bs[j], bs[k]) => ~Nearer(bs[k], bs[j])
  BY NotBothNearer
<1>2. CASE Earned(bs[i]) /\ Earned(bs[j]) /\ Earned(bs[k])
  <2>1. i < j /\ j < k
    BY <1>2 DEF Before
  <2> QED
    BY <1>2, <2>1 DEF Before
<1>3. CASE Earned(bs[i]) /\ ~Earned(bs[k])
  BY <1>3 DEF Before
<1>4. CASE ~Earned(bs[i]) /\ ~Earned(bs[j]) /\ ~Earned(bs[k])
  <2>1. ~Nearer(bs[j], bs[i]) /\ (Nearer(bs[i], bs[j]) \/ i < j)
    BY <1>1, <1>4 DEF Before
  <2>2. ~Nearer(bs[k], bs[j]) /\ (Nearer(bs[j], bs[k]) \/ j < k)
    BY <1>1, <1>4 DEF Before
  <2>3. /\ ~Nearer(bs[k], bs[i])
        /\ Nearer(bs[i], bs[j]) \/ Nearer(bs[j], bs[k]) => Nearer(bs[i], bs[k])
    BY <2>1, <2>2, NearerTwice
  <2>4. Nearer(bs[i], bs[k]) \/ i < k
    BY <2>1, <2>2, <2>3
  <2> QED
    BY <1>4, <2>3, <2>4 DEF Before
<1>5. (Earned(bs[j]) => Earned(bs[i])) /\ (Earned(bs[k]) => Earned(bs[j]))
  BY DEF Before
<1> QED
  BY <1>2, <1>3, <1>4, <1>5

\* So of some that are left one comes before all others.
LEMMA OneIsFirst ==
    ASSUME NEW n \in Nat, NEW bs \in [1 .. n -> Stats], NEW S \in SUBSET (1 .. n), S # {}
    PROVE  FirstOf(bs, S) \in S /\ \A j \in S \ {FirstOf(bs, S)} : Before(bs, FirstOf(bs, S), j)
<1> DEFINE Firsts(k) == {i \in S : i <= k /\ \A j \in S \ {i} : j <= k => Before(bs, i, j)}
           P == {k \in Nat : (\E i \in S : i <= k) => Firsts(k) # {}}
<1>1. 0 \in P
  OBVIOUS
<1>2. ASSUME NEW k \in P PROVE k + 1 \in P
  <2>1. SUFFICES ASSUME \E i \in S : i <= k + 1 PROVE Firsts(k + 1) # {}
    OBVIOUS
  <2>2. k \in Nat /\ \A i \in S : i \in 1 .. n /\ bs[i] \in Stats
    OBVIOUS
  <2>3. CASE k + 1 \notin S
    <3>1. \A i \in S : i <= k + 1 <=> i <= k
      BY <2>2, <2>3
    <3>2. PICK i \in Firsts(k) : TRUE
      BY <2>1, <3>1
    <3>3. i \in Firsts(k + 1)
      BY <3>1, <3>2
    <3> QED
      BY <3>3
  <2>4. CASE k + 1 \in S /\ ~\E i \in S : i <= k
    <3>1. \A i \in S : i <= k + 1 => i = k + 1
      BY <2>2, <2>4
    <3>2. k + 1 \in Firsts(k + 1)
      BY <2>2, <2>4, <3>1
    <3> QED
      BY <3>2
  <2>5. CASE k + 1 \in S /\ \E i \in S : i <= k
    <3>1. PICK m \in Firsts(k) : TRUE
      BY <2>5
    <3>2. m \in S /\ m <= k /\ \A j \in S \ {m} : j <= k => Before(bs, m, j)
      BY <3>1
    <3>3. \A i \in S : i <= k + 1 => i <= k \/ i = k + 1
      BY <2>2
    <3>4. CASE Before(bs, m, k + 1)
      <4>1. m \in Firsts(k + 1)
        BY <2>2, <3>2, <3>3, <3>4
      <4> QED
        BY <4>1
    <3>5. CASE ~Before(bs, m, k + 1)
      <4>1. Before(bs, k + 1, m)
        BY <2>2, <2>5, <3>2, <3>5, BeforeIsTotal
      <4>2. ASSUME NEW j \in S \ {k + 1}, j <= k + 1 PROVE Before(bs, k + 1, j)
        <5>1. j <= k
          BY <3>3, <4>2
        <5>2. CASE j = m
          BY <4>1, <5>2
        <5>3. CASE j # m
          <6>1. Before(bs, m, j)
            BY <3>2, <5>1, <5>3
          <6>2. k + 1 \in Int /\ m \in Int /\ j \in Int /\ bs[k + 1] \in Stats /\ bs[m] \in Stats /\ bs[j] \in Stats
            BY <2>2, <2>5, <3>2
          <6> QED
            BY <4>1, <6>1, <6>2, BeforeIsPassedOn
        <5> QED
          BY <5>2, <5>3
      <4>3. k + 1 \in Firsts(k + 1)
        BY <2>2, <2>5, <4>2
      <4> QED
        BY <4>3
    <3> QED
      BY <3>4, <3>5
  <2> QED
    BY <2>3, <2>4, <2>5
<1>3. n \in P
  <2>1. P \in SUBSET Nat
    OBVIOUS
  <2> HIDE DEF P
  <2>2. P = Nat
    BY <1>1, <1>2, <2>1, NatInductionOnASet
  <2> QED
    BY <2>2
<1>4. PICK i \in S : \A j \in S \ {i} : Before(bs, i, j)
  <2>1. \A i \in S : i <= n
    OBVIOUS
  <2>2. PICK i \in Firsts(n) : TRUE
    BY <1>3, <2>1
  <2> QED
    BY <2>1, <2>2
<1> QED
  BY <1>4 DEF FirstOf

\* The badges that are shown, one after the other: each is one that is left, and
\* before the others that are.
Shown1To(bs, f, n) ==
    /\ f[0] = <<>>
    /\ \A k \in 1 .. n : LET s == f[k - 1] IN
         f[k] = Append(s, FirstOf(bs, DOMAIN bs \ {s[j] : j \in DOMAIN s}))

\* Sorting by taking the first of the rest again and again comes to an end.
LEMMA BadgesAreShown ==
    ASSUME NEW n \in Nat, NEW bs \in [1 .. n -> Stats], Len(bs) = n
    PROVE  \E f : /\ Shown1To(bs, f, n) /\ SortBadges(bs) = f[n]
                  /\ \A k \in 0 .. n : f[k] \in Seq(1 .. n \cup {FirstOf(bs, {})})
<1> DEFINE X == 1 .. n \cup {FirstOf(bs, {})}
           Next1(s) == Append(s, FirstOf(bs, DOMAIN bs \ {s[j] : j \in DOMAIN s}))
           step == [k \in 1 .. n |-> [s \in Seq(X) |-> Next1(s)]]
<1>1. ASSUME NEW s \in Seq(X) PROVE Next1(s) \in Seq(X)
  <2>1. PICK S \in SUBSET (1 .. n) : S = DOMAIN bs \ {s[j] : j \in DOMAIN s}
    OBVIOUS
  <2>2. FirstOf(bs, S) \in X
    BY OneIsFirst
  <2> QED
    BY <2>1, <2>2
<1>2. step \in [1 .. n -> [Seq(X) -> Seq(X)]]
  BY <1>1
<1>3. \A k \in 1 .. n, s \in Seq(X) : step[k][s] = Next1(s)
  OBVIOUS
<1>4. <<>> \in Seq(X)
  OBVIOUS
<1> HIDE DEF step, X
<1>5. PICK f : Follows(f, Seq(X), <<>>, step, n)
  BY <1>2, <1>4, StepsAfterSteps DEF StepsOn
<1>6. f \in [0 .. n -> Seq(X)] /\ f[0] = <<>> /\ \A k \in 1 .. n : f[k] = step[k][f[k - 1]]
  BY <1>5 DEF Follows
<1> HIDE DEF Next1
<1>7. ASSUME NEW k \in 1 .. n PROVE f[k] = Next1(f[k - 1])
  <2>1. k - 1 \in 0 .. n
    OBVIOUS
  <2>2. f[k - 1] \in Seq(X) /\ f[k] = step[k][f[k - 1]]
    BY <1>6, <2>1
  <2> QED
    BY <1>3, <2>2
<1>8. f = [k \in 0 .. n |-> IF k = 0 THEN <<>> ELSE Next1(f[k - 1])]
  <2>1. ASSUME NEW k \in 0 .. n PROVE f[k] = IF k = 0 THEN <<>> ELSE Next1(f[k - 1])
    <3>1. CASE k = 0
      BY <1>6, <3>1
    <3>2. CASE k # 0
      <4>1. k \in 1 .. n
        BY <3>2
      <4> QED
        BY <1>7, <3>2, <4>1
    <3> QED
      BY <3>1, <3>2
  <2> QED
    BY <1>6, <2>1
<1> DEFINE sh[k \in 0 .. Len(bs)] ==
             IF k = 0 THEN <<>>
             ELSE LET s == sh[k - 1]
                  IN Append(s, FirstOf(bs, DOMAIN bs \ {s[j] : j \in DOMAIN s}))
<1>9. sh = [k \in 0 .. n |-> IF k = 0 THEN <<>> ELSE Next1(sh[k - 1])]
  BY <1>8 DEF Next1
<1>10. SortBadges(bs) = sh[n]
  BY DEF SortBadges
<1> HIDE DEF sh
<1> DEFINE P == {k \in Nat : k <= n => sh[k] = f[k]}
<1>11. 0 \in P
  BY <1>6, <1>9
<1>12. ASSUME NEW k \in P PROVE k + 1 \in P
  <2>1. SUFFICES ASSUME k + 1 <= n PROVE sh[k + 1] = f[k + 1]
    OBVIOUS
  <2>2. k \in Nat /\ sh[k] = f[k] /\ k + 1 \in 1 .. n /\ k + 1 \in 0 .. n /\ k + 1 # 0 /\ (k + 1) - 1 = k
    BY <2>1
  <2>3. sh[k + 1] = Next1(sh[k]) /\ f[k + 1] = Next1(f[k])
    BY <1>7, <1>9, <2>2
  <2> QED
    BY <2>2, <2>3
<1>13. n \in P
  <2>1. P \in SUBSET Nat
    OBVIOUS
  <2> HIDE DEF P
  <2>2. P = Nat
    BY <1>11, <1>12, <2>1, NatInductionOnASet
  <2> QED
    BY <2>2
<1>14. SortBadges(bs) = f[n] /\ Shown1To(bs, f, n)
  <2>1. SortBadges(bs) = f[n]
    BY <1>10, <1>13
  <2>2. \A k \in 1 .. n : f[k] = Append(f[k - 1], FirstOf(bs, DOMAIN bs \ {f[k - 1][j] : j \in DOMAIN f[k - 1]}))
    BY <1>7 DEF Next1
  <2>3. Shown1To(bs, f, n)
    BY <1>6, <2>2 DEF Shown1To
  <2> QED
    BY <2>1, <2>3
<1> QED
  BY <1>6, <1>14 DEF X

\* A sequence with one more, and what is on it.
OnIt(s) == {s[j] : j \in DOMAIN s}
WithOne(s, x) == Append(s, x)

\* A list with one more has one more on it.
LEMMA OneMoreOn ==
    ASSUME NEW X, NEW s \in Seq(X), NEW x \in X
    PROVE  OnIt(WithOne(s, x)) = OnIt(s) \cup {x}
<1>0. PICK t : t = WithOne(s, x)
  OBVIOUS
<1>1. /\ t \in Seq(X) /\ Len(t) = Len(s) + 1 /\ t[Len(s) + 1] = x /\ Len(s) \in Nat
      /\ \A j \in 1 .. Len(s) : t[j] = s[j]
  BY <1>0 DEF WithOne
<1>2. DOMAIN t = 1 .. Len(s) + 1 /\ DOMAIN s = 1 .. Len(s)
  BY <1>1
<1>3. ASSUME NEW y \in {t[j] : j \in DOMAIN t} PROVE y \in {s[j] : j \in DOMAIN s} \cup {x}
  <2>1. PICK j \in DOMAIN t : y = t[j]
    OBVIOUS
  <2>2. CASE j = Len(s) + 1
    BY <1>1, <2>1, <2>2
  <2>3. CASE j # Len(s) + 1
    <3>1. j \in DOMAIN s /\ y = s[j]
      BY <1>1, <1>2, <2>1, <2>3
    <3> QED
      BY <3>1
  <2> QED
    BY <2>2, <2>3
<1>4. ASSUME NEW y \in {s[j] : j \in DOMAIN s} \cup {x} PROVE y \in {t[j] : j \in DOMAIN t}
  <2>1. CASE y = x
    <3>1. Len(s) + 1 \in DOMAIN t
      BY <1>1, <1>2
    <3> QED
      BY <1>1, <2>1, <3>1
  <2>2. CASE y # x
    <3>1. PICK j \in DOMAIN s : y = s[j]
      BY <2>2
    <3>2. j \in DOMAIN t /\ y = t[j]
      BY <1>1, <1>2, <3>1
    <3> QED
      BY <3>2
  <2> QED
    BY <2>1, <2>2
<1> QED
  BY <1>0, <1>3, <1>4 DEF OnIt

\* Each badge that is shown comes before the next.
LEMMA BadgesAreInOrder ==
    ASSUME NEW n \in Nat, NEW bs \in [1 .. n -> Stats], Len(bs) = n,
           NEW i \in 1 .. n, i + 1 \in 1 .. n
    PROVE  /\ SortBadges(bs)[i] \in 1 .. n /\ SortBadges(bs)[i + 1] \in 1 .. n
           /\ Before(bs, SortBadges(bs)[i], SortBadges(bs)[i + 1])
<1>1. PICK f : /\ Shown1To(bs, f, n) /\ SortBadges(bs) = f[n]
               /\ \A k \in 0 .. n : f[k] \in Seq(1 .. n \cup {FirstOf(bs, {})})
  BY BadgesAreShown
<1> DEFINE X == 1 .. n \cup {FirstOf(bs, {})}
           Unshown(k) == 1 .. n \ OnIt(f[k])
           FirstLeft(k) == FirstOf(bs, Unshown(k))
<1>2. /\ f[0] = <<>> /\ DOMAIN bs = 1 .. n
      /\ \A k \in 0 .. n : f[k] \in Seq(X)
      /\ \A k \in 1 .. n : f[k] = Append(f[k - 1], FirstLeft(k - 1))
  BY <1>1 DEF Shown1To, OnIt
<1>3. \A k \in 0 .. n : FirstLeft(k) \in X
  <2> SUFFICES ASSUME NEW k \in 0 .. n PROVE FirstLeft(k) \in X
    OBVIOUS
  <2>1. PICK S \in SUBSET (1 .. n) : S = Unshown(k)
    OBVIOUS
  <2>2. FirstOf(bs, S) \in X
    BY OneIsFirst
  <2> QED
    BY <2>1, <2>2
<1>4. ASSUME NEW k \in 1 .. n
      PROVE  /\ Len(f[k]) = Len(f[k - 1]) + 1 /\ f[k][Len(f[k - 1]) + 1] = FirstLeft(k - 1)
             /\ \A j \in 1 .. Len(f[k - 1]) : f[k][j] = f[k - 1][j]
             /\ Unshown(k) = Unshown(k - 1) \ {FirstLeft(k - 1)}
  <2>1. k - 1 \in 0 .. n
    OBVIOUS
  <2>0. PICK t : t = f[k]
    OBVIOUS
  <2>2. PICK s \in Seq(X), x \in X : s = f[k - 1] /\ x = FirstLeft(k - 1) /\ t = f[k]
    BY <1>2, <1>3, <2>0, <2>1
  <2>3. t = WithOne(s, x)
    BY <1>2, <2>2 DEF WithOne
  <2>4. /\ Len(t) = Len(s) + 1 /\ t[Len(s) + 1] = x
        /\ \A j \in 1 .. Len(s) : t[j] = s[j]
        /\ OnIt(t) = OnIt(s) \cup {x}
    <3>1. s \in Seq(X) /\ x \in X
      BY <2>2
    <3> HIDE DEF X
    <3>2. /\ Len(t) = Len(s) + 1 /\ t[Len(s) + 1] = x
          /\ \A j \in 1 .. Len(s) : t[j] = s[j]
      BY <2>3, <3>1 DEF WithOne
    <3>3. OnIt(WithOne(s, x)) = OnIt(s) \cup {x}
      BY <3>1, OneMoreOn
    <3> QED
      BY <2>3, <3>2, <3>3
  <2>5. Unshown(k) = Unshown(k - 1) \ {x}
    BY <2>2, <2>4
  <2> QED
    BY <2>2, <2>4, <2>5
<1> DEFINE P == {k \in Nat : k <= n => /\ Len(f[k]) = k /\ IsFiniteSet(Unshown(k))
                                       /\ Cardinality(Unshown(k)) = n - k
                                       /\ k < n => /\ FirstLeft(k) \in Unshown(k)
                                                   /\ \A j \in Unshown(k) \ {FirstLeft(k)} : Before(bs, FirstLeft(k), j)}
<1>5. ASSUME NEW k \in Nat, IsFiniteSet(Unshown(k)), Cardinality(Unshown(k)) = n - k, k < n
      PROVE  FirstLeft(k) \in Unshown(k) /\ \A j \in Unshown(k) \ {FirstLeft(k)} : Before(bs, FirstLeft(k), j)
  <2>1. PICK S \in SUBSET (1 .. n) : S = Unshown(k)
    OBVIOUS
  <2>2. S # {}
    BY <1>5, <2>1, FS_EmptySet
  <2>3. FirstOf(bs, S) \in S /\ \A j \in S \ {FirstOf(bs, S)} : Before(bs, FirstOf(bs, S), j)
    BY <2>2, OneIsFirst
  <2> QED
    BY <2>1, <2>3
<1>6. 0 \in P
  <2>1. Len(f[0]) = 0 /\ Unshown(0) = 1 .. n
    BY <1>2 DEF OnIt
  <2>2. IsFiniteSet(1 .. n) /\ Cardinality(1 .. n) = n
    BY FS_Interval
  <2>3. IsFiniteSet(Unshown(0)) /\ Cardinality(Unshown(0)) = n - 0
    <3> HIDE DEF Unshown
    <3> QED
      BY <2>1, <2>2
  <2>4. 0 < n => /\ FirstLeft(0) \in Unshown(0)
                 /\ \A j \in Unshown(0) \ {FirstLeft(0)} : Before(bs, FirstLeft(0), j)
    BY <1>5, <2>3
  <2> HIDE DEF FirstLeft, Unshown
  <2> QED
    BY <2>1, <2>3, <2>4
<1>7. ASSUME NEW k \in P PROVE k + 1 \in P
  <2>1. CASE k + 1 <= n
    <3>1. /\ k \in Nat /\ k + 1 \in 1 .. n /\ (k + 1) - 1 = k /\ Len(f[k]) = k /\ IsFiniteSet(Unshown(k))
          /\ Cardinality(Unshown(k)) = n - k /\ FirstLeft(k) \in Unshown(k)
      BY <2>1
    <3>2. Len(f[k + 1]) = k + 1 /\ Unshown(k + 1) = Unshown(k) \ {FirstLeft(k)}
      <4> HIDE DEF Unshown, FirstLeft
      <4> QED
        BY <1>4, <3>1
    <3>3. IsFiniteSet(Unshown(k + 1)) /\ Cardinality(Unshown(k + 1)) = n - (k + 1)
      <4> HIDE DEF Unshown, FirstLeft
      <4> QED
        BY <3>1, <3>2, FS_RemoveElement
    <3>4. k + 1 < n => /\ FirstLeft(k + 1) \in Unshown(k + 1)
                       /\ \A j \in Unshown(k + 1) \ {FirstLeft(k + 1)} : Before(bs, FirstLeft(k + 1), j)
      <4> HIDE DEF Unshown, FirstLeft
      <4> QED
        BY <1>5, <3>1, <3>3
    <3> HIDE DEF FirstLeft, Unshown
    <3> QED
      BY <3>1, <3>2, <3>3, <3>4
  <2>2. CASE ~(k + 1 <= n)
    BY <2>2
  <2> QED
    BY <2>1, <2>2
<1>8. \A k \in Nat : k \in P
  <2>1. P \in SUBSET Nat
    OBVIOUS
  <2> HIDE DEF P
  <2> QED
    BY <1>6, <1>7, <2>1, NatInductionOnASet
<1>9. \A k \in 0 .. n - 1 : /\ Len(f[k]) = k /\ FirstLeft(k) \in Unshown(k)
                            /\ \A j \in Unshown(k) \ {FirstLeft(k)} : Before(bs, FirstLeft(k), j)
  <2> HIDE DEF FirstLeft, Unshown
  <2> QED
    BY <1>8
\* What is shown once stays where it is.
<1> DEFINE Q == {k \in Nat : k <= n => \A j \in 1 .. k : f[k][j] = FirstLeft(j - 1)}
<1>10. 0 \in Q
  OBVIOUS
<1>11. ASSUME NEW k \in Q PROVE k + 1 \in Q
  <2>1. SUFFICES ASSUME k + 1 <= n, NEW j \in 1 .. k + 1 PROVE f[k + 1][j] = FirstLeft(j - 1)
    <3> HIDE DEF FirstLeft
    <3> QED
      OBVIOUS
  <2>2. k \in 0 .. n - 1 /\ k + 1 \in 1 .. n /\ (k + 1) - 1 = k /\ \A m \in 1 .. k : f[k][m] = FirstLeft(m - 1)
    BY <2>1
  <2>3. Len(f[k]) = k /\ f[k + 1][k + 1] = FirstLeft(k) /\ \A m \in 1 .. k : f[k + 1][m] = f[k][m]
    <3> HIDE DEF FirstLeft, Unshown
    <3> QED
      BY <1>4, <1>9, <2>2
  <2> HIDE DEF FirstLeft
  <2>4. CASE j = k + 1
    BY <2>2, <2>3, <2>4
  <2>5. CASE j # k + 1
    <3>1. j \in 1 .. k
      BY <2>2, <2>5
    <3> QED
      BY <2>2, <2>3, <3>1
  <2> QED
    BY <2>4, <2>5
<1>12. \A j \in 1 .. n : f[n][j] = FirstLeft(j - 1)
  <2>1. Q \in SUBSET Nat
    OBVIOUS
  <2> HIDE DEF Q
  <2>2. n \in Q
    BY <1>10, <1>11, <2>1, NatInductionOnASet
  <2> USE DEF Q
  <2> HIDE DEF FirstLeft
  <2> QED
    BY <2>2
<1>13. i - 1 \in 0 .. n - 1 /\ i \in 0 .. n - 1 /\ (i + 1) - 1 = i
  OBVIOUS
<1>14. SortBadges(bs)[i] = FirstLeft(i - 1) /\ SortBadges(bs)[i + 1] = FirstLeft(i)
  <2> HIDE DEF FirstLeft
  <2> QED
    BY <1>1, <1>12, <1>13
<1>15. Unshown(i) = Unshown(i - 1) \ {FirstLeft(i - 1)}
  BY <1>4
<1>16. /\ FirstLeft(i - 1) \in Unshown(i - 1) /\ FirstLeft(i) \in Unshown(i)
       /\ \A j \in Unshown(i - 1) \ {FirstLeft(i - 1)} : Before(bs, FirstLeft(i - 1), j)
  <2> HIDE DEF FirstLeft, Unshown
  <2> QED
    BY <1>9, <1>13
<1>17. FirstLeft(i - 1) \in 1 .. n /\ FirstLeft(i) \in 1 .. n
  <2>1. \A k \in 0 .. n : Unshown(k) \subseteq 1 .. n
    OBVIOUS
  <2> HIDE DEF FirstLeft, Unshown
  <2> QED
    BY <1>13, <1>16, <2>1
<1> HIDE DEF FirstLeft, Unshown
<1> QED
  BY <1>14, <1>15, <1>16, <1>17

\* There are ten badges.
LEMMA BadgesAreStats ==
    ASSUME NEW d \in [Marks -> Nat], NEW days \in Nat
    PROVE  Badges(d, days) \in [1 .. 10 -> Stats] /\ Len(Badges(d, days)) = 10
<1>1. Languages(d) \in Nat
  <2>1. IsFiniteSet({"js", "cs"})
    <3>1. IsFiniteSet({"js"})
      BY FS_Singleton
    <3>2. IsFiniteSet({"js"} \cup {"cs"})
      BY <3>1, FS_AddElement
    <3>3. {"js", "cs"} = {"js"} \cup {"cs"}
      OBVIOUS
    <3> QED
      BY <3>2, <3>3
  <2>2. IsFiniteSet({m \in {"js", "cs"} : d[m] > 0})
    BY <2>1, FS_Subset
  <2> QED
    BY <2>2, FS_CardinalityType DEF Languages
<1>2. \A m \in {"js", "cs", "solved", "quizzes", "kept", "certificates"} : d[m] \in Nat
  BY DEF Marks
<1>3. LessonsDone(d) \in Nat
  BY <1>2 DEF LessonsDone
<1>4. \A x \in Nat, g \in Nat \ {0} : [is |-> x, target |-> g] \in Stats
  BY DEF Stats
<1> DEFINE x1 == [is |-> LessonsDone(d), target |-> 1]
           x2 == [is |-> LessonsDone(d), target |-> 10]
           x3 == [is |-> d["solved"], target |-> 10]
           x4 == [is |-> d["quizzes"], target |-> 10]
           x5 == [is |-> d["kept"], target |-> 10]
           x6 == [is |-> Languages(d), target |-> 2]
           x7 == [is |-> days, target |-> 3]
           x8 == [is |-> days, target |-> 7]
           x9 == [is |-> days, target |-> 30]
           x10 == [is |-> d["certificates"], target |-> 1]
<1>5. /\ x1 \in Stats /\ x2 \in Stats /\ x3 \in Stats /\ x4 \in Stats /\ x5 \in Stats
      /\ x6 \in Stats /\ x7 \in Stats /\ x8 \in Stats /\ x9 \in Stats /\ x10 \in Stats
  BY <1>1, <1>2, <1>3, <1>4
<1>6. Badges(d, days) = <<x1, x2, x3, x4, x5, x6, x7, x8, x9, x10>>
  BY DEF Badges
<1> HIDE DEF x1, x2, x3, x4, x5, x6, x7, x8, x9, x10
<1> HIDE DEF Stats
<1>7. <<x1, x2, x3, x4, x5, x6, x7, x8, x9, x10>> \in Seq(Stats)
  BY <1>5
<1>8. Len(<<x1, x2, x3, x4, x5, x6, x7, x8, x9, x10>>) = 10
  OBVIOUS
<1> QED
  BY <1>6, <1>7, <1>8

\* XP are a number, and more of anything is no less XP.
LEMMA XpGrows ==
    ASSUME NEW d \in [Marks -> Nat]
    PROVE  /\ ComputeXp(d) \in Nat
           /\ \A m \in Marks, n \in Nat : ComputeXp([d EXCEPT ![m] = @ + n]) >= ComputeXp(d)
<1>1. PICK js \in Nat, csd \in Nat, so \in Nat, qu \in Nat, ke \in Nat, ce \in Nat :
          /\ js = d["js"] /\ csd = d["cs"] /\ so = d["solved"] /\ qu = d["quizzes"]
          /\ ke = d["kept"] /\ ce = d["certificates"]
  BY DEF Marks
<1>2. ComputeXp(d) = (js + csd) * 40 + so * 30 + qu * 15 + ke * 8 + ce * 200
  BY <1>1 DEF ComputeXp, Worth
<1>3. ASSUME NEW m \in Marks, NEW n \in Nat
      PROVE  ComputeXp([d EXCEPT ![m] = @ + n]) >= ComputeXp(d)
  <2>1. PICK e : e = [d EXCEPT ![m] = @ + n]
    OBVIOUS
  <2>2. \A q \in Marks : e[q] \in Nat /\ e[q] >= d[q]
    BY <2>1
  <2>3. PICK js2 \in Nat, cs2 \in Nat, so2 \in Nat, qu2 \in Nat, ke2 \in Nat, ce2 \in Nat :
            /\ js2 = e["js"] /\ cs2 = e["cs"] /\ so2 = e["solved"] /\ qu2 = e["quizzes"]
            /\ ke2 = e["kept"] /\ ce2 = e["certificates"]
    BY <2>2 DEF Marks
  <2>4. js2 >= js /\ cs2 >= csd /\ so2 >= so /\ qu2 >= qu /\ ke2 >= ke /\ ce2 >= ce
    BY <1>1, <2>2, <2>3 DEF Marks
  <2>5. ComputeXp(e) = (js2 + cs2) * 40 + so2 * 30 + qu2 * 15 + ke2 * 8 + ce2 * 200
    BY <2>3 DEF ComputeXp, Worth
  <2> QED
    BY <1>2, <2>1, <2>4, <2>5
<1> QED
  BY <1>2, <1>3

\* Whatever is done, levels follow each other and the badges are in order.
THEOREM MilestonesAreRight ==
    ASSUME done \in [Marks -> Nat], streakDays \in Nat
    PROVE  LevelsAndBadgesAreRight
<1>1. PICK n \in Nat : n = ComputeXp(done)
  BY XpGrows
<1>2. LevelThreshold(LevelForXp(n)) <= n /\ LevelForXp(n + 1) - LevelForXp(n) \in {0, 1}
  BY LevelsFollow
<1>3. PICK bs \in [1 .. 10 -> Stats] : bs = Badges(done, streakDays) /\ Len(bs) = 10
  BY BadgesAreStats
<1>4. PICK order : order = SortBadges(bs)
  OBVIOUS
<1>5. ASSUME NEW i \in 1 .. 9
      PROVE  /\ Earned(bs[order[i + 1]]) => Earned(bs[order[i]])
             /\ ~Earned(bs[order[i]]) => ~Nearer(bs[order[i + 1]], bs[order[i]])
  <2>1. i \in 1 .. 10 /\ i + 1 \in 1 .. 10
    OBVIOUS
  <2>2. PICK a \in 1 .. 10, b \in 1 .. 10 : a = order[i] /\ b = order[i + 1] /\ Before(bs, a, b)
    BY <1>3, <1>4, <2>1, BadgesAreInOrder
  <2>3. bs[a] \in Stats /\ bs[b] \in Stats
    OBVIOUS
  <2>4. Nearer(bs[a], bs[b]) => ~Nearer(bs[b], bs[a])
    BY <2>3, NotBothNearer
  <2>5. Earned(bs[b]) => Earned(bs[a])
    BY <2>2 DEF Before
  <2>6. ~Earned(bs[a]) => ~Nearer(bs[b], bs[a])
    BY <2>2, <2>4, <2>5 DEF Before
  <2> QED
    BY <2>2, <2>5, <2>6
<1> QED
  BY <1>1, <1>2, <1>3, <1>4, <1>5 DEF LevelsAndBadgesAreRight

-----------------------------------------------------------------------------

\* The board and the page that shows it (Milestones).

BoardLoads == [no: Nat, stage: {"asked", "board", "answered"}, awaited: BOOLEAN, crossed: BOOLEAN,
               listed: Nat, joined: BOOLEAN, xp: Nat, rank: Nat]
BoardRows == [joined: BOOLEAN, xp: Nat]

BoardTypes ==
    /\ done \in [Marks -> Nat] /\ streakDays \in {0, LastStreak}
    /\ listing \in BoardRows /\ standing \in Board
    /\ calls \in {"none", "join", "leave", "written", "loading"}
    /\ fetches \in SUBSET BoardLoads
    /\ took \in Nat /\ wished \in BOOLEAN /\ overlapped \in BOOLEAN

Consent == /\ listing.joined => wished /\ listing.xp <= ComputeXp(done)
           /\ calls = "join" => wished

\* Nothing is asked of the board by a page that shows none.
AsksWhenShown == calls # "none" => standing.shows

\* What a load read of the board is so until somebody writes.
ReadsAgree == \A l \in fetches : ~l.crossed =>
    /\ l.stage = "board" => l.listed = Listed(listing)
    /\ l.stage = "answered" => l.rank = l.listed
PlaceAgrees == standing.crossed \/ standing.rank = standing.listed

\* While no loads overlap with anything there is one at most, none while the row is
\* written, and what it brings and what is shown is the row.
OneAtATime == ~overlapped =>
    /\ \A l \in fetches, m \in fetches : l = m
    /\ calls \in {"join", "leave", "written"} => fetches = {}
    /\ \A l \in fetches : l.stage = "answered" => l.joined = listing.joined /\ l.xp = listing.xp
    /\ calls = "none" /\ standing.shows /\ ~standing.error =>
         standing.joined = listing.joined /\ standing.xp = listing.xp

MilestonesInv ==
    BoardTypes /\ Consent /\ AsksWhenShown /\ ReadsAgree /\ PlaceAgrees /\ OneAtATime

\* What the invariant says is what the run checks.
LEMMA MilestonesInvIsEnough ==
    ASSUME MilestonesInv
    PROVE  MilestonesTypeOK /\ MilestonesAreTrue
<1>1. MilestonesTypeOK
  BY DEF MilestonesInv, BoardTypes, MilestonesTypeOK, BoardRows
<1>2. LevelsAndBadgesAreRight
  <2>1. done \in [Marks -> Nat] /\ streakDays \in Nat
    BY MilestonesAssumption DEF MilestonesInv, BoardTypes
  <2> QED
    BY <2>1, MilestonesAreRight
<1>3. BoardIsByConsent
  BY DEF MilestonesInv, Consent, BoardIsByConsent
<1>4. StandingIsTrue
  BY DEF MilestonesInv, PlaceAgrees, OneAtATime, StandingIsTrue
<1> QED
  BY <1>1, <1>2, <1>3, <1>4 DEF MilestonesAreTrue

\* At first nothing is earned, listed or shown.
LEMMA MilestonesStart == MilestonesInit => MilestonesInv
<1> SUFFICES ASSUME MilestonesInit PROVE MilestonesInv
  OBVIOUS
<1>1. NoBoard \in Board /\ NoRowYet \in BoardRows
  BY DEF NoBoard, Board, NoRowYet, BoardRows
<1>2. BoardTypes
  BY <1>1 DEF MilestonesInit, BoardTypes
<1>3. Consent /\ AsksWhenShown /\ ReadsAgree /\ PlaceAgrees /\ OneAtATime
  BY DEF MilestonesInit, Consent, AsksWhenShown, ReadsAgree, PlaceAgrees, OneAtATime, NoRowYet, NoBoard
<1> QED
  BY <1>2, <1>3 DEF MilestonesInv

\* Loads of the board, at their stages.
LEMMA LoadCrossed ==
    ASSUME NEW l \in BoardLoads, NEW m, m = [l EXCEPT !.crossed = TRUE]
    PROVE  m \in BoardLoads /\ m.crossed /\ m.stage = l.stage /\ m.joined = l.joined /\ m.xp = l.xp
<1>1. l = [no |-> l.no, stage |-> l.stage, awaited |-> l.awaited, crossed |-> l.crossed,
           listed |-> l.listed, joined |-> l.joined, xp |-> l.xp, rank |-> l.rank]
  BY DEF BoardLoads
<1>2. /\ l.no \in Nat /\ l.stage \in {"asked", "board", "answered"} /\ l.awaited \in BOOLEAN
      /\ l.crossed \in BOOLEAN /\ l.listed \in Nat /\ l.joined \in BOOLEAN /\ l.xp \in Nat /\ l.rank \in Nat
  BY DEF BoardLoads
<1>3. m = [no |-> l.no, stage |-> l.stage, awaited |-> l.awaited, crossed |-> TRUE,
           listed |-> l.listed, joined |-> l.joined, xp |-> l.xp, rank |-> l.rank]
  BY <1>1
<1> QED
  BY <1>2, <1>3 DEF BoardLoads

AtBoard(l, x) == [l EXCEPT !.stage = "board", !.listed = x]
\* A load that has read the board.
LEMMA LoadOfTheBoard ==
    ASSUME NEW l \in BoardLoads, NEW x \in Nat, NEW m, m = AtBoard(l, x)
    PROVE  m \in BoardLoads /\ m.stage = "board" /\ m.listed = x /\ m.crossed = l.crossed
<1>1. l = [no |-> l.no, stage |-> l.stage, awaited |-> l.awaited, crossed |-> l.crossed,
           listed |-> l.listed, joined |-> l.joined, xp |-> l.xp, rank |-> l.rank]
  BY DEF BoardLoads
<1>2. /\ l.no \in Nat /\ l.stage \in {"asked", "board", "answered"} /\ l.awaited \in BOOLEAN
      /\ l.crossed \in BOOLEAN /\ l.listed \in Nat /\ l.joined \in BOOLEAN /\ l.xp \in Nat /\ l.rank \in Nat
  BY DEF BoardLoads
<1>3. PICK k : k = [l EXCEPT !.stage = "board"]
  OBVIOUS
<1>4. k = [no |-> l.no, stage |-> "board", awaited |-> l.awaited, crossed |-> l.crossed,
           listed |-> l.listed, joined |-> l.joined, xp |-> l.xp, rank |-> l.rank]
  BY <1>1, <1>3
<1>5. m = [k EXCEPT !.listed = x]
  BY <1>3 DEF AtBoard
<1>6. m = [no |-> l.no, stage |-> "board", awaited |-> l.awaited, crossed |-> l.crossed,
           listed |-> x, joined |-> l.joined, xp |-> l.xp, rank |-> l.rank]
  BY <1>4, <1>5
<1> QED
  BY <1>2, <1>6 DEF BoardLoads

AtAnswer(l, r, x) == [l EXCEPT !.stage = "answered", !.joined = r.joined, !.xp = r.xp, !.rank = x]
\* A load that has read the learner's own row as well.
LEMMA LoadAnswered ==
    ASSUME NEW l \in BoardLoads, NEW r \in BoardRows, NEW x \in Nat, NEW m, m = AtAnswer(l, r, x)
    PROVE  /\ m \in BoardLoads /\ m.stage = "answered" /\ m.listed = l.listed
           /\ m.joined = r.joined /\ m.xp = r.xp /\ m.rank = x /\ m.crossed = l.crossed
<1>1. l = [no |-> l.no, stage |-> l.stage, awaited |-> l.awaited, crossed |-> l.crossed,
           listed |-> l.listed, joined |-> l.joined, xp |-> l.xp, rank |-> l.rank]
  BY DEF BoardLoads
<1>2. /\ l.no \in Nat /\ l.stage \in {"asked", "board", "answered"} /\ l.awaited \in BOOLEAN
      /\ l.crossed \in BOOLEAN /\ l.listed \in Nat /\ l.joined \in BOOLEAN /\ l.xp \in Nat /\ l.rank \in Nat
  BY DEF BoardLoads
<1>3. PICK k : k = [l EXCEPT !.stage = "answered"]
  OBVIOUS
<1>4. k = [no |-> l.no, stage |-> "answered", awaited |-> l.awaited, crossed |-> l.crossed,
           listed |-> l.listed, joined |-> l.joined, xp |-> l.xp, rank |-> l.rank]
  BY <1>1, <1>3
<1>5. PICK o : o = [k EXCEPT !.joined = r.joined]
  OBVIOUS
<1>6. o = [no |-> l.no, stage |-> "answered", awaited |-> l.awaited, crossed |-> l.crossed,
           listed |-> l.listed, joined |-> r.joined, xp |-> l.xp, rank |-> l.rank]
  BY <1>4, <1>5
<1>7. PICK q : q = [o EXCEPT !.xp = r.xp]
  OBVIOUS
<1>8. q = [no |-> l.no, stage |-> "answered", awaited |-> l.awaited, crossed |-> l.crossed,
           listed |-> l.listed, joined |-> r.joined, xp |-> r.xp, rank |-> l.rank]
  BY <1>6, <1>7
<1>9. m = [q EXCEPT !.rank = x]
  BY <1>3, <1>5, <1>7 DEF AtAnswer
<1>10. m = [no |-> l.no, stage |-> "answered", awaited |-> l.awaited, crossed |-> l.crossed,
            listed |-> l.listed, joined |-> r.joined, xp |-> r.xp, rank |-> x]
  BY <1>8, <1>9
<1>11. r.joined \in BOOLEAN /\ r.xp \in Nat
  BY DEF BoardRows
<1> QED
  BY <1>2, <1>10, <1>11 DEF BoardLoads

\* The loads under way when somebody writes.
LEMMA CrossedLoads ==
    ASSUME MilestonesInv, fetches' = {[l EXCEPT !.crossed = TRUE] : l \in fetches}
    PROVE  /\ fetches' \in SUBSET BoardLoads /\ \A l \in fetches' : l.crossed
           /\ fetches = {} => fetches' = {}
           /\ (\A l \in fetches, m \in fetches : l = m) => \A l \in fetches', m \in fetches' : l = m
<1>1. \A l \in fetches : l \in BoardLoads
  BY DEF MilestonesInv, BoardTypes
<1>2. ASSUME NEW l \in fetches
      PROVE  [l EXCEPT !.crossed = TRUE] \in BoardLoads /\ [l EXCEPT !.crossed = TRUE].crossed
  <2>1. PICK m : m = [l EXCEPT !.crossed = TRUE]
    OBVIOUS
  <2>2. m \in BoardLoads /\ m.crossed
    BY <1>1, <2>1, LoadCrossed
  <2> QED
    BY <2>1, <2>2
<1> QED
  BY <1>2

\* What a page shows of a load, with an error or without.
LEMMA BoardStandings ==
    ASSUME NEW s \in Board
    PROVE  /\ \A e \in BOOLEAN : LET t == [s EXCEPT !.error = e] IN
                /\ t \in Board /\ t.error = e /\ t.shows = s.shows /\ t.joined = s.joined /\ t.xp = s.xp
                /\ t.crossed = s.crossed /\ t.rank = s.rank /\ t.listed = s.listed
           /\ \A l \in BoardLoads : Shows(l) \in Board
BY DEF Board, BoardLoads, Shows

\* A load that was just asked for.
LEMMA NewLoads ==
    ASSUME NEW awaited \in BOOLEAN, took' \in Nat
    PROVE  NewLoad(awaited) \in BoardLoads /\ NewLoad(awaited).stage = "asked"
BY DEF NewLoad, BoardLoads

\* A place on the board is a number.
LEMMA PlacesAre ==
    ASSUME NEW r
    PROVE  Place(r) \in Nat /\ Listed(r) \in Nat
BY DEF Place, Listed

\* Learning changes nothing the board has.
LEMMA LearnKeeps ==
    ASSUME MilestonesInv, NEW m \in Marks, Learn(m)
    PROVE  MilestonesInv'
<1>1. PICK n \in Strides : done' = [done EXCEPT ![m] = @ + n]
  BY DEF Learn
<1>2. /\ took' = took + 1
      /\ UNCHANGED <<streakDays, listing, rivalJoined, standing, calls, fetches, wished, overlapped>>
  BY DEF Learn, Step, listingVars, boardVars
<1>3. n \in Nat /\ done \in [Marks -> Nat] /\ took \in Nat
  BY MilestonesAssumption DEF MilestonesInv, BoardTypes
<1>4. done' \in [Marks -> Nat] /\ took' \in Nat
  BY <1>1, <1>2, <1>3
<1>5. BoardTypes'
  BY <1>2, <1>4 DEF MilestonesInv, BoardTypes
<1>6. Consent'
  <2>1. ComputeXp(done') >= ComputeXp(done) /\ ComputeXp(done) \in Nat
    BY <1>1, <1>3, XpGrows
  <2>2. ComputeXp(done') \in Nat
    BY <1>4, XpGrows
  <2>3. listing.xp \in Nat
    BY DEF MilestonesInv, BoardTypes, BoardRows
  <2>4. PICK a \in Nat, b \in Nat, c \in Nat : a = ComputeXp(done) /\ b = ComputeXp(done') /\ c = listing.xp
    BY <2>1, <2>2, <2>3
  <2>5. (listing.joined => wished /\ c <= a) /\ (calls = "join" => wished)
    BY <2>4 DEF MilestonesInv, Consent
  <2>6. listing.joined => wished /\ c <= b
    BY <2>1, <2>4, <2>5
  <2> QED
    BY <1>2, <2>4, <2>5, <2>6 DEF Consent
<1>7. AsksWhenShown' /\ ReadsAgree' /\ PlaceAgrees' /\ OneAtATime'
  BY <1>2 DEF MilestonesInv, AsksWhenShown, ReadsAgree, PlaceAgrees, OneAtATime, Listed, Place
<1> QED
  BY <1>5, <1>6, <1>7 DEF MilestonesInv

\* Nor does another day.
LEMMA AnotherDayKeeps ==
    ASSUME MilestonesInv, NEW kept \in BOOLEAN, AnotherDay(kept)
    PROVE  MilestonesInv'
<1>1. /\ took' = took + 1 /\ streakDays' = IF kept THEN LastStreak ELSE 0
      /\ UNCHANGED <<done, listing, rivalJoined, standing, calls, fetches, wished, overlapped>>
  BY DEF AnotherDay, Step, listingVars, boardVars
<1>2. took' \in Nat
  BY <1>1 DEF MilestonesInv, BoardTypes
<1>3. BoardTypes'
  BY <1>1, <1>2 DEF MilestonesInv, BoardTypes
<1>4. Consent' /\ AsksWhenShown' /\ ReadsAgree' /\ PlaceAgrees' /\ OneAtATime'
  BY <1>1 DEF MilestonesInv, Consent, AsksWhenShown, ReadsAgree, PlaceAgrees, OneAtATime, Listed, Place
<1> QED
  BY <1>3, <1>4 DEF MilestonesInv

\* Another learner who joins crosses what was read before.
LEMMA RivalKeeps ==
    ASSUME MilestonesInv, RivalJoins
    PROVE  MilestonesInv'
<1>1. /\ fetches' = {[l EXCEPT !.crossed = TRUE] : l \in fetches}
      /\ UNCHANGED <<done, streakDays, listing, standing, calls, took, wished, overlapped>>
  BY DEF RivalJoins
<1>2. /\ fetches' \in SUBSET BoardLoads /\ \A l \in fetches' : l.crossed
      /\ fetches = {} => fetches' = {}
      /\ (\A l \in fetches, m \in fetches : l = m) => \A l \in fetches', m \in fetches' : l = m
  BY <1>1, CrossedLoads
<1>3. \A l \in fetches' : \E k \in fetches :
        l.stage = k.stage /\ l.joined = k.joined /\ l.xp = k.xp
  <2> SUFFICES ASSUME NEW l \in fetches'
               PROVE  \E k \in fetches : l.stage = k.stage /\ l.joined = k.joined /\ l.xp = k.xp
    OBVIOUS
  <2>1. PICK k \in fetches : l = [k EXCEPT !.crossed = TRUE]
    BY <1>1
  <2>2. k \in BoardLoads
    BY DEF MilestonesInv, BoardTypes
  <2> QED
    BY <2>1, <2>2 DEF BoardLoads
<1>4. BoardTypes'
  BY <1>1, <1>2 DEF MilestonesInv, BoardTypes
<1>5. Consent' /\ AsksWhenShown' /\ PlaceAgrees' /\ ReadsAgree'
  BY <1>1, <1>2 DEF MilestonesInv, Consent, AsksWhenShown, PlaceAgrees, ReadsAgree
<1>6. OneAtATime'
  BY <1>1, <1>2, <1>3 DEF MilestonesInv, OneAtATime
<1> QED
  BY <1>4, <1>5, <1>6 DEF MilestonesInv

\* The page asks for its standing when it is opened.
LEMMA OpenBoardKeeps ==
    ASSUME MilestonesInv, OpenBoard
    PROVE  MilestonesInv'
<1>1. /\ ~standing.shows /\ fetches = {} /\ took' = took /\ fetches' = {NewLoad(FALSE)}
      /\ UNCHANGED <<done, streakDays, listing, rivalJoined, standing, calls, wished, overlapped>>
  BY DEF OpenBoard, listingVars
<1>2. NewLoad(FALSE) \in BoardLoads /\ NewLoad(FALSE).stage = "asked"
  <2>1. took' \in Nat
    BY <1>1 DEF MilestonesInv, BoardTypes
  <2> QED
    BY <2>1, NewLoads
<1>3. BoardTypes'
  BY <1>1, <1>2 DEF MilestonesInv, BoardTypes
<1>4. Consent' /\ AsksWhenShown' /\ PlaceAgrees'
  BY <1>1 DEF MilestonesInv, Consent, AsksWhenShown, PlaceAgrees
<1>5. ReadsAgree' /\ OneAtATime'
  BY <1>1, <1>2 DEF MilestonesInv, ReadsAgree, OneAtATime, AsksWhenShown
<1> QED
  BY <1>3, <1>4, <1>5 DEF MilestonesInv

\* Asking again overlaps with what is under way, if anything is.
LEMMA RetryKeeps ==
    ASSUME MilestonesInv, Retry
    PROVE  MilestonesInv'
<1>1. /\ standing.error /\ took' = took + 1 /\ fetches' = fetches \cup {NewLoad(FALSE)}
      /\ overlapped' = (overlapped \/ fetches # {} \/ calls # "none")
      /\ UNCHANGED <<done, streakDays, listing, rivalJoined, standing, calls, wished>>
  BY DEF Retry, Step, listingVars
<1>2. NewLoad(FALSE) \in BoardLoads /\ NewLoad(FALSE).stage = "asked" /\ took' \in Nat
  <2>1. took' \in Nat
    BY <1>1 DEF MilestonesInv, BoardTypes
  <2> QED
    BY <2>1, NewLoads
<1>3. BoardTypes'
  BY <1>1, <1>2 DEF MilestonesInv, BoardTypes
<1>4. Consent' /\ AsksWhenShown' /\ PlaceAgrees'
  BY <1>1 DEF MilestonesInv, Consent, AsksWhenShown, PlaceAgrees
<1>5. ReadsAgree'
  BY <1>1, <1>2 DEF MilestonesInv, ReadsAgree, Listed, Place
<1>6. OneAtATime'
  <2>1. ~overlapped' => ~overlapped /\ fetches = {} /\ calls = "none"
    BY <1>1
  <2> QED
    BY <1>1, <1>2, <2>1 DEF MilestonesInv, OneAtATime
<1> QED
  BY <1>3, <1>4, <1>5, <1>6 DEF MilestonesInv

\* The list that is read is the list of that moment.
LEMMA BoardIsReadKeeps ==
    ASSUME MilestonesInv, NEW l \in fetches, BoardIsRead(l)
    PROVE  MilestonesInv'
<1>1. PICK k : k = [l EXCEPT !.stage = "board", !.listed = Listed(listing)]
  OBVIOUS
<1>2. /\ fetches' = (fetches \ {l}) \cup {k}
      /\ UNCHANGED <<done, streakDays, listing, rivalJoined, standing, calls, took, wished, overlapped>>
  BY <1>1 DEF BoardIsRead, listingVars
<1>3. k \in BoardLoads /\ k.stage = "board" /\ k.listed = Listed(listing)
  <2>1. PICK x \in Nat : x = Listed(listing)
    BY PlacesAre
  <2>2. l \in BoardLoads
    BY DEF MilestonesInv, BoardTypes
  <2>3. k = AtBoard(l, x)
    BY <1>1, <2>1 DEF AtBoard
  <2>4. k \in BoardLoads /\ k.stage = "board" /\ k.listed = x /\ k.crossed = l.crossed
    BY <2>2, <2>3, LoadOfTheBoard
  <2> QED
    BY <2>1, <2>4
<1>4. BoardTypes'
  BY <1>2, <1>3 DEF MilestonesInv, BoardTypes
<1>5. Consent' /\ AsksWhenShown' /\ PlaceAgrees'
  BY <1>2 DEF MilestonesInv, Consent, AsksWhenShown, PlaceAgrees
<1>6. ReadsAgree'
  BY <1>2, <1>3 DEF MilestonesInv, ReadsAgree, Listed, Place
<1>7. OneAtATime'
  <2>1. (\A a \in fetches, b \in fetches : a = b) => fetches' = {k}
    BY <1>2
  <2> QED
    BY <1>2, <1>3, <2>1 DEF MilestonesInv, OneAtATime
<1> QED
  BY <1>4, <1>5, <1>6, <1>7 DEF MilestonesInv

\* The learner's own row is read after the list.
LEMMA OwnIsReadKeeps ==
    ASSUME MilestonesInv, NEW l \in fetches, OwnIsRead(l)
    PROVE  MilestonesInv'
<1>1. PICK k : k = [l EXCEPT !.stage = "answered", !.joined = listing.joined, !.xp = listing.xp,
                             !.rank = IF listing.joined THEN Place(listing) ELSE 0]
  OBVIOUS
<1>2. /\ l.stage = "board" /\ fetches' = (fetches \ {l}) \cup {k}
      /\ UNCHANGED <<done, streakDays, listing, rivalJoined, standing, calls, took, wished, overlapped>>
  BY <1>1 DEF OwnIsRead, listingVars
<1>3. /\ k \in BoardLoads /\ k.stage = "answered" /\ k.joined = listing.joined /\ k.xp = listing.xp
      /\ k.rank = Listed(listing) /\ k.listed = l.listed /\ k.crossed = l.crossed
  <2>1. PICK x \in Nat : x = Listed(listing)
    BY PlacesAre
  <2>2. x = IF listing.joined THEN Place(listing) ELSE 0
    BY <2>1 DEF Listed
  <2>3. l \in BoardLoads /\ listing \in BoardRows
    BY DEF MilestonesInv, BoardTypes
  <2>4. PICK r \in BoardRows : r = listing
    BY <2>3
  <2>5. k = AtAnswer(l, r, x)
    BY <1>1, <2>2, <2>4 DEF AtAnswer
  <2>6. /\ k \in BoardLoads /\ k.stage = "answered" /\ k.listed = l.listed
        /\ k.joined = r.joined /\ k.xp = r.xp /\ k.rank = x /\ k.crossed = l.crossed
    BY <2>3, <2>5, LoadAnswered
  <2> QED
    BY <2>1, <2>4, <2>6
<1>4. BoardTypes'
  BY <1>2, <1>3 DEF MilestonesInv, BoardTypes
<1>5. Consent' /\ AsksWhenShown' /\ PlaceAgrees'
  BY <1>2 DEF MilestonesInv, Consent, AsksWhenShown, PlaceAgrees
<1>6. ReadsAgree'
  <2>1. ~k.crossed => k.rank = k.listed
    BY <1>2, <1>3 DEF MilestonesInv, ReadsAgree
  <2> QED
    BY <1>2, <1>3, <2>1 DEF MilestonesInv, ReadsAgree, Listed, Place
<1>7. OneAtATime'
  <2>1. (\A a \in fetches, b \in fetches : a = b) => fetches' = {k}
    BY <1>2
  <2> QED
    BY <1>2, <1>3, <2>1 DEF MilestonesInv, OneAtATime
<1> QED
  BY <1>4, <1>5, <1>6, <1>7 DEF MilestonesInv

\* What was loaded is shown.
LEMMA LoadedKeeps ==
    ASSUME MilestonesInv, NEW l \in fetches, Loaded(l)
    PROVE  MilestonesInv'
<1>1. /\ l.stage = "answered" /\ fetches' = fetches \ {l} /\ standing' = Shows(l)
      /\ calls' = IF l.awaited THEN "none" ELSE calls
      /\ UNCHANGED <<done, streakDays, listing, rivalJoined, took, wished, overlapped>>
  BY DEF Loaded, listingVars
<1>2. l \in BoardLoads
  BY DEF MilestonesInv, BoardTypes
<1>3. /\ standing' \in Board /\ standing'.shows /\ standing'.joined = l.joined /\ standing'.xp = l.xp
      /\ standing'.rank = l.rank /\ standing'.listed = l.listed /\ standing'.crossed = l.crossed
  <2>1. NoBoard \in Board
    BY DEF NoBoard, Board
  <2>2. Shows(l) \in Board
    BY <1>2, <2>1, BoardStandings
  <2> QED
    BY <1>1, <2>2 DEF Shows
<1>4. BoardTypes'
  BY <1>1, <1>3 DEF MilestonesInv, BoardTypes
<1>5. Consent' /\ AsksWhenShown' /\ ReadsAgree'
  BY <1>1, <1>3 DEF MilestonesInv, Consent, AsksWhenShown, ReadsAgree, Listed, Place
<1>6. PlaceAgrees'
  BY <1>1, <1>3 DEF MilestonesInv, ReadsAgree, PlaceAgrees
<1>7. OneAtATime'
  BY <1>1, <1>3 DEF MilestonesInv, OneAtATime
<1> QED
  BY <1>4, <1>5, <1>6, <1>7 DEF MilestonesInv

\* A load or a request that fails, or one that is sent, changes what the page says of
\* errors and no more.
LEMMA ErrorsKeep ==
    ASSUME MilestonesInv, NEW e \in BOOLEAN, standing' = [standing EXCEPT !.error = e]
    PROVE  /\ standing' \in Board /\ standing'.error = e /\ standing'.shows = standing.shows
           /\ PlaceAgrees'
<1>1. standing \in Board
  BY DEF MilestonesInv, BoardTypes
<1>2. PICK s \in Board : s = standing
  BY <1>1
<1>3. PICK t : t = [s EXCEPT !.error = e]
  OBVIOUS
<1>4. /\ t \in Board /\ t.error = e /\ t.shows = s.shows /\ t.crossed = s.crossed
      /\ t.rank = s.rank /\ t.listed = s.listed
  BY <1>3, BoardStandings
<1> QED
  BY <1>2, <1>3, <1>4 DEF MilestonesInv, PlaceAgrees

\* A load that fails shows an error.
LEMMA LoadFailsKeeps ==
    ASSUME MilestonesInv, NEW l \in fetches, LoadFails(l)
    PROVE  MilestonesInv'
<1>1. /\ took' = took + 1 /\ fetches' = fetches \ {l}
      /\ standing' = [standing EXCEPT !.error = TRUE]
      /\ calls' = IF l.awaited THEN "none" ELSE calls
      /\ UNCHANGED <<done, streakDays, listing, rivalJoined, wished, overlapped>>
  BY DEF LoadFails, Step, listingVars
<1>2. standing' \in Board /\ standing'.error /\ standing'.shows = standing.shows /\ PlaceAgrees'
  BY <1>1, ErrorsKeep
<1>3. took' \in Nat
  BY <1>1 DEF MilestonesInv, BoardTypes
<1>4. BoardTypes'
  BY <1>1, <1>2, <1>3 DEF MilestonesInv, BoardTypes
<1>5. Consent' /\ AsksWhenShown' /\ ReadsAgree'
  BY <1>1, <1>2 DEF MilestonesInv, Consent, AsksWhenShown, ReadsAgree, Listed, Place
<1>6. OneAtATime'
  BY <1>1, <1>2 DEF MilestonesInv, OneAtATime
<1> QED
  BY <1>2, <1>4, <1>5, <1>6 DEF MilestonesInv

\* Joining and leaving are asked by the learner.
LEMMA SubmitsKeeps ==
    ASSUME MilestonesInv, NEW call \in {"join", "leave"}, Submits(call)
    PROVE  MilestonesInv'
<1>1. /\ standing.shows /\ took' = took + 1 /\ calls' = call
      /\ standing' = [standing EXCEPT !.error = FALSE]
      /\ wished' = (wished \/ call = "join")
      /\ overlapped' = (overlapped \/ fetches # {})
      /\ UNCHANGED <<done, streakDays, listing, rivalJoined, fetches>>
  BY DEF Submits, Step, listingVars
<1>2. standing' \in Board /\ standing'.shows = standing.shows /\ PlaceAgrees'
  BY <1>1, ErrorsKeep
<1>3. took' \in Nat
  BY <1>1 DEF MilestonesInv, BoardTypes
<1>4. BoardTypes'
  BY <1>1, <1>2, <1>3 DEF MilestonesInv, BoardTypes
<1>5. Consent' /\ AsksWhenShown' /\ ReadsAgree'
  BY <1>1, <1>2 DEF MilestonesInv, Consent, AsksWhenShown, ReadsAgree, Listed, Place
<1>6. OneAtATime'
  BY <1>1, <1>2 DEF MilestonesInv, OneAtATime
<1> QED
  BY <1>2, <1>4, <1>5, <1>6 DEF MilestonesInv

\* The row is written for who asked, with the XP that were earned.
LEMMA EntryWrittenKeeps ==
    ASSUME MilestonesInv, EntryWritten
    PROVE  MilestonesInv'
<1>1. /\ calls \in {"join", "leave"}
      /\ listing' = IF calls = "join" THEN [joined |-> TRUE, xp |-> ComputeXp(done)]
                    ELSE [listing EXCEPT !.joined = FALSE]
      /\ calls' = "written" /\ fetches' = {[l EXCEPT !.crossed = TRUE] : l \in fetches}
      /\ UNCHANGED <<done, streakDays, rivalJoined, standing, took, wished, overlapped>>
  BY DEF EntryWritten
<1>2. /\ fetches' \in SUBSET BoardLoads /\ \A l \in fetches' : l.crossed
      /\ fetches = {} => fetches' = {}
  BY <1>1, CrossedLoads
<1>3. ComputeXp(done) \in Nat
  BY XpGrows DEF MilestonesInv, BoardTypes
<1>4. listing' \in BoardRows /\ (listing'.joined => calls = "join" /\ listing'.xp = ComputeXp(done))
  BY <1>1, <1>3 DEF MilestonesInv, BoardTypes, BoardRows
<1>5. BoardTypes'
  BY <1>1, <1>2, <1>4 DEF MilestonesInv, BoardTypes
<1>6. Consent'
  BY <1>1, <1>3, <1>4 DEF MilestonesInv, Consent
<1>7. AsksWhenShown' /\ ReadsAgree' /\ PlaceAgrees'
  BY <1>1, <1>2 DEF MilestonesInv, AsksWhenShown, ReadsAgree, PlaceAgrees
<1>8. OneAtATime'
  BY <1>1, <1>2 DEF MilestonesInv, OneAtATime
<1> QED
  BY <1>5, <1>6, <1>7, <1>8 DEF MilestonesInv

\* The page follows a call that succeeded with a load.
LEMMA BoardConfirmedKeeps ==
    ASSUME MilestonesInv, Confirmed
    PROVE  MilestonesInv'
<1>1. /\ calls = "written" /\ calls' = "loading"
      /\ took' = took /\ fetches' = fetches \cup {NewLoad(TRUE)}
      /\ UNCHANGED <<done, streakDays, listing, rivalJoined, standing, wished, overlapped>>
  BY DEF Confirmed, listingVars
<1>2. NewLoad(TRUE) \in BoardLoads /\ NewLoad(TRUE).stage = "asked"
  <2>1. took' \in Nat
    BY <1>1 DEF MilestonesInv, BoardTypes
  <2> QED
    BY <2>1, NewLoads
<1>3. BoardTypes'
  BY <1>1, <1>2 DEF MilestonesInv, BoardTypes
<1>4. Consent' /\ AsksWhenShown' /\ PlaceAgrees'
  BY <1>1 DEF MilestonesInv, Consent, AsksWhenShown, PlaceAgrees
<1>5. ReadsAgree'
  BY <1>1, <1>2 DEF MilestonesInv, ReadsAgree, Listed, Place
<1>6. OneAtATime'
  <2>1. ~overlapped => fetches = {}
    BY <1>1 DEF MilestonesInv, OneAtATime
  <2> QED
    BY <1>1, <1>2, <2>1 DEF MilestonesInv, OneAtATime
<1> QED
  BY <1>3, <1>4, <1>5, <1>6 DEF MilestonesInv

\* A call that failed says so.
LEMMA CallFailsKeeps ==
    ASSUME MilestonesInv, CallFails
    PROVE  MilestonesInv'
<1>1. /\ took' = took + 1 /\ calls' = "none" /\ standing' = [standing EXCEPT !.error = TRUE]
      /\ UNCHANGED <<done, streakDays, listing, rivalJoined, fetches, wished, overlapped>>
  BY DEF CallFails, Step, listingVars
<1>2. standing' \in Board /\ standing'.error /\ standing'.shows = standing.shows /\ PlaceAgrees'
  BY <1>1, ErrorsKeep
<1>3. took' \in Nat
  BY <1>1 DEF MilestonesInv, BoardTypes
<1>4. BoardTypes'
  BY <1>1, <1>2, <1>3 DEF MilestonesInv, BoardTypes
<1>5. Consent' /\ AsksWhenShown' /\ ReadsAgree'
  BY <1>1 DEF MilestonesInv, Consent, AsksWhenShown, ReadsAgree, Listed, Place
<1>6. OneAtATime'
  BY <1>1, <1>2 DEF MilestonesInv, OneAtATime
<1> QED
  BY <1>2, <1>4, <1>5, <1>6 DEF MilestonesInv

\* Every step of the board keeps it true.
LEMMA MilestonesStepKeeps == MilestonesInv /\ [MilestonesNext]_milestoneVars => MilestonesInv'
<1> SUFFICES ASSUME MilestonesInv, [MilestonesNext]_milestoneVars
             PROVE  MilestonesInv'
  OBVIOUS
<1>1. CASE UNCHANGED milestoneVars
  <2>1. UNCHANGED <<done, streakDays, listing, rivalJoined, standing, calls, fetches, took, wished, overlapped>>
    BY <1>1 DEF milestoneVars, listingVars, boardVars
  <2>2. BoardTypes' /\ Consent' /\ AsksWhenShown' /\ PlaceAgrees'
    BY <2>1 DEF MilestonesInv, BoardTypes, Consent, AsksWhenShown, PlaceAgrees
  <2>3. ReadsAgree' /\ OneAtATime'
    BY <2>1 DEF MilestonesInv, ReadsAgree, OneAtATime, Listed, Place
  <2> QED
    BY <2>2, <2>3 DEF MilestonesInv
<1>2. CASE \E m \in Marks : Learn(m)
  BY <1>2, LearnKeeps
<1>3. CASE \E kept \in BOOLEAN : AnotherDay(kept)
  BY <1>3, AnotherDayKeeps
<1>4. CASE \E l \in fetches : BoardIsRead(l) \/ OwnIsRead(l) \/ Loaded(l) \/ LoadFails(l)
  BY <1>4, BoardIsReadKeeps, OwnIsReadKeeps, LoadedKeeps, LoadFailsKeeps
<1>5. CASE \E call \in {"join", "leave"} : Submits(call)
  BY <1>5, SubmitsKeeps
<1>6. CASE RivalJoins \/ OpenBoard \/ Retry \/ EntryWritten \/ Confirmed \/ CallFails
  BY <1>6, RivalKeeps, OpenBoardKeeps, RetryKeeps, EntryWrittenKeeps, BoardConfirmedKeeps, CallFailsKeeps
<1> QED
  BY <1>1, <1>2, <1>3, <1>4, <1>5, <1>6 DEF MilestonesNext

\* A learner is on the board because he asked for it, with XP that were earned; with
\* nothing under way the page shows his own row, and the place on it is the one on
\* the list; and levels and badges follow from what is done, whatever that is.
THEOREM MilestonesInvariant == MilestonesSpec => []MilestonesInv
<1>1. MilestonesInit => MilestonesInv
  BY MilestonesStart
<1>2. MilestonesInv /\ [MilestonesNext]_milestoneVars => MilestonesInv'
  BY MilestonesStepKeeps
<1> QED
  BY <1>1, <1>2, PTL DEF MilestonesSpec

-----------------------------------------------------------------------------

\* Side by side (MCWebProgress).

\* Whichever part a behaviour follows, it is a behaviour of each.
LEMMA WorkStartsSound ==
    ASSUME WorkInit
    PROVE  WebInit /\ PlayInit /\ NotesInit /\ FrameInit /\ MilestonesInit /\ GatesInit
BY DEF WorkInit

\* A step of one part leaves the others where they are.
LEMMA WorkTakesOneStep ==
    ASSUME [WorkNext]_workVars
    PROVE  /\ [WebNext]_webVars /\ [PlayNext]_playVars /\ [NotesNext]_noteVars
           /\ [FrameNext]_frameVars /\ [MilestonesNext]_milestoneVars /\ [GatesNext]_gatesVars
           /\ part' = part
<1>1. CASE UNCHANGED workVars
  BY <1>1 DEF workVars, pageVars
<1>2. CASE part = "progress" /\ WebNext /\ UNCHANGED <<part, pageVars>>
  BY <1>2 DEF pageVars
<1>3. CASE Working /\ UNCHANGED <<part, webVars>>
  BY <1>3 DEF Working
<1> QED
  BY <1>1, <1>2, <1>3 DEF WorkNext

\* Side by side, every part follows its own specification.
THEOREM WorkFollowsItsSpecs ==
    WorkSpec => WebSpec /\ PlaySpec /\ NotesSpec /\ FrameSpec /\ MilestonesSpec /\ GatesSpec
BY WorkStartsSound, WorkTakesOneStep, PTL
   DEF WorkSpec, WebSpec, PlaySpec, NotesSpec, FrameSpec, MilestonesSpec, GatesSpec

\* What the service confirmed is on the row, what was typed is kept, what the frame and
\* the milestones tell is so and nothing gets past a lesson's gates: for any pages,
\* browsers, texts, weights, rows of the palette, strides, lessons and checks.
THEOREM WorkIsKept == WorkSpec => []WebWorkIsKept
<1>1. WebInv => WebTypeOK /\ ConfirmedIsOnTheRow
  BY DEF WebInv
<1>2. PlayInv => PlayTypeOK /\ PlaygroundKeepsUp
  BY DEF PlayInv, PlayTypes
<1>3. NotesInv => NotesTypeOK /\ NotesKeepUp
  BY NotesInvIsEnough
<1>4. FrameInv => FrameTypeOK /\ FrameIsHonest
  BY FrameTypesAre DEF FrameInv
<1>5. MilestonesInv => MilestonesTypeOK /\ MilestonesAreTrue
  BY MilestonesInvIsEnough
<1>6. GatesInv => GatesTypeOK /\ GatesHold /\ ResultIsTheLatest /\ BuddyAnswers
  BY DEF GatesInv
<1>7. WebInv /\ PlayInv /\ NotesInv /\ FrameInv /\ MilestonesInv /\ GatesInv => WebWorkIsKept
  BY <1>1, <1>2, <1>3, <1>4, <1>5, <1>6 DEF WebWorkIsKept
<1> QED
  BY <1>7, WorkFollowsItsSpecs, WebInvariant, PlayInvariant, NotesInvariant, FrameInvariant,
     MilestonesInvariant, GatesInvariant, PTL

\* And beside all the rest, a push is replayed on the very row it replaces.
THEOREM WorkReplays == WorkSpec => PushReplaysOnTheRow
BY WorkFollowsItsSpecs, PushesReplay
=============================================================================
