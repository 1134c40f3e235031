---------------------------- MODULE BillingProofs ----------------------------
(***************************************************************************)
(* Theorems about Billing for any number of subscriptions, any trial and   *)
(* any bounds, with events that overtake each other, come again, fail to   *)
(* be written or are not understood.                                       *)
(***************************************************************************)
EXTENDS Billing, TLAPS

\* By these books the provider has sold s until then, or for longer.
Sold(books, s, until) == books[s].status # "none" /\ until <= books[s].until

WriteBy(p, e) == IF p = "paystack" THEN subscriptionWriteFromEvent(e)
                 ELSE subscriptionUpsertFromEvent(e)

\* An event of provider p claims no more than was sold, however late it comes.
Claims(e, p, books, isPaid, isLifetime) ==
    LET write == WriteBy(p, e) IN
    /\ e.until # NoDate => e.sub # NoSub
    /\ e.sub # NoSub => Sold(books, e.sub, e.until)
    /\ write # NoWrite => isPaid
    /\ write # NoWrite /\ write.status = "active" /\ write.period = NoDate
         => isLifetime \/ (e.kind = "charge.success" /\ e.plan)
    /\ p = "paddle" <=> e.kind \in {"subscription", "transaction.completed"}

QueueInv == \A i \in 1 .. Len(events) : Claims(events[i], provider, subs, paid, lifetime)

\* And so does the row.
RowInv == /\ row.period # NoDate => row.sub # NoSub
          /\ row.sub # NoSub => Sold(subs, row.sub, row.period)
          /\ row.status # "trialing" => paid

\* The provider's side: what it sells was paid, and what stopped is over.
ProviderInv ==
    /\ \A s \in Subscriptions :
         /\ subs[s].status \in {"paused", "ended"} => subs[s].until <= now
         /\ subs[s].status # "none" => paid
         /\ provider = "paystack" => subs[s].status \notin {"pausing", "paused"}
    /\ lifetime => paid

\* A charge the webhook understands: it says who the customer is.
NamesCustomer(e) == e.kind = "charge.success" /\ (e.plan \/ e.exact)

\* Heard in order, the charge for a subscription is followed by its dates, and an
\* event that names only the customer comes when the customer is known or will be.
DatesFollow ==
    \A i \in 1 .. Len(events) :
        events[i].kind = "charge.success" /\ events[i].plan =>
            i < Len(events) /\ events[i + 1].kind = "subscription.create"

CustomerIsKnown ==
    provider = "paystack" =>
        /\ \A i \in 1 .. Len(events) :
             events[i].kind # "charge.success" =>
                 row.customer \/ \E j \in 1 .. Len(events) : j < i /\ NamesCustomer(events[j])
        /\ paid => row.customer \/ \E j \in 1 .. Len(events) : NamesCustomer(events[j])

DatesAreDue == \E i \in 1 .. Len(events) : events[i].kind = "subscription.create"

InOrder ==
    ~disordered =>
        /\ DatesFollow /\ CustomerIsKnown
        /\ ~missed /\ ~lifetime /\ row.status = "active" /\ row.period = NoDate => DatesAreDue

\* Columns that say at time t of subscription s what the provider, which has it
\* as sub, would.
Says(w, s, sub, t) ==
    /\ w.sub = s
    /\ \/ sub.status \in {"active", "pausing"} /\ w.status = "active" /\ w.period = sub.until
       \/ sub.status = "cancelling" /\ w.status = "active" /\ w.period = sub.until /\ w.cancel
       \/ /\ sub.status = "past_due" /\ w.status = "past_due"
          /\ w.period = sub.until \/ (w.period = NoDate /\ sub.until <= t)
       \/ sub.status \in {"paused", "ended"} /\ w.status \in {"expired", "canceled"}

SaysLifetime(w) == w.status = "active" /\ w.period = NoDate /\ w.sub = NoSub

\* What the row says once every event sent so far is heard.
LastWord == IF events = << >> THEN row ELSE WriteBy(provider, events[Len(events)])

NoneLive == \A s \in Subscriptions : ~Live(s)
OnlyLive(s, books) == \A other \in Subscriptions \ {s} : books[other].status \in {"none", "ended"}

\* One purchase after another, heard in order: the last word is about the last
\* purchase, and true.
LastWordIsTrue ==
    paid /\ ~mixed /\ ~disordered /\ ~missed =>
        /\ LastWord # NoWrite
        /\ \/ lifetime /\ NoneLive /\ SaysLifetime(LastWord)
           \/ ~lifetime /\ \E s \in Subscriptions :
                              OnlyLive(s, subs) /\ Says(LastWord, s, subs[s], now)

ClaimsInv == BillingTypeOK /\ ProviderInv /\ QueueInv /\ RowInv
BillingInv == ClaimsInv /\ InOrder /\ LastWordIsTrue

-----------------------------------------------------------------------------

\* What an event writes (subscriptionWriteFromEvent(), subscriptionUpsertFromEvent()).
LEMMA WriteShape ==
    ASSUME NEW p \in {"paystack", "paddle"}, NEW e \in BillingEvent, WriteBy(p, e) # NoWrite
    PROVE  /\ WriteBy(p, e).status \in Status /\ WriteBy(p, e).period \in Date
           /\ WriteBy(p, e).cancel \in BOOLEAN /\ WriteBy(p, e).sub \in Subscriptions \cup {NoSub}
           /\ \/ WriteBy(p, e).period = e.until /\ WriteBy(p, e).sub = e.sub
              \/ SaysLifetime(WriteBy(p, e))
<1> DEFINE Fits(w) ==
             /\ w.status \in Status /\ w.period \in Date
             /\ w.cancel \in BOOLEAN /\ w.sub \in Subscriptions \cup {NoSub}
             /\ (w.period = e.until /\ w.sub = e.sub) \/ SaysLifetime(w)
<1>0. /\ \A status \in Status, cancel \in BOOLEAN :
            Fits(Columns(status, e.until, cancel, e.sub))
      /\ Fits(Columns("active", NoDate, FALSE, NoSub))
  <2>1. e.until \in Date /\ e.sub \in Subscriptions \cup {NoSub}
    BY DEF BillingEvent
  <2>2. "active" \in Status /\ NoDate \in Date
    BY DEF Status, Date
  <2>3. QED
    BY <2>1, <2>2 DEF Columns, SaysLifetime
<1> HIDE DEF Fits
<1>1. p = "paystack" => Fits(WriteBy(p, e))
  <2> SUFFICES ASSUME p = "paystack" PROVE Fits(WriteBy(p, e))
    OBVIOUS
  <2>1. WriteBy(p, e) = subscriptionWriteFromEvent(e)
    BY DEF WriteBy
  <2>2. \/ subscriptionWriteFromEvent(e) = NoWrite
        \/ \E status \in Status, cancel \in BOOLEAN :
             subscriptionWriteFromEvent(e) = Columns(status, e.until, cancel, e.sub)
        \/ subscriptionWriteFromEvent(e) = Columns("active", NoDate, FALSE, NoSub)
    BY DEF subscriptionWriteFromEvent, Status
  <2>3. QED
    BY <2>1, <2>2, <1>0
<1>2. p = "paddle" => Fits(WriteBy(p, e))
  <2> SUFFICES ASSUME p = "paddle" PROVE Fits(WriteBy(p, e))
    OBVIOUS
  <2>1. WriteBy(p, e) = subscriptionUpsertFromEvent(e)
    BY DEF WriteBy
  <2>2. \/ subscriptionUpsertFromEvent(e) = NoWrite
        \/ \E status \in Status, cancel \in BOOLEAN :
             subscriptionUpsertFromEvent(e) = Columns(status, e.until, cancel, e.sub)
        \/ subscriptionUpsertFromEvent(e) = Columns("active", NoDate, FALSE, NoSub)
    BY DEF subscriptionUpsertFromEvent, BillingEvent
  <2>3. QED
    BY <2>1, <2>2, <1>0
<1>3. Fits(WriteBy(p, e))
  BY <1>1, <1>2
<1>4. QED
  BY <1>3 DEF Fits

\* Which webhook the deployment has decides what an event writes.
LEMMA WhoWrites == \A e : WriteOf(e) = WriteBy(provider, e)
BY DEF WriteOf, WriteBy

\* A write is never mistaken for none.
LEMMA WriteIsSome ==
    ASSUME NEW status \in Status, NEW period, NEW cancel, NEW sub
    PROVE  Columns(status, period, cancel, sub) # NoWrite
<1>1. Columns(status, period, cancel, sub).status = status
  BY DEF Columns
<1>2. NoWrite.status = "none" /\ "none" \notin Status
  BY DEF NoWrite, Status
<1>3. QED
  BY <1>1, <1>2

\* The row an event leaves is a row, and claims what the event claims.
LEMMA RowAfterShape ==
    ASSUME BillingTypeOK, NEW e \in BillingEvent, WriteOf(e) # NoWrite
    PROVE  /\ WriteOf(e) = WriteBy(provider, e)
           /\ RowAfter(e) \in BillingRow
           /\ RowAfter(e).status = WriteOf(e).status /\ RowAfter(e).period = WriteOf(e).period
           /\ RowAfter(e).cancel = WriteOf(e).cancel /\ RowAfter(e).sub = WriteOf(e).sub
           /\ RowAfter(e).customer = (row.customer \/ ~ByCustomer(e))
<1> DEFINE w == WriteOf(e)
<1>1. /\ w.status \in Status /\ w.period \in Date
      /\ w.cancel \in BOOLEAN /\ w.sub \in Subscriptions \cup {NoSub}
  BY WriteShape, WhoWrites DEF BillingTypeOK
<1>2. row.customer \in BOOLEAN
  BY DEF BillingTypeOK, BillingRow
<1>3. RowAfter(e) = [status |-> w.status, period |-> w.period, cancel |-> w.cancel,
                     sub |-> w.sub, customer |-> row.customer \/ ~ByCustomer(e)]
  BY DEF RowAfter
<1> HIDE DEF w
<1>4. RowAfter(e) \in BillingRow
  BY <1>1, <1>2, <1>3 DEF BillingRow
<1>5. QED
  BY <1>3, <1>4, WhoWrites DEF w

\* An event that is taken off the queue leaves the others, in their order.
LEMMA RemoveShape ==
    ASSUME BillingTypeOK, NEW i \in 1 .. Len(events), events' = RemoveAt(events, i)
    PROVE  /\ events' \in Seq(BillingEvent) /\ Len(events') = Len(events) - 1
           /\ \A j \in 1 .. Len(events') :
                events'[j] = IF j < i THEN events[j] ELSE events[j + 1]
<1> DEFINE front == SubSeq(events, 1, i - 1)
           rest == SubSeq(events, i + 1, Len(events))
<1>1. events \in Seq(BillingEvent) /\ i \in Nat /\ Len(events) \in Nat /\ 1 <= i /\ i <= Len(events)
  BY DEF BillingTypeOK
<1>2. /\ front \in Seq(BillingEvent) /\ Len(front) = i - 1
      /\ \A j \in 1 .. i - 1 : front[j] = events[j]
  BY <1>1
<1>3. /\ rest \in Seq(BillingEvent) /\ Len(rest) = Len(events) - i
      /\ \A j \in 1 .. Len(events) - i : rest[j] = events[i + j]
  BY <1>1
<1>4. events' = front \o rest
  BY DEF RemoveAt
<1> HIDE DEF front, rest
<1>5. /\ events' \in Seq(BillingEvent) /\ Len(events') = Len(front) + Len(rest)
      /\ \A j \in 1 .. Len(front) + Len(rest) :
            events'[j] = IF j <= Len(front) THEN front[j] ELSE rest[j - Len(front)]
  <2>1. front \in Seq(BillingEvent) /\ rest \in Seq(BillingEvent)
    BY <1>2, <1>3
  <2>2. front \o rest \in Seq(BillingEvent) /\ Len(front \o rest) = Len(front) + Len(rest)
    BY <2>1
  <2>3. \A j \in 1 .. Len(front) + Len(rest) :
            (front \o rest)[j] = IF j <= Len(front) THEN front[j] ELSE rest[j - Len(front)]
    BY <2>1
  <2>4. QED
    BY <1>4, <2>2, <2>3
<1>6. Len(events') = Len(events) - 1
  BY <1>1, <1>2, <1>3, <1>5
<1>7. ASSUME NEW j \in 1 .. Len(events')
      PROVE  events'[j] = IF j < i THEN events[j] ELSE events[j + 1]
  <2>1. CASE j < i
    BY <1>1, <1>2, <1>3, <1>5, <1>6, <2>1
  <2>2. CASE j >= i
    <3>1. events'[j] = rest[j - (i - 1)] /\ j - (i - 1) \in 1 .. Len(events) - i
      BY <1>1, <1>2, <1>3, <1>5, <1>6, <2>2
    <3>2. rest[j - (i - 1)] = events[i + (j - (i - 1))] /\ i + (j - (i - 1)) = j + 1
      BY <1>1, <1>3, <3>1
    <3>3. QED
      BY <1>1, <2>2, <3>1, <3>2
  <2>3. QED
    BY <1>1, <2>1, <2>2
<1>8. QED
  BY <1>5, <1>6, <1>7

\* What is sent joins the end of the queue.
LEMMA SendShape ==
    ASSUME BillingTypeOK, NEW es \in Seq(BillingEvent), events' = events \o es
    PROVE  /\ events' \in Seq(BillingEvent) /\ Len(events') = Len(events) + Len(es)
           /\ \A j \in 1 .. Len(events) : events'[j] = events[j]
           /\ \A j \in 1 .. Len(es) : events'[Len(events) + j] = es[j]
           /\ \A j \in 1 .. Len(events') : j > Len(events) => events'[j] = es[j - Len(events)]
BY DEF BillingTypeOK

-----------------------------------------------------------------------------
\* What was sold stays sold.

Grown(books, later) ==
    \A s \in Subscriptions, until \in Date : Sold(books, s, until) => Sold(later, s, until)

\* An event's claims stay true while the books grow.
LEMMA ClaimsLast ==
    ASSUME NEW e \in BillingEvent, NEW p, NEW books, NEW later,
           NEW isPaid, NEW stillPaid, NEW isLifetime, NEW stillLifetime,
           Grown(books, later), isPaid => stillPaid, isLifetime => stillLifetime,
           Claims(e, p, books, isPaid, isLifetime)
    PROVE  Claims(e, p, later, stillPaid, stillLifetime)
<1>1. e.until \in Date /\ e.sub \in Subscriptions \cup {NoSub}
  BY DEF BillingEvent
<1>2. e.sub # NoSub => Sold(later, e.sub, e.until)
  BY <1>1 DEF Claims, Grown
<1>3. QED
  BY <1>2 DEF Claims

\* A step of the books that sends events and leaves the row alone: if what is sent
\* claims no more than the new books, neither does the queue or the row.
LEMMA SendingKeepsClaims ==
    ASSUME ClaimsInv, NEW es \in Seq(BillingEvent), events' = events \o es,
           \A i \in 1 .. Len(es) : Claims(es[i], provider', subs', paid', lifetime'),
           Grown(subs, subs'), provider' = provider, row' = row,
           paid => paid', lifetime => lifetime'
    PROVE  QueueInv' /\ RowInv' /\ events' \in Seq(BillingEvent)
<1>1. /\ events' \in Seq(BillingEvent) /\ Len(events') = Len(events) + Len(es)
      /\ \A j \in 1 .. Len(events) : events'[j] = events[j]
      /\ \A j \in 1 .. Len(events') : j > Len(events) => events'[j] = es[j - Len(events)]
  BY SendShape DEF ClaimsInv
<1>2. events \in Seq(BillingEvent) /\ row \in BillingRow
  BY DEF ClaimsInv, BillingTypeOK
<1>3. ASSUME NEW j \in 1 .. Len(events')
      PROVE  Claims(events'[j], provider', subs', paid', lifetime')
  <2>1. CASE j <= Len(events)
    <3>1. j \in 1 .. Len(events) /\ events[j] \in BillingEvent
      BY <1>2, <2>1
    <3>2. Claims(events[j], provider, subs, paid, lifetime)
      BY <3>1 DEF ClaimsInv, QueueInv
    <3>3. Claims(events[j], provider, subs', paid', lifetime')
      BY <3>1, <3>2, ClaimsLast
    <3>4. QED
      BY <3>1, <3>3, <1>1
  <2>2. CASE j > Len(events)
    <3>1. j - Len(events) \in 1 .. Len(es)
      BY <1>1, <1>2, <2>2
    <3>2. QED
      BY <1>1, <2>2, <3>1
  <2>3. QED
    BY <1>1, <1>2, <2>1, <2>2
<1>4. RowInv'
  <2>1. row.sub \in Subscriptions \cup {NoSub} /\ row.period \in Date
    BY <1>2 DEF BillingRow
  <2>2. RowInv
    BY DEF ClaimsInv
  <2>3. QED
    BY <2>1, <2>2 DEF RowInv, Grown
<1>5. QED
  BY <1>1, <1>3, <1>4 DEF QueueInv

-----------------------------------------------------------------------------
\* A subscription that changes tells its row so.

\* What Paystack calls the change that left a subscription in a status.
PaystackNames ==
    {<<"subscription.create", "active">>, <<"invoice.update", "active">>,
     <<"invoice.payment_failed", "past_due">>, <<"subscription.not_renew", "cancelling">>,
     <<"subscription.disable", "ended">>}

\* e tells at time t, in the way of provider p, that subscription s is sub.
Tale(p, e, s, sub, t) ==
    /\ e \in BillingEvent /\ e.sub = s
    /\ e.until = sub.until \/ (e.until = NoDate /\ sub.status = "past_due" /\ sub.until <= t)
    /\ \/ /\ p = "paddle" /\ e.kind = "subscription"
          /\ e.status = PaddleStatus(sub.status) /\ e.cancel = (sub.status = "cancelling")
       \/ p = "paystack" /\ <<e.kind, sub.status>> \in PaystackNames

\* Event() makes events.
LEMMA EventShape ==
    ASSUME NEW kind
    PROVE  /\ kind \in {"charge.success", "subscription.create", "subscription.not_renew",
                         "subscription.disable", "invoice.payment_failed", "invoice.update",
                         "subscription", "transaction.completed"}
              => Event(kind) \in BillingEvent
           /\ Event(kind).kind = kind /\ Event(kind).plan /\ Event(kind).exact
           /\ Event(kind).until = NoDate /\ Event(kind).sub = NoSub
<1>1. "active" \in Status /\ NoDate \in Date
  BY DEF Status, Date
<1>2. QED
  BY <1>1 DEF Event, BillingEvent

\* What the provider tells of a change is the subscription as it has become.
LEMMA TellsTale ==
    ASSUME BillingTypeOK, NEW s \in Subscriptions, NEW sub \in Subscription, NEW kind,
           provider = "paddle" \/ <<kind, sub.status>> \in PaystackNames
    PROVE  \E e : /\ Tells(s, sub, kind) = <<e>> /\ Tale(provider, e, s, sub, now)
                  /\ provider = "paystack" => e.kind = kind
<1>1. sub.status \in {"none", "active", "past_due", "cancelling", "pausing", "paused", "ended"}
      /\ sub.until \in Date
  BY DEF Subscription, Date
<1>2. CASE provider = "paddle"
  <2> DEFINE e == [Event("subscription") EXCEPT !.status = PaddleStatus(sub.status), !.sub = s,
                      !.until = sub.until, !.cancel = sub.status = "cancelling"]
  <2>1. Tells(s, sub, kind) = <<e>>
    BY <1>2 DEF Tells, PaddleTells
  <2>2. PaddleStatus(sub.status) \in Status
    BY DEF PaddleStatus, Status
  <2>3. Event("subscription") \in BillingEvent
    BY EventShape DEF BillingEvent
  <2>4. /\ e \in BillingEvent /\ e.kind = "subscription"
        /\ e.status = PaddleStatus(sub.status) /\ e.sub = s
        /\ e.until = sub.until /\ e.cancel = (sub.status = "cancelling")
    BY <1>1, <2>2, <2>3, EventShape DEF BillingEvent
  <2> HIDE DEF e
  <2>5. Tale(provider, e, s, sub, now)
    BY <1>2, <2>4 DEF Tale
  <2>6. QED
    BY <1>2, <2>1, <2>5
<1>3. CASE provider = "paystack" /\ <<kind, sub.status>> \in PaystackNames
  <2> DEFINE e == [Event(kind) EXCEPT !.until = sub.until, !.sub = s]
  <2>1. kind \in {"subscription.create", "subscription.not_renew", "subscription.disable",
                  "invoice.payment_failed", "invoice.update"}
    BY <1>3 DEF PaystackNames
  <2>2. Tells(s, sub, kind) = <<e>>
    BY <1>3, <2>1 DEF Tells
  <2>3. Event(kind) \in BillingEvent
    BY <2>1, EventShape DEF BillingEvent
  <2>4. /\ e \in BillingEvent /\ e.kind = kind /\ e.sub = s /\ e.until = sub.until
    BY <1>1, <2>3, EventShape DEF BillingEvent
  <2> HIDE DEF e
  <2>5. Tale(provider, e, s, sub, now)
    BY <1>3, <2>4 DEF Tale
  <2>6. QED
    BY <2>2, <2>4, <2>5
<1>4. QED
  BY <1>2, <1>3 DEF BillingTypeOK

\* Such an event writes columns that say what the provider would, and claims no
\* more than it has sold.
LEMMA TaleIsTrue ==
    ASSUME NEW p \in {"paystack", "paddle"}, NEW s \in Subscriptions, NEW sub \in Subscription,
           NEW e, NEW t, Tale(p, e, s, sub, t), sub.status # "none"
    PROVE  /\ e \in BillingEvent /\ e.kind # "charge.success"
           /\ WriteBy(p, e) # NoWrite /\ Says(WriteBy(p, e), s, sub, t)
           /\ \A books, isLifetime : books[s] = sub => Claims(e, p, books, TRUE, isLifetime)
<1> DEFINE w == WriteBy(p, e)
<1>1. /\ sub.status \in {"active", "past_due", "cancelling", "pausing", "paused", "ended"}
      /\ sub.until \in Nat /\ NoDate \notin Nat /\ s # NoSub /\ NoDate <= sub.until
  BY BillingAssumption DEF Subscription, NoDate
<1>2. e \in BillingEvent /\ e.sub = s /\ e.kind # "charge.success"
  BY DEF Tale, PaystackNames
<1>3. CASE p = "paddle"
  <2>1. /\ e.kind = "subscription" /\ e.status = PaddleStatus(sub.status)
        /\ e.cancel = (sub.status = "cancelling")
    BY <1>3 DEF Tale
  <2>2. w = Columns(PaddleStatus(sub.status), e.until, e.cancel, s)
    BY <1>2, <1>3, <2>1 DEF WriteBy, subscriptionUpsertFromEvent
  <2>3. w # NoWrite
    <3>1. PaddleStatus(sub.status) \in Status
      BY DEF PaddleStatus, Status
    <3>2. QED
      BY <2>2, <3>1, WriteIsSome
  <2>4. /\ w.status = PaddleStatus(sub.status) /\ w.period = e.until
        /\ w.cancel = e.cancel /\ w.sub = s
    BY <2>2 DEF Columns
  <2>5. Says(w, s, sub, t)
    <3>1. CASE sub.status \in {"active", "pausing"}
      BY <1>1, <2>4, <3>1 DEF Says, Tale, PaddleStatus
    <3>2. CASE sub.status = "cancelling"
      BY <1>1, <2>1, <2>4, <3>2 DEF Says, Tale, PaddleStatus
    <3>3. CASE sub.status = "past_due"
      BY <1>1, <2>4, <3>3 DEF Says, Tale, PaddleStatus
    <3>4. CASE sub.status \in {"paused", "ended"}
      BY <1>1, <2>4, <3>4 DEF Says, Tale, PaddleStatus
    <3>5. QED
      BY <1>1, <3>1, <3>2, <3>3, <3>4
  <2>6. ~(w.status = "active" /\ w.period = NoDate)
    BY <1>1, <2>4 DEF Tale, PaddleStatus
  <2>7. QED
    BY <1>1, <1>2, <1>3, <2>1, <2>3, <2>5, <2>6 DEF Claims, Sold, Tale
<1>4. CASE p = "paystack"
  <2>1. <<e.kind, sub.status>> \in PaystackNames
    BY <1>4 DEF Tale
  <2>2. \E status \in Status, cancel \in BOOLEAN :
           /\ w = Columns(status, e.until, cancel, s)
           /\ \/ sub.status = "active" /\ status = "active"
              \/ sub.status = "past_due" /\ status = "past_due"
              \/ sub.status = "cancelling" /\ status = "active" /\ cancel
              \/ sub.status = "ended" /\ status = "canceled"
    <3>1. w = subscriptionWriteFromEvent(e)
      BY <1>4 DEF WriteBy
    <3>2. CASE e.kind \in {"subscription.create", "invoice.update"} /\ sub.status = "active"
      <4>1. w = Columns("active", e.until, FALSE, s)
        BY <1>2, <3>1, <3>2 DEF subscriptionWriteFromEvent
      <4>2. QED
        BY <3>2, <4>1 DEF Status
    <3>3. CASE e.kind = "invoice.payment_failed" /\ sub.status = "past_due"
      <4>1. w = Columns("past_due", e.until, FALSE, s)
        BY <1>2, <3>1, <3>3 DEF subscriptionWriteFromEvent
      <4>2. QED
        BY <3>3, <4>1 DEF Status
    <3>4. CASE e.kind = "subscription.not_renew" /\ sub.status = "cancelling"
      <4>1. w = Columns("active", e.until, TRUE, s)
        BY <1>2, <3>1, <3>4 DEF subscriptionWriteFromEvent
      <4>2. QED
        BY <3>4, <4>1 DEF Status
    <3>5. CASE e.kind = "subscription.disable" /\ sub.status = "ended"
      <4>1. w = Columns("canceled", e.until, TRUE, s)
        BY <1>2, <3>1, <3>5 DEF subscriptionWriteFromEvent
      <4>2. QED
        BY <3>5, <4>1 DEF Status
    <3>6. QED
      BY <2>1, <3>2, <3>3, <3>4, <3>5 DEF PaystackNames
  <2>3. PICK status \in Status, cancel \in BOOLEAN :
           /\ w = Columns(status, e.until, cancel, s)
           /\ \/ sub.status = "active" /\ status = "active"
              \/ sub.status = "past_due" /\ status = "past_due"
              \/ sub.status = "cancelling" /\ status = "active" /\ cancel
              \/ sub.status = "ended" /\ status = "canceled"
    BY <2>2
  <2>4. w # NoWrite
    BY <2>3, WriteIsSome
  <2>5. w.status = status /\ w.period = e.until /\ w.cancel = cancel /\ w.sub = s
    BY <2>3 DEF Columns
  <2>6. Says(w, s, sub, t)
    BY <1>1, <2>3, <2>5 DEF Says, Tale
  <2>7. ~(w.status = "active" /\ w.period = NoDate)
    BY <1>1, <2>3, <2>5 DEF Tale
  <2>8. e.kind \notin {"subscription", "transaction.completed"}
    BY <2>1 DEF PaystackNames
  <2>9. QED
    BY <1>1, <1>2, <1>4, <2>4, <2>6, <2>7, <2>8 DEF Claims, Sold, Tale
<1>5. QED
  BY <1>3, <1>4

-----------------------------------------------------------------------------
\* A live subscription changes.

\* What every change of a subscription the learner already has comes to: it becomes
\* sub, for no shorter time, and one event tells it, except that Paystack says
\* nothing of a cancelled one resumed.
Turns(s, sub, es) ==
    /\ Live(s) /\ Becomes(s, sub) /\ events' = events \o es
    /\ subs[s].until <= sub.until
    /\ sub.status # "none"
    /\ sub.status \in {"paused", "ended"} => sub.until <= now
    /\ provider = "paystack" => sub.status \notin {"pausing", "paused"}
    /\ \/ /\ es = << >> /\ subs[s].status = "cancelling"
          /\ sub.status = "active" /\ sub.until = subs[s].until
       \/ \E e : es = <<e>> /\ Tale(provider, e, s, sub, now)
    /\ UNCHANGED <<provider, now, lifetime, row, faults, billingPast>>

\* The end of a period is a turn of the provider's books with its events.
LEMMA PeriodEndsTurns ==
    ASSUME BillingTypeOK, ProviderInv, NEW s \in Subscriptions, PeriodEnds(s)
    PROVE  \E sub \in Subscription, es \in Seq(BillingEvent) : Turns(s, sub, es)
<1>1. PICK sub \in [status: {"active", "past_due", "paused", "ended"}, until: {now, now + 1}],
            dated \in BOOLEAN :
         /\ \/ /\ subs[s].status \in {"active", "past_due"} /\ sub.status = "active"
               /\ sub.until = now + 1 /\ dated
               /\ Sends(Tells(s, sub, "invoice.update"))
            \/ /\ subs[s].status = "active" /\ sub.status = "past_due"
               /\ dated = (sub.until = now + 1)
               /\ Sends(<<[Tells(s, sub, "invoice.payment_failed")[1] EXCEPT
                             !.until = IF dated THEN @ ELSE NoDate]>>)
            \/ /\ subs[s].status = "pausing" /\ sub.status = "paused" /\ sub.until = now /\ dated
               /\ Sends(Tells(s, sub, "none"))
            \/ /\ subs[s].status \in {"past_due", "cancelling"} /\ sub.status = "ended"
               /\ sub.until = now /\ dated
               /\ Sends(Tells(s, sub, "subscription.disable"))
         /\ Becomes(s, sub)
  BY DEF PeriodEnds
<1>2. /\ now = subs[s].until /\ now \in Nat /\ provider \in {"paystack", "paddle"}
      /\ UNCHANGED <<provider, now, lifetime, row, faults, billingPast>>
  BY DEF PeriodEnds, BillingTypeOK
<1>3. sub \in Subscription /\ sub.until \in {now, now + 1}
  BY <1>2 DEF Subscription
<1>4. provider = "paystack" => subs[s].status # "pausing"
  BY DEF ProviderInv
<1>5. ASSUME NEW e, Tale(provider, e, s, sub, now), events' = events \o <<e>>,
             subs[s].status \in {"active", "past_due", "pausing", "cancelling"},
             sub.status \in {"paused", "ended"} => sub.until = now,
             sub.status = "paused" => subs[s].status = "pausing"
      PROVE  Turns(s, sub, <<e>>) /\ <<e>> \in Seq(BillingEvent)
  <2>1. e \in BillingEvent
    BY <1>5 DEF Tale
  <2>2. Live(s)
    BY <1>5 DEF Live
  <2>3. subs[s].until <= sub.until /\ (sub.status \in {"paused", "ended"} => sub.until <= now)
    BY <1>2, <1>3, <1>5
  <2>4. provider = "paystack" => sub.status \notin {"pausing", "paused"}
    BY <1>4, <1>5
  <2>5. sub.status # "none"
    OBVIOUS
  <2>6. QED
    BY <1>1, <1>2, <1>5, <2>1, <2>2, <2>3, <2>4, <2>5 DEF Turns
<1>6. CASE /\ subs[s].status \in {"active", "past_due"} /\ sub.status = "active"
           /\ Sends(Tells(s, sub, "invoice.update"))
  <2>1. PICK e : Tells(s, sub, "invoice.update") = <<e>> /\ Tale(provider, e, s, sub, now)
    BY <1>2, <1>3, <1>6, TellsTale DEF PaystackNames
  <2>2. events' = events \o <<e>>
    BY <1>6, <2>1 DEF Sends
  <2>3. QED
    BY <1>3, <1>5, <1>6, <2>1, <2>2
<1>7. CASE /\ subs[s].status = "active" /\ sub.status = "past_due"
           /\ dated = (sub.until = now + 1)
           /\ Sends(<<[Tells(s, sub, "invoice.payment_failed")[1] EXCEPT
                         !.until = IF dated THEN @ ELSE NoDate]>>)
  <2>1. PICK e0 : /\ Tells(s, sub, "invoice.payment_failed") = <<e0>>
                  /\ Tale(provider, e0, s, sub, now)
    BY <1>2, <1>3, <1>7, TellsTale DEF PaystackNames
  <2> DEFINE e == [e0 EXCEPT !.until = IF dated THEN e0.until ELSE NoDate]
  <2>2. events' = events \o <<e>>
    BY <1>7, <2>1 DEF Sends
  <2>3. e0 \in BillingEvent /\ NoDate \in Date
    BY <2>1 DEF Tale, Date
  <2>4. /\ e \in BillingEvent /\ e.kind = e0.kind /\ e.status = e0.status
        /\ e.cancel = e0.cancel /\ e.sub = e0.sub
        /\ e.until = IF dated THEN e0.until ELSE NoDate
    BY <2>3 DEF BillingEvent
  <2> HIDE DEF e
  <2>5. e.until = e0.until \/ (e.until = NoDate /\ sub.until <= now)
    <3>1. CASE dated
      BY <2>4, <3>1
    <3>2. CASE ~dated
      <4>1. sub.until # now + 1
        BY <1>7, <3>2
      <4>2. QED
        BY <1>2, <1>3, <2>4, <3>2, <4>1
    <3>3. QED
      BY <3>1, <3>2
  <2>6. Tale(provider, e, s, sub, now)
    BY <1>7, <2>1, <2>4, <2>5 DEF Tale
  <2>7. QED
    BY <1>3, <1>5, <1>7, <2>2, <2>6
<1>8. CASE /\ subs[s].status = "pausing" /\ sub.status = "paused" /\ sub.until = now
           /\ Sends(Tells(s, sub, "none"))
  <2>1. PICK e : Tells(s, sub, "none") = <<e>> /\ Tale(provider, e, s, sub, now)
    BY <1>2, <1>3, <1>4, <1>8, TellsTale
  <2>2. events' = events \o <<e>>
    BY <1>8, <2>1 DEF Sends
  <2>3. QED
    BY <1>3, <1>5, <1>8, <2>1, <2>2
<1>9. CASE /\ subs[s].status \in {"past_due", "cancelling"} /\ sub.status = "ended"
           /\ sub.until = now
           /\ Sends(Tells(s, sub, "subscription.disable"))
  <2>1. PICK e : Tells(s, sub, "subscription.disable") = <<e>> /\ Tale(provider, e, s, sub, now)
    BY <1>2, <1>3, <1>9, TellsTale DEF PaystackNames
  <2>2. events' = events \o <<e>>
    BY <1>9, <2>1 DEF Sends
  <2>3. QED
    BY <1>3, <1>5, <1>9, <2>1, <2>2
<1>10. QED
  BY <1>1, <1>6, <1>7, <1>8, <1>9

\* So is what the learner does in the provider's portal.
LEMMA PortalTurns ==
    ASSUME BillingTypeOK, NEW s \in Subscriptions, Portal(s)
    PROVE  \E sub \in Subscription, es \in Seq(BillingEvent) : Turns(s, sub, es)
<1> DEFINE sub == [subs[s] EXCEPT !.status = "cancelling"]
<1>1. /\ subs[s].status = "active" /\ Becomes(s, sub)
      /\ Sends(Tells(s, sub, "subscription.not_renew"))
      /\ UNCHANGED <<provider, now, lifetime, row, faults, billingPast>>
  BY DEF Portal
<1>2. subs[s] \in Subscription /\ provider \in {"paystack", "paddle"}
  BY DEF BillingTypeOK
<1>3. /\ sub \in Subscription /\ sub.status = "cancelling" /\ sub.until = subs[s].until
      /\ sub.until \in Nat
  BY <1>2 DEF Subscription
<1> HIDE DEF sub
<1>4. PICK e : /\ Tells(s, sub, "subscription.not_renew") = <<e>>
               /\ Tale(provider, e, s, sub, now)
  BY <1>2, <1>3, TellsTale DEF PaystackNames
<1>5. events' = events \o <<e>> /\ <<e>> \in Seq(BillingEvent)
  <2>1. e \in BillingEvent
    BY <1>4 DEF Tale
  <2>2. events' = events \o <<e>>
    BY <1>1, <1>4 DEF Sends
  <2>3. QED
    BY <2>1, <2>2
<1>6. Turns(s, sub, <<e>>)
  BY <1>1, <1>3, <1>4, <1>5 DEF Turns, Live
<1>7. QED
  BY <1>3, <1>5, <1>6

\* And what the learner does on Forge's own pages.
LEMMA LearnerTurns ==
    ASSUME BillingTypeOK, ProviderInv, ChangeSubscription
    PROVE  \E s \in Subscriptions, sub \in Subscription, es \in Seq(BillingEvent) :
              Turns(s, sub, es)
<1> DEFINE s == row.sub
<1>1. /\ s \in Subscriptions /\ now \in Nat /\ subs[s] \in Subscription
      /\ provider \in {"paystack", "paddle"}
      /\ UNCHANGED <<provider, now, lifetime, row, faults, billingPast>>
      /\ PaystackTurns(s) \/ PaddleTurns(s)
  BY DEF ChangeSubscription, BillingTypeOK, BillingRow
<1>2. subs[s].until \in Nat /\ (subs[s].status = "paused" => subs[s].until <= now)
  BY <1>1 DEF Subscription, ProviderInv
<1> HIDE DEF s
<1>3. \E from, to, kind :
         /\ TurnSubscription(s, from, to, kind)
         /\ \/ /\ provider = "paystack" /\ from = "active" /\ to = "cancelling"
               /\ kind = "subscription.not_renew"
            \/ provider = "paystack" /\ from = "cancelling" /\ to = "active" /\ kind = "none"
            \/ /\ provider = "paddle"
               /\ <<from, to>> \in {<<"active", "cancelling">>, <<"active", "pausing">>,
                                    <<"paused", "active">>}
  <2>1. CASE PaystackTurns(s)
    BY <2>1 DEF PaystackTurns
  <2>2. CASE PaddleTurns(s)
    BY <2>2 DEF PaddleTurns
  <2>3. QED
    BY <1>1, <2>1, <2>2
<1>4. PICK from, to, kind :
         /\ TurnSubscription(s, from, to, kind)
         /\ \/ /\ provider = "paystack" /\ from = "active" /\ to = "cancelling"
               /\ kind = "subscription.not_renew"
            \/ provider = "paystack" /\ from = "cancelling" /\ to = "active" /\ kind = "none"
            \/ /\ provider = "paddle"
               /\ <<from, to>> \in {<<"active", "cancelling">>, <<"active", "pausing">>,
                                    <<"paused", "active">>}
  BY <1>3
<1> DEFINE sub == [status |-> to, until |-> IF from = "paused" THEN now + 1 ELSE subs[s].until]
<1>5. subs[s].status = from /\ Becomes(s, sub) /\ Sends(Tells(s, sub, kind))
  BY <1>4 DEF TurnSubscription
<1>6. /\ sub \in Subscription /\ sub.status = to /\ to \in {"active", "cancelling", "pausing"}
      /\ subs[s].until <= sub.until /\ (from = "cancelling" => sub.until = subs[s].until)
  BY <1>1, <1>2, <1>4, <1>5 DEF Subscription
<1>7. from \in {"active", "cancelling", "paused"} /\ Live(s)
  BY <1>4, <1>5 DEF Live
<1> HIDE DEF sub
<1>8. CASE provider = "paystack" /\ kind = "none"
  <2>1. Tells(s, sub, kind) = << >>
    BY <1>8 DEF Tells
  <2>2. events' = events \o << >>
    BY <1>5, <2>1 DEF Sends
  <2>3. from = "cancelling" /\ to = "active"
    BY <1>4, <1>8
  <2>4. Turns(s, sub, << >>)
    BY <1>1, <1>5, <1>6, <1>7, <1>8, <2>2, <2>3 DEF Turns
  <2>5. << >> \in Seq(BillingEvent)
    OBVIOUS
  <2>6. QED
    BY <1>1, <1>6, <2>4, <2>5
<1>9. CASE provider = "paddle" \/ kind = "subscription.not_renew"
  <2>1. provider = "paddle" \/ <<kind, sub.status>> \in PaystackNames
    BY <1>4, <1>6, <1>9 DEF PaystackNames
  <2>2. PICK e : Tells(s, sub, kind) = <<e>> /\ Tale(provider, e, s, sub, now)
    BY <1>1, <1>6, <2>1, TellsTale
  <2>3. events' = events \o <<e>> /\ <<e>> \in Seq(BillingEvent)
    BY <1>5, <2>2 DEF Sends, Tale
  <2>4. provider = "paystack" => to # "pausing"
    BY <1>4
  <2>5. Turns(s, sub, <<e>>)
    BY <1>1, <1>5, <1>6, <1>7, <2>2, <2>3, <2>4 DEF Turns
  <2>6. QED
    BY <1>1, <1>6, <2>3, <2>5
<1>10. QED
  BY <1>4, <1>8, <1>9

\* A change of a subscription keeps every claim true: it is for no shorter time.
LEMMA TurnKeepsClaims ==
    ASSUME ClaimsInv, NEW s \in Subscriptions, NEW sub \in Subscription,
           NEW es \in Seq(BillingEvent), Turns(s, sub, es)
    PROVE  ClaimsInv'
<1>1. BillingTypeOK /\ ProviderInv
  BY DEF ClaimsInv
<1>2. /\ subs \in [Subscriptions -> Subscription] /\ now \in Nat
      /\ provider \in {"paystack", "paddle"} /\ lifetime \in BOOLEAN /\ row \in BillingRow
      /\ paid \in BOOLEAN
  BY <1>1 DEF BillingTypeOK
<1>3. /\ UNCHANGED <<provider, now, lifetime, row, faults, paid, mixed, disordered, missed>>
      /\ subs' = [subs EXCEPT ![s] = sub] /\ events' = events \o es
      /\ subs[s].until <= sub.until /\ sub.status # "none"
      /\ sub.status \in {"paused", "ended"} => sub.until <= now
      /\ provider = "paystack" => sub.status \notin {"pausing", "paused"}
  BY DEF Turns, Becomes, billingPast
<1>4. subs'[s] = sub /\ \A other \in Subscriptions \ {s} : subs'[other] = subs[other]
  BY <1>2, <1>3
<1>5. paid
  BY <1>1 DEF ProviderInv, Turns, Live
<1>6. Grown(subs, subs')
  <2>1. \A until \in Date : until <= subs[s].until => until <= sub.until
    BY <1>2, <1>3 DEF Date, NoDate, Subscription
  <2>2. QED
    BY <1>3, <1>4, <2>1 DEF Grown, Sold
<1>7. \A i \in 1 .. Len(es) : Claims(es[i], provider', subs', paid', lifetime')
  <2>1. CASE es = << >>
    BY <2>1
  <2>2. CASE \E e : es = <<e>> /\ Tale(provider, e, s, sub, now)
    <3>1. PICK e : es = <<e>> /\ Tale(provider, e, s, sub, now)
      BY <2>2
    <3>2. Claims(e, provider, subs', TRUE, lifetime')
      BY <1>2, <1>3, <1>4, <3>1, TaleIsTrue
    <3>3. paid' = TRUE
      BY <1>2, <1>3, <1>5
    <3>4. Claims(e, provider', subs', paid', lifetime')
      BY <1>3, <3>2, <3>3
    <3>5. Len(es) = 1 /\ es[1] = e
      BY <3>1
    <3>6. QED
      BY <3>4, <3>5
  <2>3. QED
    BY <2>1, <2>2 DEF Turns
<1>8. QueueInv' /\ RowInv' /\ events' \in Seq(BillingEvent)
  BY <1>3, <1>6, <1>7, SendingKeepsClaims
<1>9. BillingTypeOK'
  BY <1>1, <1>3, <1>8 DEF BillingTypeOK
<1>10. ProviderInv'
  BY <1>1, <1>3, <1>4, <1>5 DEF ProviderInv
<1>11. QED
  BY <1>8, <1>9, <1>10 DEF ClaimsInv

\* What is sent keeps the order when, of itself, a charge is followed by its dates,
\* and the first purchase says who the customer is.
LEMMA SendingKeepsOrder ==
    ASSUME BillingTypeOK, InOrder, NEW es \in Seq(BillingEvent), events' = events \o es,
           UNCHANGED <<provider, row, disordered, missed>>, lifetime => lifetime',
           ~disordered =>
             /\ \A i \in 1 .. Len(es) :
                  es[i].kind = "charge.success" /\ es[i].plan =>
                    i < Len(es) /\ es[i + 1].kind = "subscription.create"
             /\ provider = "paystack" =>
                  /\ \A i \in 1 .. Len(es) :
                       es[i].kind # "charge.success" =>
                         paid \/ \E j \in 1 .. Len(es) : j < i /\ NamesCustomer(es[j])
                  /\ paid' => paid \/ \E j \in 1 .. Len(es) : NamesCustomer(es[j])
    PROVE  InOrder'
<1> SUFFICES ASSUME ~disordered'
             PROVE  /\ DatesFollow' /\ CustomerIsKnown'
                    /\ ~missed' /\ ~lifetime' /\ row'.status = "active" /\ row'.period = NoDate
                         => DatesAreDue'
  BY DEF InOrder
<1>1. events \in Seq(BillingEvent) /\ Len(events) \in Nat /\ Len(es) \in Nat
  BY DEF BillingTypeOK
<1>2. /\ Len(events') = Len(events) + Len(es)
      /\ \A j \in 1 .. Len(events) : events'[j] = events[j]
      /\ \A j \in 1 .. Len(es) : events'[Len(events) + j] = es[j]
      /\ \A j \in 1 .. Len(events') : j > Len(events) => events'[j] = es[j - Len(events)]
  BY SendShape
<1>3. /\ DatesFollow /\ CustomerIsKnown
      /\ ~missed /\ ~lifetime /\ row.status = "active" /\ row.period = NoDate => DatesAreDue
  BY DEF InOrder
<1>4. 1 .. Len(events) \subseteq 1 .. Len(events')
  BY <1>1, <1>2
<1>5. DatesFollow'
  <2>1. ASSUME NEW i \in 1 .. Len(events'), events'[i].kind = "charge.success", events'[i].plan
        PROVE  i < Len(events') /\ events'[i + 1].kind = "subscription.create"
    <3>1. CASE i \in 1 .. Len(events)
      <4>1. i < Len(events) /\ events[i + 1].kind = "subscription.create"
        BY <1>2, <1>3, <2>1, <3>1 DEF DatesFollow
      <4>2. i + 1 \in 1 .. Len(events)
        BY <1>1, <3>1, <4>1
      <4>3. QED
        BY <1>1, <1>2, <4>1, <4>2
    <3>2. CASE i > Len(events)
      <4> DEFINE k == i - Len(events)
      <4>1. k \in 1 .. Len(es) /\ es[k].kind = "charge.success" /\ es[k].plan
        BY <1>1, <1>2, <2>1, <3>2
      <4>2. k < Len(es) /\ es[k + 1].kind = "subscription.create"
        BY <4>1
      <4>3. k + 1 \in 1 .. Len(es) /\ Len(events) + (k + 1) = i + 1
        BY <1>1, <4>1, <4>2
      <4>4. events'[i + 1] = es[k + 1]
        BY <1>2, <4>3
      <4>5. i < Len(events')
        BY <1>1, <1>2, <4>2
      <4>6. QED
        BY <4>2, <4>4, <4>5
    <3>3. QED
      BY <1>1, <3>1, <3>2
  <2>2. QED
    BY <2>1 DEF DatesFollow
<1>6. CustomerIsKnown'
  <2> SUFFICES ASSUME provider = "paystack", ~row.customer
               PROVE  /\ \A i \in 1 .. Len(events') :
                           events'[i].kind # "charge.success" =>
                             \E j \in 1 .. Len(events') : j < i /\ NamesCustomer(events'[j])
                      /\ paid' => \E j \in 1 .. Len(events') : NamesCustomer(events'[j])
    BY DEF CustomerIsKnown
  <2>1. paid => \E j \in 1 .. Len(events) : NamesCustomer(events'[j])
    BY <1>2, <1>3 DEF CustomerIsKnown
  <2>2. ASSUME NEW j \in 1 .. Len(es), NamesCustomer(es[j])
        PROVE  Len(events) + j \in 1 .. Len(events') /\ NamesCustomer(events'[Len(events) + j])
    BY <1>1, <1>2, <2>2
  <2>3. ASSUME NEW i \in 1 .. Len(events'), events'[i].kind # "charge.success"
        PROVE  \E j \in 1 .. Len(events') : j < i /\ NamesCustomer(events'[j])
    <3>1. CASE i \in 1 .. Len(events)
      <4>1. PICK j \in 1 .. Len(events) : j < i /\ NamesCustomer(events[j])
        BY <1>2, <1>3, <2>3, <3>1 DEF CustomerIsKnown
      <4>2. QED
        BY <1>2, <1>4, <4>1
    <3>2. CASE i > Len(events) /\ paid
      BY <1>1, <1>4, <2>1, <3>2
    <3>3. CASE i > Len(events) /\ ~paid
      <4>1. i - Len(events) \in 1 .. Len(es) /\ es[i - Len(events)].kind # "charge.success"
        BY <1>1, <1>2, <2>3, <3>3
      <4>2. PICK j \in 1 .. Len(es) : j < i - Len(events) /\ NamesCustomer(es[j])
        BY <3>3, <4>1
      <4>3. Len(events) + j < i
        BY <1>1, <4>2
      <4>4. QED
        BY <2>2, <4>2, <4>3
    <3>4. QED
      BY <1>1, <3>1, <3>2, <3>3
  <2>4. paid' => \E j \in 1 .. Len(events') : NamesCustomer(events'[j])
    BY <1>4, <2>1, <2>2
  <2>5. QED
    BY <2>3, <2>4
<1>7. DatesAreDue => DatesAreDue'
  BY <1>2, <1>4 DEF DatesAreDue
<1>8. QED
  BY <1>3, <1>5, <1>6, <1>7

\* Nor does a change disturb the order: what it tells comes last, of a known customer.
LEMMA TurnKeepsOrder ==
    ASSUME ClaimsInv, InOrder, NEW s \in Subscriptions, NEW sub \in Subscription,
           NEW es \in Seq(BillingEvent), Turns(s, sub, es)
    PROVE  InOrder'
<1>1. BillingTypeOK /\ ProviderInv
  BY DEF ClaimsInv
<1>2. /\ UNCHANGED <<provider, lifetime, row, paid, disordered, missed>>
      /\ events' = events \o es
  BY DEF Turns, billingPast
<1>3. paid
  BY <1>1 DEF ProviderInv, Turns, Live
<1>4. \A i \in 1 .. Len(es) : es[i].kind # "charge.success"
  <2>1. CASE es = << >>
    BY <2>1
  <2>2. CASE \E e : es = <<e>> /\ Tale(provider, e, s, sub, now)
    <3>1. PICK e : es = <<e>> /\ Tale(provider, e, s, sub, now)
      BY <2>2
    <3>2. e.kind # "charge.success" /\ Len(es) = 1 /\ es[1] = e
      BY <3>1 DEF Tale, PaystackNames
    <3>3. QED
      BY <3>2
  <2>3. QED
    BY <2>1, <2>2 DEF Turns
<1>5. QED
  BY <1>1, <1>2, <1>3, <1>4, SendingKeepsOrder

\* And the last word is the change.
LEMMA TurnKeepsLastWord ==
    ASSUME ClaimsInv, LastWordIsTrue, NEW s \in Subscriptions, NEW sub \in Subscription,
           NEW es \in Seq(BillingEvent), Turns(s, sub, es)
    PROVE  LastWordIsTrue'
<1> SUFFICES ASSUME paid', ~mixed', ~disordered', ~missed'
             PROVE  /\ LastWord' # NoWrite
                    /\ \/ lifetime' /\ NoneLive' /\ SaysLifetime(LastWord')
                       \/ ~lifetime' /\ \E t \in Subscriptions :
                             OnlyLive(t, subs') /\ Says(LastWord', t, subs'[t], now')
  BY DEF LastWordIsTrue
<1>1. BillingTypeOK /\ ProviderInv
  BY DEF ClaimsInv
<1>2. /\ UNCHANGED <<provider, now, lifetime, row, faults, paid, mixed, disordered, missed>>
      /\ events' = events \o es /\ subs' = [subs EXCEPT ![s] = sub] /\ Live(s)
      /\ sub.status # "none"
  BY DEF Turns, billingPast, Becomes
<1>3. /\ events \in Seq(BillingEvent) /\ subs \in [Subscriptions -> Subscription]
      /\ provider \in {"paystack", "paddle"}
  BY <1>1 DEF BillingTypeOK
<1>4. /\ LastWord # NoWrite
      /\ \/ lifetime /\ NoneLive /\ SaysLifetime(LastWord)
         \/ ~lifetime /\ \E t \in Subscriptions :
                            OnlyLive(t, subs) /\ Says(LastWord, t, subs[t], now)
  BY <1>2 DEF LastWordIsTrue
<1>5. ~lifetime /\ OnlyLive(s, subs) /\ Says(LastWord, s, subs[s], now)
  BY <1>2, <1>4 DEF NoneLive, OnlyLive, Live
<1>6. subs'[s] = sub /\ \A other \in Subscriptions \ {s} : subs'[other] = subs[other]
  BY <1>2, <1>3
<1>7. OnlyLive(s, subs')
  BY <1>5, <1>6 DEF OnlyLive
<1>8. LastWord' # NoWrite /\ Says(LastWord', s, sub, now)
  <2>1. CASE /\ es = << >> /\ subs[s].status = "cancelling"
             /\ sub.status = "active" /\ sub.until = subs[s].until
    <3>1. events' = events
      BY <1>2, <1>3, <2>1
    <3>2. LastWord' = LastWord
      BY <1>2, <3>1 DEF LastWord
    <3>3. Says(LastWord, s, sub, now)
      BY <1>5, <2>1 DEF Says
    <3>4. QED
      BY <1>4, <3>2, <3>3
  <2>2. CASE \E e : es = <<e>> /\ Tale(provider, e, s, sub, now)
    <3>1. PICK e : es = <<e>> /\ Tale(provider, e, s, sub, now)
      BY <2>2
    <3>2. /\ e \in BillingEvent /\ WriteBy(provider, e) # NoWrite
          /\ Says(WriteBy(provider, e), s, sub, now)
      BY <1>2, <1>3, <3>1, TaleIsTrue
    <3>3. Len(events') = Len(events) + 1 /\ events'[Len(events')] = e
      BY <1>2, <1>3, <3>1, <3>2
    <3>4. LastWord' = WriteBy(provider, e)
      <4>1. events' # << >>
        BY <1>3, <3>3
      <4>2. QED
        BY <1>2, <3>3, <4>1 DEF LastWord
    <3>5. QED
      BY <3>2, <3>4
  <2>3. QED
    BY <2>1, <2>2 DEF Turns
<1>9. QED
  BY <1>2, <1>5, <1>6, <1>7, <1>8

-----------------------------------------------------------------------------
\* The learner buys.

\* A charge, or a Paddle transaction of no subscription, claims nothing but that
\* something was paid.
LEMMA ChargeClaims ==
    ASSUME NEW p \in {"paystack", "paddle"}, NEW e, NEW books, NEW isPaid, NEW isLifetime,
           e.until = NoDate, e.sub = NoSub,
           \/ p = "paystack" /\ e.kind = "charge.success"
           \/ p = "paddle" /\ e.kind = "transaction.completed",
           p = "paystack" /\ (e.plan \/ e.exact) => isPaid,
           p = "paystack" /\ ~e.plan /\ e.exact => isLifetime,
           p = "paddle" => isPaid /\ isLifetime
    PROVE  Claims(e, p, books, isPaid, isLifetime)
<1>1. CASE p = "paddle"
  BY <1>1 DEF Claims
<1>2. CASE p = "paystack" /\ (e.plan \/ e.exact)
  BY <1>2 DEF Claims, WriteBy, subscriptionWriteFromEvent
<1>3. CASE p = "paystack" /\ ~e.plan /\ ~e.exact
  <2>1. WriteBy(p, e) = NoWrite
    BY <1>3 DEF WriteBy, subscriptionWriteFromEvent
  <2>2. QED
    BY <1>3, <2>1 DEF Claims
<1>4. QED
  BY <1>1, <1>2, <1>3

\* What is sent for a new subscription: by Paystack the charge and what it bought.
LEMMA SubscribeShape ==
    ASSUME BillingTypeOK, NEW s \in Subscriptions, Subscribe(s)
    PROVE  \E sub \in Subscription, e \in BillingEvent, es \in Seq(BillingEvent) :
             /\ sub.status = "active" /\ sub.until = now + 1
             /\ subs' = [subs EXCEPT ![s] = sub] /\ subs[s].status = "none"
             /\ Tale(provider, e, s, sub, now)
             /\ provider = "paystack" => e.kind = "subscription.create"
             /\ events' = events \o es
             /\ \/ provider = "paddle" /\ Len(es) = 1 /\ es[1] = e
                \/ /\ provider = "paystack" /\ Len(es) = 2
                   /\ \/ /\ es[1] = Event("charge.success") /\ es[2] = e
                         /\ disordered' = disordered
                      \/ es[1] = e /\ es[2] = Event("charge.success") /\ disordered'
<1> DEFINE sub == [status |-> "active", until |-> now + 1]
           charge == Event("charge.success")
           create == Tells(s, sub, "subscription.create")
<1>1. /\ subs[s].status = "none" /\ Becomes(s, sub) /\ provider \in {"paystack", "paddle"}
      /\ \/ /\ Sends(IF provider = "paddle" THEN create ELSE <<charge>> \o create)
            /\ disordered' = disordered
         \/ provider = "paystack" /\ Sends(create \o <<charge>>) /\ disordered' = TRUE
  BY DEF Subscribe, BillingTypeOK
<1>2. sub \in Subscription /\ sub.status = "active" /\ sub.until = now + 1
  BY DEF BillingTypeOK, Subscription
<1> HIDE DEF sub
<1>3. PICK e : /\ create = <<e>> /\ Tale(provider, e, s, sub, now)
               /\ provider = "paystack" => e.kind = "subscription.create"
  BY <1>1, <1>2, TellsTale DEF PaystackNames
<1>4. e \in BillingEvent /\ charge \in BillingEvent
  BY <1>3, EventShape DEF Tale
<1> HIDE DEF charge, create
<1>5. /\ <<e>> \in Seq(BillingEvent)
      /\ <<charge>> \o <<e>> \in Seq(BillingEvent) /\ <<e>> \o <<charge>> \in Seq(BillingEvent)
      /\ Len(<<charge>> \o <<e>>) = 2 /\ Len(<<e>> \o <<charge>>) = 2
      /\ (<<charge>> \o <<e>>)[1] = charge /\ (<<charge>> \o <<e>>)[2] = e
      /\ (<<e>> \o <<charge>>)[1] = e /\ (<<e>> \o <<charge>>)[2] = charge
  BY <1>4
<1>6. CASE provider = "paddle"
  <2>1. events' = events \o <<e>> /\ Len(<<e>>) = 1 /\ <<e>>[1] = e
    BY <1>1, <1>3, <1>6 DEF Sends
  <2>2. QED
    BY <1>1, <1>2, <1>3, <1>4, <1>5, <1>6, <2>1 DEF Becomes
<1>7. CASE provider = "paystack" /\ events' = events \o (<<charge>> \o <<e>>)
           /\ disordered' = disordered
  BY <1>1, <1>2, <1>3, <1>4, <1>5, <1>7 DEF Becomes, charge
<1>8. CASE provider = "paystack" /\ events' = events \o (<<e>> \o <<charge>>) /\ disordered'
  BY <1>1, <1>2, <1>3, <1>4, <1>5, <1>8 DEF Becomes, charge
<1>9. QED
  BY <1>1, <1>3, <1>6, <1>7, <1>8 DEF Sends

\* A new purchase keeps the invariant: its events come behind all others.
LEMMA SubscribeKeepsInv ==
    ASSUME BillingInv, NEW s \in Subscriptions, Subscribe(s)
    PROVE  BillingInv'
<1>1. BillingTypeOK /\ ProviderInv /\ ClaimsInv /\ InOrder /\ LastWordIsTrue
  BY DEF BillingInv, ClaimsInv
<1>2. /\ UNCHANGED <<provider, now, lifetime, row, faults, missed>> /\ paid' = TRUE
      /\ mixed' = (mixed \/ lifetime \/ \E other \in Subscriptions : Live(other))
      /\ disordered' \in {disordered, TRUE}
  BY DEF Subscribe
<1>3. /\ subs \in [Subscriptions -> Subscription] /\ now \in Nat
      /\ provider \in {"paystack", "paddle"} /\ lifetime \in BOOLEAN /\ paid \in BOOLEAN
      /\ events \in Seq(BillingEvent) /\ mixed \in BOOLEAN /\ disordered \in BOOLEAN
  BY <1>1 DEF BillingTypeOK
<1>4. PICK sub \in Subscription, e \in BillingEvent, es \in Seq(BillingEvent) :
         /\ sub.status = "active" /\ sub.until = now + 1
         /\ subs' = [subs EXCEPT ![s] = sub] /\ subs[s].status = "none"
         /\ Tale(provider, e, s, sub, now)
         /\ provider = "paystack" => e.kind = "subscription.create"
         /\ events' = events \o es
         /\ \/ provider = "paddle" /\ Len(es) = 1 /\ es[1] = e
            \/ /\ provider = "paystack" /\ Len(es) = 2
               /\ \/ /\ es[1] = Event("charge.success") /\ es[2] = e
                     /\ disordered' = disordered
                  \/ es[1] = e /\ es[2] = Event("charge.success") /\ disordered'
  BY <1>1, SubscribeShape
<1>5. subs'[s] = sub /\ \A other \in Subscriptions \ {s} : subs'[other] = subs[other]
  BY <1>3, <1>4
<1>6. /\ e \in BillingEvent /\ e.kind # "charge.success"
      /\ WriteBy(provider, e) # NoWrite /\ Says(WriteBy(provider, e), s, sub, now)
      /\ Claims(e, provider', subs', paid', lifetime')
  <2>1. sub.status # "none"
    BY <1>4
  <2>2. \A books, isLifetime : books[s] = sub => Claims(e, provider, books, TRUE, isLifetime)
    BY <1>3, <1>4, <2>1, TaleIsTrue
  <2>3. Claims(e, provider, subs', TRUE, lifetime')
    BY <1>5, <2>2
  <2>4. QED
    BY <1>2, <1>3, <1>4, <2>1, <2>3, TaleIsTrue
<1> DEFINE charge == Event("charge.success")
<1>7. charge \in BillingEvent /\ NamesCustomer(charge) /\ charge.kind = "charge.success"
  BY EventShape DEF NamesCustomer
<1>8. provider = "paystack" => Claims(charge, provider', subs', paid', lifetime')
  <2>1. charge.until = NoDate /\ charge.sub = NoSub /\ charge.plan /\ charge.exact
    BY EventShape
  <2> HIDE DEF charge
  <2>2. provider = "paystack" => Claims(charge, provider, subs', TRUE, lifetime')
    BY <1>3, <1>7, <2>1, ChargeClaims
  <2>3. QED
    BY <1>2, <2>2
<1>9. /\ Len(es) \in {1, 2}
      /\ Len(es) = 1 => es[1] = e /\ provider = "paddle"
      /\ Len(es) = 2 =>
           /\ provider = "paystack"
           /\ \/ es[1] = charge /\ es[2] = e
              \/ es[1] = e /\ es[2] = charge /\ disordered'
  BY <1>4
<1> HIDE DEF charge
<1>10. ClaimsInv'
  <2>1. \A i \in 1 .. Len(es) : Claims(es[i], provider', subs', paid', lifetime')
    BY <1>6, <1>8, <1>9
  <2>2. Grown(subs, subs')
    BY <1>4, <1>5 DEF Grown, Sold
  <2>3. QueueInv' /\ RowInv' /\ events' \in Seq(BillingEvent)
    BY <1>1, <1>2, <1>4, <2>1, <2>2, SendingKeepsClaims
  <2>4. BillingTypeOK'
    BY <1>1, <1>2, <1>3, <1>4, <2>3 DEF BillingTypeOK
  <2>5. ProviderInv'
    BY <1>1, <1>2, <1>4, <1>5 DEF ProviderInv
  <2>6. QED
    BY <2>3, <2>4, <2>5 DEF ClaimsInv
<1>11. InOrder'
  <2>1. CASE disordered'
    BY <2>1 DEF InOrder
  <2>2. CASE ~disordered'
    <3>1. disordered' = disordered
      BY <1>2, <2>2
    <3>2. /\ \A i \in 1 .. Len(es) :
                es[i].kind = "charge.success" /\ es[i].plan =>
                  i < Len(es) /\ es[i + 1].kind = "subscription.create"
          /\ provider = "paystack" =>
               /\ \A i \in 1 .. Len(es) :
                    es[i].kind # "charge.success" =>
                      paid \/ \E j \in 1 .. Len(es) : j < i /\ NamesCustomer(es[j])
               /\ paid' => paid \/ \E j \in 1 .. Len(es) : NamesCustomer(es[j])
      <4>1. CASE Len(es) = 1
        BY <1>6, <1>9, <4>1
      <4>2. CASE Len(es) = 2
        BY <1>4, <1>6, <1>7, <1>9, <2>2, <4>2
      <4>3. QED
        BY <1>9, <4>1, <4>2
    <3>3. QED
      BY <1>1, <1>2, <1>4, <3>1, <3>2, SendingKeepsOrder
  <2>3. QED
    BY <2>1, <2>2
<1>12. LastWordIsTrue'
  <2> SUFFICES ASSUME ~mixed', ~disordered'
               PROVE  /\ LastWord' # NoWrite
                      /\ ~lifetime' /\ OnlyLive(s, subs') /\ Says(LastWord', s, subs'[s], now')
    BY DEF LastWordIsTrue
  <2>1. ~lifetime' /\ OnlyLive(s, subs')
    BY <1>2, <1>5 DEF OnlyLive, Live
  <2>2. Len(events') = Len(events) + Len(es) /\ events'[Len(events')] = es[Len(es)]
    BY <1>3, <1>4, <1>9
  <2>3. es[Len(es)] = e
    BY <1>9
  <2>4. LastWord' = WriteBy(provider, e)
    <3>1. events' # << >>
      BY <1>3, <1>4, <1>9
    <3>2. QED
      BY <1>2, <2>2, <2>3, <3>1 DEF LastWord
  <2>5. QED
    BY <1>2, <1>5, <1>6, <2>1, <2>4
<1>13. QED
  BY <1>10, <1>11, <1>12 DEF BillingInv

\* Lifetime is one charge that the webhook understands, and the last word.
LEMMA LifetimeKeepsInv ==
    ASSUME BillingInv, BuyLifetime
    PROVE  BillingInv'
<1>1. BillingTypeOK /\ ProviderInv /\ ClaimsInv /\ InOrder /\ LastWordIsTrue
  BY DEF BillingInv, ClaimsInv
<1>2. /\ UNCHANGED <<provider, now, subs, row, faults, disordered, missed>>
      /\ paid' = TRUE /\ ~lifetime /\ lifetime' = TRUE
      /\ mixed' = (mixed \/ \E s \in Subscriptions : Live(s))
  BY DEF BuyLifetime
<1>3. /\ provider \in {"paystack", "paddle"} /\ events \in Seq(BillingEvent)
      /\ mixed \in BOOLEAN /\ paid \in BOOLEAN
  BY <1>1 DEF BillingTypeOK
<1> DEFINE kind == IF provider = "paystack" THEN "charge.success" ELSE "transaction.completed"
           e == [Event(kind) EXCEPT !.plan = FALSE]
<1>4. events' = events \o <<e>>
  BY DEF BuyLifetime, Sends
<1>5. Event(kind) \in BillingEvent
  BY EventShape
<1>6. /\ e \in BillingEvent /\ e.kind = kind /\ e.plan = FALSE /\ e.exact
      /\ e.until = NoDate /\ e.sub = NoSub
  BY <1>5, EventShape DEF BillingEvent
<1>7. /\ provider = "paystack" => e.kind = "charge.success"
      /\ provider = "paddle" => e.kind = "transaction.completed"
  BY <1>6
<1> HIDE DEF kind, e
<1>8. WriteBy(provider, e) = Columns("active", NoDate, FALSE, NoSub)
  <2>1. CASE provider = "paystack"
    BY <1>6, <1>7, <2>1 DEF WriteBy, subscriptionWriteFromEvent
  <2>2. CASE provider = "paddle"
    BY <1>6, <1>7, <2>2 DEF WriteBy, subscriptionUpsertFromEvent
  <2>3. QED
    BY <1>3, <2>1, <2>2
<1>9. WriteBy(provider, e) # NoWrite /\ SaysLifetime(WriteBy(provider, e))
  <2>1. "active" \in Status
    BY DEF Status
  <2>2. WriteBy(provider, e) # NoWrite
    BY <1>8, <2>1, WriteIsSome
  <2>3. QED
    BY <1>8, <2>2 DEF SaysLifetime, Columns
<1>10. /\ <<e>> \in Seq(BillingEvent) /\ Len(<<e>>) = 1 /\ <<e>>[1] = e
  BY <1>6
<1>11. ClaimsInv'
  <2>1. Claims(e, provider, subs, TRUE, TRUE)
    BY <1>3, <1>6, <1>7, ChargeClaims
  <2>2. PICK es \in Seq(BillingEvent) : es = <<e>>
    BY <1>10
  <2>3. \A i \in 1 .. Len(es) : Claims(es[i], provider', subs', paid', lifetime')
    <3>1. Claims(e, provider', subs', paid', lifetime')
      BY <1>2, <2>1
    <3>2. QED
      BY <1>10, <2>2, <3>1
  <2>4. Grown(subs, subs')
    BY <1>2 DEF Grown, Sold
  <2>5. QueueInv' /\ RowInv' /\ events' \in Seq(BillingEvent)
    BY <1>1, <1>2, <1>4, <2>2, <2>3, <2>4, SendingKeepsClaims
  <2>6. BillingTypeOK'
    BY <1>1, <1>2, <1>3, <2>5 DEF BillingTypeOK
  <2>7. ProviderInv'
    BY <1>1, <1>2 DEF ProviderInv
  <2>8. QED
    BY <2>5, <2>6, <2>7 DEF ClaimsInv
<1>12. InOrder'
  <2>1. PICK es \in Seq(BillingEvent) : es = <<e>>
    BY <1>10
  <2>2. /\ \A i \in 1 .. Len(es) : ~es[i].plan /\ es[i] = e
        /\ provider = "paystack" => 1 \in 1 .. Len(es) /\ NamesCustomer(es[1])
    BY <1>6, <1>7, <1>10, <2>1 DEF NamesCustomer
  <2>3. provider = "paystack" => \A i \in 1 .. Len(es) : es[i].kind = "charge.success"
    BY <1>7, <2>2
  <2>4. QED
    BY <1>1, <1>2, <1>4, <2>1, <2>2, <2>3, SendingKeepsOrder
<1>13. LastWordIsTrue'
  <2>1. Len(events') = Len(events) + 1 /\ events'[Len(events')] = e /\ events' # << >>
    BY <1>3, <1>4, <1>6
  <2>2. LastWord' = WriteBy(provider, e)
    BY <1>2, <2>1 DEF LastWord
  <2>3. ~mixed' => NoneLive'
    BY <1>2, <1>3 DEF NoneLive, Live
  <2>4. QED
    BY <1>2, <1>9, <2>2, <2>3 DEF LastWordIsTrue
<1>14. QED
  BY <1>11, <1>12, <1>13 DEF BillingInv

\* A charge at no price of this product says nothing.
LEMMA AnotherAmountKeepsInv ==
    ASSUME BillingInv, PayAnotherAmount
    PROVE  BillingInv'
<1>1. BillingTypeOK /\ ProviderInv /\ ClaimsInv /\ InOrder
  BY DEF BillingInv, ClaimsInv
<1>2. /\ UNCHANGED <<provider, now, subs, lifetime, row, faults, paid, mixed, disordered, missed>>
      /\ provider = "paystack" /\ ~paid
  BY DEF PayAnotherAmount, sold, billingPast
<1>3. events \in Seq(BillingEvent)
  BY <1>1 DEF BillingTypeOK
<1> DEFINE e == [Event("charge.success") EXCEPT !.plan = FALSE, !.exact = FALSE]
<1>4. events' = events \o <<e>>
  BY DEF PayAnotherAmount, Sends
<1>5. Event("charge.success") \in BillingEvent
  BY EventShape
<1>6. /\ e \in BillingEvent /\ e.kind = "charge.success" /\ e.plan = FALSE /\ e.exact = FALSE
      /\ e.until = NoDate /\ e.sub = NoSub
  BY <1>5, EventShape DEF BillingEvent
<1> HIDE DEF e
<1>7. PICK es \in Seq(BillingEvent) : es = <<e>>
  <2>1. <<e>> \in Seq(BillingEvent)
    BY <1>6
  <2>2. QED
    BY <2>1
<1>8. \A i \in 1 .. Len(es) : es[i] = e
  BY <1>7
<1>9. ClaimsInv'
  <2>1. Claims(e, provider, subs, paid, lifetime)
    BY <1>2, <1>6, ChargeClaims
  <2>2. Grown(subs, subs')
    BY <1>2 DEF Grown, Sold
  <2>3. QueueInv' /\ RowInv' /\ events' \in Seq(BillingEvent)
    BY <1>1, <1>2, <1>4, <1>7, <1>8, <2>1, <2>2, SendingKeepsClaims
  <2>4. BillingTypeOK' /\ ProviderInv'
    BY <1>1, <1>2, <2>3 DEF BillingTypeOK, ProviderInv
  <2>5. QED
    BY <2>3, <2>4 DEF ClaimsInv
<1>10. InOrder'
  BY <1>1, <1>2, <1>4, <1>6, <1>7, <1>8, SendingKeepsOrder
<1>11. LastWordIsTrue'
  BY <1>2 DEF LastWordIsTrue
<1>12. QED
  BY <1>9, <1>10, <1>11 DEF BillingInv

\* Time only makes what was over more so.
LEMMA TickKeepsInv ==
    ASSUME BillingInv, Tick
    PROVE  BillingInv'
<1>1. BillingTypeOK /\ ProviderInv /\ QueueInv /\ RowInv /\ InOrder /\ LastWordIsTrue
  BY DEF BillingInv, ClaimsInv
<1>2. /\ UNCHANGED <<provider, subs, lifetime, events, row, faults, paid, mixed, disordered, missed>>
      /\ now' = now + 1
  BY DEF Tick, sold, billingPast
<1>3. /\ now \in Nat /\ now' \in Nat /\ subs \in [Subscriptions -> Subscription]
  BY <1>1, <1>2 DEF BillingTypeOK
<1>4. BillingTypeOK'
  BY <1>1, <1>2, <1>3 DEF BillingTypeOK
<1>5. \A s \in Subscriptions : subs[s].until \in Nat
  BY <1>3 DEF Subscription
<1>6. ProviderInv'
  BY <1>1, <1>2, <1>3, <1>5 DEF ProviderInv
<1>7. QueueInv' /\ RowInv'
  BY <1>1, <1>2 DEF QueueInv, RowInv
<1>8. InOrder'
  BY <1>1, <1>2 DEF InOrder, DatesFollow, CustomerIsKnown, DatesAreDue
<1>9. LastWordIsTrue'
  <2>1. LastWord' = LastWord /\ (NoneLive => NoneLive')
    BY <1>2 DEF LastWord, NoneLive, Live
  <2>2. \A w : \A s \in Subscriptions : Says(w, s, subs[s], now) => Says(w, s, subs[s], now')
    BY <1>2, <1>3, <1>5 DEF Says
  <2>3. QED
    BY <1>1, <1>2, <2>1, <2>2 DEF LastWordIsTrue
<1>10. QED
  BY <1>4, <1>6, <1>7, <1>8, <1>9 DEF BillingInv, ClaimsInv

-----------------------------------------------------------------------------
\* The webhooks.

\* An event that leaves the queue takes its claim along and adds none.
LEMMA RemovingKeepsClaims ==
    ASSUME ClaimsInv, NEW i \in 1 .. Len(events), events' = RemoveAt(events, i),
           UNCHANGED <<provider, subs, paid, lifetime>>
    PROVE  QueueInv' /\ events' \in Seq(BillingEvent)
<1>1. BillingTypeOK /\ QueueInv
  BY DEF ClaimsInv
<1>2. /\ events' \in Seq(BillingEvent) /\ Len(events') = Len(events) - 1
      /\ \A j \in 1 .. Len(events') :
           events'[j] = IF j < i THEN events[j] ELSE events[j + 1]
  BY <1>1, RemoveShape
<1>3. Len(events) \in Nat
  BY <1>1 DEF BillingTypeOK
<1>4. \A j \in 1 .. Len(events') :
         /\ j \in 1 .. Len(events) /\ j + 1 \in 1 .. Len(events)
         /\ events'[j] = events[j] \/ events'[j] = events[j + 1]
  BY <1>2, <1>3
<1>5. QED
  BY <1>1, <1>2, <1>4 DEF QueueInv

\* The oldest event taken off: what follows it, in its order.
LEMMA OldestTaken ==
    ASSUME BillingTypeOK, events # << >>, events' = RemoveAt(events, 1)
    PROVE  /\ Len(events) \in Nat \ {0} /\ Len(events') = Len(events) - 1
           /\ \A j \in 1 .. Len(events') : events'[j] = events[j + 1] /\ j + 1 \in 2 .. Len(events)
           /\ \A j \in 2 .. Len(events) : j - 1 \in 1 .. Len(events') /\ events'[j - 1] = events[j]
           /\ Len(events) > 1 => events' # << >> /\ events'[Len(events')] = events[Len(events)]
           /\ Len(events) = 1 => events' = << >>
<1>1. events \in Seq(BillingEvent) /\ Len(events) \in Nat \ {0} /\ 1 \in 1 .. Len(events)
  BY DEF BillingTypeOK
<1>2. /\ events' \in Seq(BillingEvent) /\ Len(events') = Len(events) - 1
      /\ \A j \in 1 .. Len(events') :
           events'[j] = IF j < 1 THEN events[j] ELSE events[j + 1]
  BY <1>1, RemoveShape
<1>3. \A j \in 1 .. Len(events') : events'[j] = events[j + 1] /\ j + 1 \in 2 .. Len(events)
  BY <1>1, <1>2
<1>4. \A j \in 2 .. Len(events) : j - 1 \in 1 .. Len(events') /\ events'[j - 1] = events[j]
  BY <1>1, <1>2, <1>3
<1>5. Len(events) > 1 => events' # << >> /\ events'[Len(events')] = events[Len(events)]
  BY <1>1, <1>2, <1>3
<1>6. Len(events) = 1 => events' = << >>
  BY <1>1, <1>2
<1>7. QED
  BY <1>1, <1>2, <1>3, <1>4, <1>5, <1>6

\* The dates a charge waits for are behind it whether or not something is taken off
\* in front.
LEMMA RemovingKeepsDates ==
    ASSUME BillingTypeOK, DatesFollow, events # << >>, events' = RemoveAt(events, 1)
    PROVE  DatesFollow'
<1>1. /\ Len(events) \in Nat \ {0} /\ Len(events') = Len(events) - 1
      /\ \A j \in 1 .. Len(events') : events'[j] = events[j + 1] /\ j + 1 \in 2 .. Len(events)
  BY OldestTaken
<1>2. ASSUME NEW j \in 1 .. Len(events'), events'[j].kind = "charge.success", events'[j].plan
      PROVE  j < Len(events') /\ events'[j + 1].kind = "subscription.create"
  <2>1. j + 1 \in 1 .. Len(events) /\ events[j + 1].kind = "charge.success" /\ events[j + 1].plan
    BY <1>1, <1>2
  <2>2. j + 1 < Len(events) /\ events[(j + 1) + 1].kind = "subscription.create"
    BY <2>1 DEF DatesFollow
  <2>3. j + 1 \in 1 .. Len(events')
    BY <1>1, <2>2
  <2>4. events'[j + 1] = events[(j + 1) + 1]
    BY <1>1, <2>3
  <2>5. QED
    BY <1>1, <2>2, <2>4
<1>3. QED
  BY <1>2 DEF DatesFollow

\* An event that writes the row leaves in it what it claims, and it is acknowledged
\* or comes again.
LEMMA ApplyKeepsClaims ==
    ASSUME ClaimsInv, NEW i \in 1 .. Len(events), Apply(i)
    PROVE  ClaimsInv'
<1>1. BillingTypeOK /\ ProviderInv /\ QueueInv /\ RowInv
  BY DEF ClaimsInv
<1>2. /\ UNCHANGED <<provider, now, subs, lifetime, paid, mixed, missed>>
      /\ WriteOf(events[i]) # NoWrite /\ row' = RowAfter(events[i])
      /\ \/ events' = RemoveAt(events, i) /\ faults' = faults
         \/ events' = events /\ faults' = faults + 1
      /\ disordered' = (disordered \/ i # 1)
  BY DEF Apply, Acknowledge, Fault, sold
<1>3. events[i] \in BillingEvent /\ faults \in Nat /\ events \in Seq(BillingEvent)
  BY <1>1 DEF BillingTypeOK
<1> DEFINE w == WriteOf(events[i])
<1>4. /\ w = WriteBy(provider, events[i]) /\ row' \in BillingRow
      /\ row'.status = w.status /\ row'.period = w.period /\ row'.sub = w.sub
  BY <1>1, <1>2, <1>3, RowAfterShape
<1>5. Claims(events[i], provider, subs, paid, lifetime)
  BY <1>1 DEF QueueInv
<1>6. \/ w.period = events[i].until /\ w.sub = events[i].sub
      \/ SaysLifetime(w)
  BY <1>1, <1>2, <1>3, <1>4, WriteShape DEF BillingTypeOK
<1>7. RowInv'
  <2>1. paid
    BY <1>2, <1>4, <1>5 DEF Claims
  <2> HIDE DEF w
  <2>2. CASE w.period = events[i].until /\ w.sub = events[i].sub
    BY <1>2, <1>4, <1>5, <2>1, <2>2 DEF RowInv, Claims
  <2>3. CASE SaysLifetime(w)
    BY <1>2, <1>4, <2>1, <2>3 DEF RowInv, SaysLifetime
  <2>4. QED
    BY <1>6, <2>2, <2>3
<1>8. QueueInv' /\ events' \in Seq(BillingEvent)
  <2>1. CASE events' = RemoveAt(events, i)
    BY <1>2, <2>1, RemovingKeepsClaims
  <2>2. CASE events' = events
    BY <1>1, <1>2, <1>3, <2>2 DEF QueueInv
  <2>3. QED
    BY <1>2, <2>1, <2>2
<1>9. BillingTypeOK'
  <2>1. faults' \in Nat /\ disordered' \in BOOLEAN
    BY <1>2, <1>3
  <2>2. QED
    BY <1>1, <1>2, <1>4, <1>8, <2>1 DEF BillingTypeOK
<1>10. ProviderInv'
  BY <1>1, <1>2 DEF ProviderInv
<1>11. QED
  BY <1>7, <1>8, <1>9, <1>10 DEF ClaimsInv

\* The oldest event heard: a charge that makes the row active has its dates behind it,
\* and names the customer the later events will be looked up by.
LEMMA ApplyKeepsOrder ==
    ASSUME ClaimsInv, InOrder, NEW i \in 1 .. Len(events), Apply(i)
    PROVE  InOrder'
<1> SUFFICES ASSUME ~disordered'
             PROVE  /\ DatesFollow' /\ CustomerIsKnown'
                    /\ ~missed' /\ ~lifetime' /\ row'.status = "active" /\ row'.period = NoDate
                         => DatesAreDue'
  BY DEF InOrder
<1>1. BillingTypeOK /\ QueueInv
  BY DEF ClaimsInv
<1>2. /\ UNCHANGED <<provider, now, subs, lifetime, paid, mixed, missed>>
      /\ WriteOf(events[1]) # NoWrite /\ row' = RowAfter(events[1])
      /\ events' = RemoveAt(events, 1) \/ events' = events
      /\ ~disordered /\ i = 1
  BY DEF Apply, Acknowledge, sold
<1>3. events \in Seq(BillingEvent) /\ Len(events) \in Nat /\ 1 \in 1 .. Len(events)
      /\ events # << >> /\ events[1] \in BillingEvent
  BY <1>1, <1>2 DEF BillingTypeOK
<1>4. DatesFollow /\ CustomerIsKnown
  BY <1>2 DEF InOrder
<1> DEFINE w == WriteOf(events[1])
<1>5. /\ w = WriteBy(provider, events[1]) /\ row'.status = w.status /\ row'.period = w.period
      /\ row'.customer = (row.customer \/ ~ByCustomer(events[1]))
  BY <1>1, <1>2, <1>3, RowAfterShape
<1> HIDE DEF w
<1>6. NamesCustomer(events[1]) \/ row.customer => row'.customer
  BY <1>5 DEF NamesCustomer, ByCustomer
<1>7. events' = RemoveAt(events, 1) =>
         /\ Len(events') = Len(events) - 1
         /\ \A j \in 1 .. Len(events') : events'[j] = events[j + 1] /\ j + 1 \in 2 .. Len(events)
         /\ \A j \in 2 .. Len(events) : j - 1 \in 1 .. Len(events') /\ events'[j - 1] = events[j]
  BY <1>1, <1>3, OldestTaken
<1>8. DatesFollow'
  <2>1. CASE events' = events
    BY <1>4, <2>1 DEF DatesFollow
  <2>2. CASE events' = RemoveAt(events, 1)
    BY <1>1, <1>3, <1>4, <2>2, RemovingKeepsDates
  <2>3. QED
    BY <1>2, <2>1, <2>2
<1>9. CustomerIsKnown'
  <2> SUFFICES ASSUME provider = "paystack", ~row'.customer
               PROVE  /\ \A k \in 1 .. Len(events') :
                           events'[k].kind # "charge.success" =>
                             \E j \in 1 .. Len(events') : j < k /\ NamesCustomer(events'[j])
                      /\ paid => \E j \in 1 .. Len(events') : NamesCustomer(events'[j])
    BY <1>2 DEF CustomerIsKnown
  <2>1. ~row.customer /\ ~NamesCustomer(events[1])
    BY <1>6
  <2>2. CASE events' = events
    BY <1>4, <2>1, <2>2 DEF CustomerIsKnown
  <2>3. CASE events' = RemoveAt(events, 1)
    <3>1. ASSUME NEW j \in 1 .. Len(events), NamesCustomer(events[j])
          PROVE  j \in 2 .. Len(events)
      BY <1>3, <2>1, <3>1
    <3>2. paid => \E j \in 1 .. Len(events') : NamesCustomer(events'[j])
      BY <1>4, <1>7, <2>1, <2>3, <3>1 DEF CustomerIsKnown
    <3>3. ASSUME NEW k \in 1 .. Len(events'), events'[k].kind # "charge.success"
          PROVE  \E j \in 1 .. Len(events') : j < k /\ NamesCustomer(events'[j])
      <4>1. k + 1 \in 1 .. Len(events) /\ events[k + 1].kind # "charge.success"
        BY <1>3, <1>7, <2>3, <3>3
      <4>2. PICK j \in 1 .. Len(events) : j < k + 1 /\ NamesCustomer(events[j])
        BY <1>4, <2>1, <4>1 DEF CustomerIsKnown
      <4>3. j - 1 \in 1 .. Len(events') /\ j - 1 < k /\ NamesCustomer(events'[j - 1])
        BY <1>7, <2>3, <3>1, <4>2
      <4>4. QED
        BY <4>3
    <3>4. QED
      BY <3>2, <3>3
  <2>4. QED
    BY <1>2, <2>2, <2>3
<1>10. ASSUME ~lifetime, row'.status = "active", row'.period = NoDate
       PROVE  DatesAreDue'
  <2>1. Claims(events[1], provider, subs, paid, lifetime)
    BY <1>1, <1>3 DEF QueueInv
  <2>2. events[1].kind = "charge.success" /\ events[1].plan
    BY <1>2, <1>5, <1>10, <2>1 DEF Claims, w
  <2>3. 2 \in 2 .. Len(events) /\ 2 \in 1 .. Len(events) /\ events[2].kind = "subscription.create"
    BY <1>3, <1>4, <2>2 DEF DatesFollow
  <2>4. CASE events' = events
    BY <2>3, <2>4 DEF DatesAreDue
  <2>5. CASE events' = RemoveAt(events, 1)
    BY <1>7, <2>3, <2>5 DEF DatesAreDue
  <2>6. QED
    BY <1>2, <2>4, <2>5
<1>11. QED
  BY <1>2, <1>8, <1>9, <1>10

\* The row then says what the last event heard said.
LEMMA ApplyKeepsLastWord ==
    ASSUME ClaimsInv, LastWordIsTrue, NEW i \in 1 .. Len(events), Apply(i)
    PROVE  LastWordIsTrue'
<1> SUFFICES ASSUME paid', ~mixed', ~disordered', ~missed'
             PROVE  /\ LastWord' # NoWrite
                    /\ \/ lifetime' /\ NoneLive' /\ SaysLifetime(LastWord')
                       \/ ~lifetime' /\ \E t \in Subscriptions :
                             OnlyLive(t, subs') /\ Says(LastWord', t, subs'[t], now')
  BY DEF LastWordIsTrue
<1>1. BillingTypeOK
  BY DEF ClaimsInv
<1>2. /\ UNCHANGED <<provider, now, subs, lifetime, paid, mixed, missed>>
      /\ WriteOf(events[1]) # NoWrite /\ row' = RowAfter(events[1])
      /\ events' = RemoveAt(events, 1) \/ events' = events
      /\ ~disordered /\ i = 1
  BY DEF Apply, Acknowledge, sold
<1>3. events # << >> /\ events[1] \in BillingEvent /\ Len(events) \in Nat \ {0}
  BY <1>1, <1>2 DEF BillingTypeOK
<1>4. /\ LastWord # NoWrite
      /\ \/ lifetime /\ NoneLive /\ SaysLifetime(LastWord)
         \/ ~lifetime /\ \E t \in Subscriptions :
                            OnlyLive(t, subs) /\ Says(LastWord, t, subs[t], now)
  BY <1>2 DEF LastWordIsTrue
<1>5. /\ LastWord' # NoWrite /\ LastWord'.status = LastWord.status
      /\ LastWord'.period = LastWord.period /\ LastWord'.sub = LastWord.sub
      /\ LastWord'.cancel = LastWord.cancel
  <2>1. CASE events' = events
    BY <1>2, <1>3, <1>4, <2>1 DEF LastWord
  <2>2. CASE events' = RemoveAt(events, 1) /\ Len(events) > 1
    <3>1. events' # << >> /\ events'[Len(events')] = events[Len(events)]
      BY <1>1, <1>3, <2>2, OldestTaken
    <3>2. LastWord' = LastWord
      BY <1>2, <1>3, <3>1 DEF LastWord
    <3>3. QED
      BY <1>4, <3>2
  <2>3. CASE events' = RemoveAt(events, 1) /\ Len(events) = 1
    <3>1. events' = << >>
      BY <1>1, <1>3, <2>3, OldestTaken
    <3>2. LastWord' = row' /\ LastWord = WriteBy(provider, events[1])
      BY <1>3, <2>3, <3>1 DEF LastWord
    <3>3. /\ WriteOf(events[1]) = WriteBy(provider, events[1]) /\ row' \in BillingRow
          /\ row'.status = WriteOf(events[1]).status /\ row'.period = WriteOf(events[1]).period
          /\ row'.cancel = WriteOf(events[1]).cancel /\ row'.sub = WriteOf(events[1]).sub
      BY <1>1, <1>2, <1>3, RowAfterShape
    <3>4. row' # NoWrite
      <4>1. row'.status \in Status
        BY <3>3 DEF BillingRow
      <4>2. QED
        BY <4>1 DEF Status, NoWrite
    <3>5. QED
      BY <3>2, <3>3, <3>4
  <2>4. QED
    BY <1>2, <1>3, <2>1, <2>2, <2>3
<1>6. SaysLifetime(LastWord) => SaysLifetime(LastWord')
  BY <1>5 DEF SaysLifetime
<1>7. \A t \in Subscriptions : Says(LastWord, t, subs[t], now) => Says(LastWord', t, subs[t], now)
  BY <1>5 DEF Says
<1>8. NoneLive => NoneLive'
  BY <1>2 DEF NoneLive, Live
<1>9. QED
  BY <1>2, <1>4, <1>5, <1>6, <1>7, <1>8

\* Heard in order, what is passed over says nothing, unless it went unheard: its
\* customer was known.
LEMMA IgnoreKeepsInv ==
    ASSUME BillingInv, NEW i \in 1 .. Len(events), Ignore(i)
    PROVE  BillingInv'
<1>1. BillingTypeOK /\ ProviderInv /\ QueueInv /\ RowInv /\ ClaimsInv /\ InOrder /\ LastWordIsTrue
  BY DEF BillingInv, ClaimsInv
<1>2. /\ UNCHANGED <<provider, now, subs, lifetime, row, paid, mixed>>
      /\ events' = RemoveAt(events, i)
      /\ \/ WriteOf(events[i]) = NoWrite /\ UNCHANGED <<faults, missed>>
         \/ /\ WriteOf(events[i]) # NoWrite /\ ByCustomer(events[i])
            /\ \/ ~row.customer /\ UNCHANGED <<faults, missed>>
               \/ row.customer /\ faults' = faults + 1 /\ missed' = TRUE
      /\ disordered' = (disordered \/ i # 1)
  BY DEF Ignore, Fault, sold
<1>3. events \in Seq(BillingEvent) /\ Len(events) \in Nat \ {0} /\ events # << >>
  BY <1>1 DEF BillingTypeOK
<1>4. ClaimsInv'
  <2>1. QueueInv' /\ events' \in Seq(BillingEvent)
    BY <1>1, <1>2, RemovingKeepsClaims
  <2>2. RowInv' /\ ProviderInv'
    BY <1>1, <1>2 DEF RowInv, ProviderInv
  <2>3. faults' \in Nat /\ missed' \in BOOLEAN /\ disordered' \in BOOLEAN
    <3>1. faults \in Nat /\ missed \in BOOLEAN /\ disordered \in BOOLEAN
      BY <1>1 DEF BillingTypeOK
    <3>2. (faults' = faults \/ faults' = faults + 1) /\ (missed' = missed \/ missed' = TRUE)
      BY <1>2
    <3>3. disordered' \in BOOLEAN
      BY <1>2
    <3>4. faults' \in Nat
      BY <3>1, <3>2
    <3>5. missed' \in BOOLEAN
      BY <3>1, <3>2
    <3>6. QED
      BY <3>3, <3>4, <3>5
  <2>4. BillingTypeOK'
    BY <1>1, <1>2, <2>1, <2>3 DEF BillingTypeOK
  <2>5. QED
    BY <2>1, <2>2, <2>4 DEF ClaimsInv
<1>5. ASSUME ~disordered'
      PROVE  /\ i = 1 /\ ~disordered /\ DatesFollow /\ CustomerIsKnown
             /\ events[1].kind = "charge.success" =>
                  WriteBy(provider, events[1]) = NoWrite /\ missed' = missed
             /\ ~missed' => ~missed /\ WriteBy(provider, events[1]) = NoWrite
             /\ ~NamesCustomer(events[1]) \/ provider = "paddle"
  <2>1. i = 1 /\ ~disordered /\ DatesFollow /\ CustomerIsKnown
    BY <1>1, <1>2, <1>5 DEF InOrder
  <2>2. WriteOf(events[1]) = WriteBy(provider, events[1])
    BY WhoWrites
  <2>3. ByCustomer(events[1]) => row.customer /\ events[1].kind # "charge.success"
    <3>1. \A j \in 1 .. Len(events) : ~(j < 1)
      BY <1>3
    <3>2. QED
      BY <1>3, <2>1, <3>1 DEF ByCustomer, CustomerIsKnown
  <2>4. /\ events[1].kind = "charge.success" =>
             WriteBy(provider, events[1]) = NoWrite /\ missed' = missed
        /\ ~missed' => ~missed /\ WriteBy(provider, events[1]) = NoWrite
    BY <1>2, <2>1, <2>2, <2>3
  <2>5. provider = "paystack" /\ NamesCustomer(events[1]) => WriteBy(provider, events[1]) # NoWrite
    <3>1. ASSUME provider = "paystack", NamesCustomer(events[1])
          PROVE  \E period, sub : WriteBy(provider, events[1]) = Columns("active", period, FALSE, sub)
      BY <3>1 DEF NamesCustomer, WriteBy, subscriptionWriteFromEvent
    <3>2. "active" \in Status
      BY DEF Status
    <3>3. QED
      BY <3>1, <3>2, WriteIsSome
  <2>6. QED
    BY <1>1, <2>1, <2>4, <2>5 DEF NamesCustomer, BillingTypeOK
<1>6. ASSUME ~disordered'
      PROVE  /\ Len(events') = Len(events) - 1
             /\ \A j \in 1 .. Len(events') :
                  events'[j] = events[j + 1] /\ j + 1 \in 2 .. Len(events)
             /\ \A j \in 2 .. Len(events) :
                  j - 1 \in 1 .. Len(events') /\ events'[j - 1] = events[j]
             /\ Len(events) > 1 => events' # << >> /\ events'[Len(events')] = events[Len(events)]
  BY <1>1, <1>2, <1>3, <1>5, <1>6, OldestTaken
<1>7. InOrder'
  <2> SUFFICES ASSUME ~disordered'
               PROVE  /\ DatesFollow' /\ CustomerIsKnown'
                      /\ ~missed' /\ ~lifetime' /\ row'.status = "active" /\ row'.period = NoDate
                           => DatesAreDue'
    BY DEF InOrder
  <2>1. DatesFollow'
    BY <1>1, <1>2, <1>3, <1>5, RemovingKeepsDates
  <2>2. CustomerIsKnown'
    <3> SUFFICES ASSUME provider = "paystack", ~row.customer
                 PROVE  /\ \A k \in 1 .. Len(events') :
                             events'[k].kind # "charge.success" =>
                               \E j \in 1 .. Len(events') : j < k /\ NamesCustomer(events'[j])
                        /\ paid => \E j \in 1 .. Len(events') : NamesCustomer(events'[j])
      BY <1>2 DEF CustomerIsKnown
    <3>1. ASSUME NEW j \in 1 .. Len(events), NamesCustomer(events[j])
          PROVE  j \in 2 .. Len(events)
      BY <1>3, <1>5, <3>1
    <3>2. paid => \E j \in 1 .. Len(events') : NamesCustomer(events'[j])
      BY <1>5, <1>6, <3>1 DEF CustomerIsKnown
    <3>3. ASSUME NEW k \in 1 .. Len(events'), events'[k].kind # "charge.success"
          PROVE  \E j \in 1 .. Len(events') : j < k /\ NamesCustomer(events'[j])
      <4>1. k + 1 \in 1 .. Len(events) /\ events[k + 1].kind # "charge.success"
        BY <1>3, <1>6, <3>3
      <4>2. PICK j \in 1 .. Len(events) : j < k + 1 /\ NamesCustomer(events[j])
        BY <1>5, <4>1 DEF CustomerIsKnown
      <4>3. j - 1 \in 1 .. Len(events') /\ j - 1 < k /\ NamesCustomer(events'[j - 1])
        BY <1>6, <3>1, <4>2
      <4>4. QED
        BY <4>3
    <3>4. QED
      BY <3>2, <3>3
  <2>3. ASSUME ~missed', ~lifetime, row.status = "active", row.period = NoDate
        PROVE  DatesAreDue'
    <3>1. PICK j \in 1 .. Len(events) : events[j].kind = "subscription.create"
      BY <1>1, <1>5, <2>3 DEF InOrder, DatesAreDue
    <3>2. j # 1
      <4>1. Claims(events[1], provider, subs, paid, lifetime)
        BY <1>1, <1>3 DEF QueueInv
      <4>2. ASSUME events[1].kind = "subscription.create"
            PROVE  WriteBy(provider, events[1]) # NoWrite
        <5>1. provider = "paystack"
          BY <1>1, <4>1, <4>2 DEF Claims, BillingTypeOK
        <5>2. WriteBy(provider, events[1]) =
                Columns("active", events[1].until, FALSE, events[1].sub)
          BY <4>2, <5>1 DEF WriteBy, subscriptionWriteFromEvent
        <5>3. "active" \in Status
          BY DEF Status
        <5>4. QED
          BY <5>2, <5>3, WriteIsSome
      <4>3. QED
        BY <1>5, <2>3, <3>1, <4>2
    <3>3. j \in 2 .. Len(events)
      BY <1>3, <3>1, <3>2
    <3>4. QED
      BY <1>6, <3>1, <3>3 DEF DatesAreDue
  <2>4. QED
    BY <1>2, <2>1, <2>2, <2>3
<1>8. LastWordIsTrue'
  <2> SUFFICES ASSUME paid', ~mixed', ~disordered', ~missed'
               PROVE  /\ LastWord' # NoWrite
                      /\ \/ lifetime' /\ NoneLive' /\ SaysLifetime(LastWord')
                         \/ ~lifetime' /\ \E t \in Subscriptions :
                               OnlyLive(t, subs') /\ Says(LastWord', t, subs'[t], now')
    BY DEF LastWordIsTrue
  <2>1. WriteBy(provider, events[1]) = NoWrite /\ ~missed /\ ~disordered
    BY <1>5
  <2>2. /\ LastWord # NoWrite
        /\ \/ lifetime /\ NoneLive /\ SaysLifetime(LastWord)
           \/ ~lifetime /\ \E t \in Subscriptions :
                              OnlyLive(t, subs) /\ Says(LastWord, t, subs[t], now)
    BY <1>1, <1>2, <2>1 DEF LastWordIsTrue
  <2>3. Len(events) > 1
    BY <1>3, <2>1, <2>2 DEF LastWord
  <2>4. LastWord' = LastWord
    BY <1>2, <1>3, <1>6, <2>3 DEF LastWord
  <2>5. NoneLive => NoneLive'
    BY <1>2 DEF NoneLive, Live
  <2>6. QED
    BY <1>2, <2>2, <2>4, <2>5
<1>9. QED
  BY <1>4, <1>7, <1>8 DEF BillingInv

\* A failed write leaves everything as it was, for the provider to try again.
LEMMA WriteFailsKeepsInv ==
    ASSUME BillingInv, NEW i \in 1 .. Len(events), WriteFails(i)
    PROVE  BillingInv'
<1>1. /\ UNCHANGED <<provider, now, subs, lifetime, events, row, paid, mixed, disordered, missed>>
      /\ faults' = faults + 1
  BY DEF WriteFails, Fault, sold, billingPast
<1>2. ClaimsInv /\ InOrder /\ LastWordIsTrue /\ BillingTypeOK
  BY DEF BillingInv, ClaimsInv
<1>3. BillingTypeOK'
  BY <1>1, <1>2 DEF BillingTypeOK
<1>4. ClaimsInv'
  BY <1>1, <1>2, <1>3 DEF ClaimsInv, ProviderInv, QueueInv, RowInv
<1>5. InOrder'
  BY <1>1, <1>2 DEF InOrder, DatesFollow, CustomerIsKnown, DatesAreDue
<1>6. LastWord' = LastWord /\ (NoneLive => NoneLive')
  BY <1>1 DEF LastWord, NoneLive, Live
<1>7. LastWordIsTrue'
  BY <1>1, <1>2, <1>6 DEF LastWordIsTrue
<1>8. QED
  BY <1>4, <1>5, <1>7 DEF BillingInv

-----------------------------------------------------------------------------
\* The theorems.

\* Before anything is sold nothing is claimed.
LEMMA InitGivesInv == BillingInit => BillingInv
<1> SUFFICES ASSUME BillingInit PROVE BillingInv
  OBVIOUS
<1>1. BillingTypeOK
  <2>1. NewRow \in BillingRow
    BY DEF NewRow, BillingRow, Status, Date
  <2>2. subs \in [Subscriptions -> Subscription]
    BY DEF BillingInit, Subscription
  <2>3. provider \in {"paystack", "paddle"} /\ now \in Nat /\ faults \in Nat
    BY DEF BillingInit
  <2>4. events \in Seq(BillingEvent) /\ row \in BillingRow
    BY <2>1 DEF BillingInit
  <2>5. /\ lifetime \in BOOLEAN /\ paid \in BOOLEAN /\ mixed \in BOOLEAN
        /\ disordered \in BOOLEAN /\ missed \in BOOLEAN
    BY DEF BillingInit
  <2>6. QED
    BY <2>2, <2>3, <2>4, <2>5 DEF BillingTypeOK
<1>2. ProviderInv /\ QueueInv
  BY DEF BillingInit, ProviderInv, QueueInv
<1>3. RowInv
  BY DEF BillingInit, RowInv, NewRow
<1>4. InOrder
  BY DEF BillingInit, InOrder, DatesFollow, CustomerIsKnown, NewRow
<1>5. LastWordIsTrue
  BY DEF BillingInit, LastWordIsTrue
<1>6. QED
  BY <1>1, <1>2, <1>3, <1>4, <1>5 DEF BillingInv, ClaimsInv

\* Whatever turns the books, the events tell of it in order.
LEMMA TurnsKeepsInv ==
    ASSUME BillingInv, NEW s \in Subscriptions, NEW sub \in Subscription,
           NEW es \in Seq(BillingEvent), Turns(s, sub, es)
    PROVE  BillingInv'
BY TurnKeepsClaims, TurnKeepsOrder, TurnKeepsLastWord DEF BillingInv

\* Every step keeps the invariant.
LEMMA StepKeepsInv == BillingInv /\ [BillingNext]_billingVars => BillingInv'
<1> SUFFICES ASSUME BillingInv, [BillingNext]_billingVars PROVE BillingInv'
  OBVIOUS
<1>0. BillingTypeOK /\ ProviderInv
  BY DEF BillingInv, ClaimsInv
<1>1. ASSUME NEW s \in Subscriptions, Subscribe(s) PROVE BillingInv'
  BY <1>1, SubscribeKeepsInv
<1>2. ASSUME NEW s \in Subscriptions, PeriodEnds(s) PROVE BillingInv'
  BY <1>0, <1>2, PeriodEndsTurns, TurnsKeepsInv
<1>3. ASSUME NEW s \in Subscriptions, Portal(s) PROVE BillingInv'
  BY <1>0, <1>3, PortalTurns, TurnsKeepsInv
<1>4. CASE ChangeSubscription
  BY <1>0, <1>4, LearnerTurns, TurnsKeepsInv
<1>5. CASE BuyLifetime
  BY <1>5, LifetimeKeepsInv
<1>6. CASE PayAnotherAmount
  BY <1>6, AnotherAmountKeepsInv
<1>7. CASE Tick
  BY <1>7, TickKeepsInv
<1>8. ASSUME NEW i \in 1 .. Len(events), Handle(i) PROVE BillingInv'
  <2>1. CASE Apply(i)
    BY <2>1, ApplyKeepsClaims, ApplyKeepsOrder, ApplyKeepsLastWord DEF BillingInv
  <2>2. CASE Ignore(i)
    BY <2>2, IgnoreKeepsInv
  <2>3. CASE WriteFails(i)
    BY <2>3, WriteFailsKeepsInv
  <2>4. QED
    BY <1>8, <2>1, <2>2, <2>3 DEF Handle
<1>9. CASE UNCHANGED billingVars
  <2>1. UNCHANGED <<provider, now, subs, lifetime, events, row, faults, paid, mixed, disordered,
                    missed>>
    BY <1>9 DEF billingVars, sold, billingPast
  <2>2. ClaimsInv'
    BY <2>1 DEF BillingInv, ClaimsInv, BillingTypeOK, ProviderInv, QueueInv, RowInv
  <2>3. InOrder'
    BY <2>1 DEF BillingInv, InOrder, DatesFollow, CustomerIsKnown, DatesAreDue
  <2>4. LastWordIsTrue'
    BY <2>1 DEF BillingInv, LastWordIsTrue, LastWord, NoneLive, Live
  <2>5. QED
    BY <2>2, <2>3, <2>4 DEF BillingInv
<1>10. QED
  BY <1>1, <1>2, <1>3, <1>4, <1>5, <1>6, <1>7, <1>8, <1>9 DEF BillingNext

\* The books, the queue of events and the row keep their types and agree: nothing in
\* them claims more than the provider sold, and heard in order the last word is true.
THEOREM BillingInvariant == BillingSpec => []BillingInv
<1>1. QED
  BY InitGivesInv, StepKeepsInv, PTL DEF BillingSpec

\* The row, the queue and the books always have their types.
THEOREM BillingTypeCorrect == BillingSpec => []BillingTypeOK
<1>1. BillingInv => BillingTypeOK
  BY DEF BillingInv, ClaimsInv
<1>2. QED
  BY <1>1, BillingInvariant, PTL

\* The invariant bounds the row by what was sold.
LEMMA ProIsPaid == BillingInv => ProIsPaidFor
<1> SUFFICES ASSUME BillingInv, Entitled, row.status # "trialing", ~lifetime
             PROVE  \/ \E s \in Subscriptions : Live(s) /\ now < subs[s].until
                    \/ paid /\ row.period = NoDate /\ (disordered \/ missed \/ events # << >>)
  BY DEF ProIsPaidFor
<1>1. BillingTypeOK /\ ProviderInv /\ RowInv /\ InOrder
  BY DEF BillingInv, ClaimsInv
<1>2. /\ now \in Nat /\ row.status \in Status /\ row.sub \in Subscriptions \cup {NoSub}
      /\ row.period \in Date /\ subs \in [Subscriptions -> Subscription]
  BY <1>1 DEF BillingTypeOK, BillingRow
<1>3. CASE row.period = NoDate
  <2>1. row.status = "active" /\ paid
    BY <1>1, <1>2, <1>3 DEF Entitled, RowInv, Status
  <2>2. disordered \/ missed \/ DatesAreDue
    BY <1>1, <1>3, <2>1 DEF InOrder
  <2>3. DatesAreDue => events # << >>
    BY <1>1 DEF DatesAreDue, BillingTypeOK
  <2>4. QED
    BY <1>3, <2>1, <2>2, <2>3
<1>4. CASE row.period # NoDate
  <2>1. now < row.period
    BY <1>2, <1>4 DEF Entitled, Status
  <2>2. row.sub \in Subscriptions /\ Sold(subs, row.sub, row.period)
    BY <1>1, <1>2, <1>4 DEF RowInv
  <2>3. row.period \in Nat /\ subs[row.sub].until \in Nat
    BY <1>2, <1>4, <2>2 DEF Date, Subscription
  <2>4. now < subs[row.sub].until /\ subs[row.sub].status # "none"
    BY <1>2, <2>1, <2>2, <2>3 DEF Sold
  <2>5. subs[row.sub].status # "ended"
    BY <1>1, <1>2, <2>2, <2>3, <2>4 DEF ProviderInv
  <2>6. QED
    BY <2>2, <2>4, <2>5 DEF Live
<1>5. QED
  BY <1>3, <1>4

\* Whatever is lost, late, out of order or heard twice, Pro after the trial is paid for.
THEOREM ProIsAlwaysPaidFor == BillingSpec => []ProIsPaidFor
<1>1. QED
  BY BillingInvariant, ProIsPaid, PTL

\* With no event on its way, the last word is the row's.
LEMMA SettledAgrees == BillingInv => SettledRowAgrees
<1> DEFINE running(statuses) ==
             \E s \in Subscriptions : subs[s].status \in statuses /\ now < subs[s].until
           current == {"active", "cancelling", "pausing", "past_due"}
<1> SUFFICES ASSUME BillingInv, events = << >>, paid, ~mixed, ~disordered, ~missed
             PROVE  /\ Entitled <=> lifetime \/ running(current)
                    /\ Summary = "lifetime" <=> lifetime
                    /\ running({"cancelling"}) => Summary = "cancelling"
  BY DEF SettledRowAgrees
<1>1. BillingTypeOK /\ LastWordIsTrue
  BY DEF BillingInv, ClaimsInv
<1>2. /\ now \in Nat /\ subs \in [Subscriptions -> Subscription]
      /\ row.cancel \in BOOLEAN
  BY <1>1 DEF BillingTypeOK, BillingRow
<1>3. \/ lifetime /\ NoneLive /\ SaysLifetime(row)
      \/ ~lifetime /\ \E s \in Subscriptions : OnlyLive(s, subs) /\ Says(row, s, subs[s], now)
  BY <1>1 DEF LastWordIsTrue, LastWord
<1>4. CASE lifetime /\ NoneLive /\ SaysLifetime(row)
  <2>1. ~running(current) /\ ~running({"cancelling"})
    BY <1>4 DEF NoneLive, Live
  <2>2. row.status = "active" /\ row.sub = NoSub /\ row.period = NoDate
    BY <1>4 DEF SaysLifetime
  <2>3. Entitled
    BY <2>2 DEF Entitled
  <2>4. Summary = "lifetime"
    BY <2>2 DEF Summary, ForLife
  <2>5. QED
    BY <1>4, <2>1, <2>3, <2>4
<1>5. ASSUME ~lifetime, NEW s \in Subscriptions, OnlyLive(s, subs), Says(row, s, subs[s], now)
      PROVE  /\ Entitled <=> running(current)
             /\ Summary # "lifetime"
             /\ running({"cancelling"}) => Summary = "cancelling"
  <2> DEFINE sub == subs[s]
  <2>1. sub.until \in Nat /\ NoDate \notin Nat /\ row.sub = s /\ s # NoSub
    BY <1>2, <1>5, BillingAssumption DEF Subscription, NoDate, Says
  <2>2. /\ running(current) <=> sub.status \in current /\ now < sub.until
        /\ running({"cancelling"}) <=> sub.status = "cancelling" /\ now < sub.until
    BY <1>5 DEF OnlyLive
  <2> HIDE DEF running
  <2>3. Summary # "lifetime"
    BY <2>1 DEF Summary, ForLife
  <2>4. CASE sub.status \in {"active", "pausing", "cancelling"}
    <3>1. /\ row.status = "active" /\ row.period = sub.until /\ row.sub = s
          /\ sub.status = "cancelling" => row.cancel
      BY <1>5, <2>4 DEF Says
    <3>2. Entitled <=> now < sub.until
      BY <2>1, <3>1 DEF Entitled
    <3>3. sub.status = "cancelling" /\ now < sub.until => Summary = "cancelling"
      BY <2>1, <3>1, <3>2 DEF Summary, ForLife
    <3>4. QED
      BY <2>2, <2>3, <2>4, <3>2, <3>3
  <2>5. CASE sub.status = "past_due"
    <3>1. /\ row.status = "past_due"
          /\ row.period = sub.until \/ (row.period = NoDate /\ sub.until <= now)
      BY <1>5, <2>5 DEF Says
    <3>2. Entitled <=> now < sub.until
      BY <1>2, <2>1, <3>1 DEF Entitled
    <3>3. QED
      BY <2>2, <2>3, <2>5, <3>2
  <2>6. CASE sub.status \in {"paused", "ended"}
    <3>1. row.status \in {"expired", "canceled"}
      BY <1>5, <2>6 DEF Says
    <3>2. ~Entitled
      BY <3>1 DEF Entitled
    <3>3. QED
      BY <2>2, <2>3, <2>6, <3>2
  <2>7. QED
    BY <1>5, <2>4, <2>5, <2>6 DEF Says
<1>6. QED
  BY <1>3, <1>4, <1>5

\* One purchase after another, every event heard in order: the settled row grants what
\* was sold, and the account page calls it by its name.
THEOREM SettledRowIsTrue == BillingSpec => []SettledRowAgrees
<1>1. QED
  BY BillingInvariant, SettledAgrees, PTL

\* Both at once, as a run checks it: the row never grants what was not paid for, and
\* settled it grants what was.
THEOREM RowIsAlwaysTrue == BillingSpec => []RowIsTrue
<1>1. ProIsPaidFor /\ SettledRowAgrees => RowIsTrue
  BY DEF RowIsTrue
<1>2. QED
  BY <1>1, ProIsAlwaysPaidFor, SettledRowIsTrue, PTL
=============================================================================
