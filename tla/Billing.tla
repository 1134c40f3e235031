------------------------------- MODULE Billing -------------------------------
(***************************************************************************)
(* Paying in the web edition: the learner's subscriptions row, the         *)
(* webhooks of Paystack and Paddle that write it, the routes that start a  *)
(* checkout or change a subscription, and the entitlement read from the    *)
(* row (paystack.ts, paddle.ts, policy.ts and their routes).               *)
(*                                                                         *)
(* The provider is external: it keeps its own subscriptions, sends an      *)
(* event for each change and sends it again until it is acknowledged, so   *)
(* events can be repeated and can overtake each other.  One learner; time  *)
(* counts billing periods.                                                 *)
(***************************************************************************)
EXTENDS Integers, Sequences, SequencesExt

CONSTANTS Subscriptions,                 \* those the learner may come to buy
          TrialEnds,                     \* when the trial of a new account ends
          MaxTime, MaxQueue, MaxFaults            \* bounds

VARIABLES provider,                      \* the one this deployment is set up for
          now,
          subs, lifetime,                \* what the provider sold
          events,                        \* not yet acknowledged, oldest first
          row,                           \* the learner's row of subscriptions
          faults,                        \* how much of a bound is used
          paid, mixed, disordered, missed   \* history, read by properties only

sold == <<subs, lifetime>>
billingPast == <<paid, mixed, disordered, missed>>
billingVars == <<provider, now, sold, events, row, faults, billingPast>>

-----------------------------------------------------------------------------

NoDate == -1
NoSub == "no subscription"

ASSUME BillingAssumption == NoSub \notin Subscriptions

Date == Nat \cup {NoDate}

Status == {"active", "past_due", "trialing", "canceled", "expired"}

\* subscriptions of migration 0002.  trial_ends_at is TrialEnds and never
\* written again; plan plays no part in the entitlement.
BillingRow == [status: Status, period: Date, cancel: BOOLEAN,
               sub: Subscriptions \cup {NoSub}, customer: BOOLEAN]

\* handle_new_user: a new account starts in its trial.
NewRow == [status |-> "trialing", period |-> NoDate, cancel |-> FALSE,
           sub |-> NoSub, customer |-> FALSE]

\* A subscription at the provider: paid for until then.
Subscription == [status: {"none", "active", "past_due", "cancelling", "pausing",
                          "paused", "ended"},
                 until: Nat]

\* The part of an event the webhooks read.
BillingEvent ==
    [kind: {"charge.success", "subscription.create", "subscription.not_renew",
            "subscription.disable", "invoice.payment_failed", "invoice.update",
            "subscription", "transaction.completed"},
     status: Status, plan: BOOLEAN, exact: BOOLEAN, until: Date, cancel: BOOLEAN,
     sub: Subscriptions \cup {NoSub}]

Event(kind) == [kind |-> kind, status |-> "active", plan |-> TRUE, exact |-> TRUE,
                until |-> NoDate, cancel |-> FALSE, sub |-> NoSub]

BillingInit ==
    /\ provider \in {"paystack", "paddle"}
    /\ now = 0
    /\ subs = [s \in Subscriptions |-> [status |-> "none", until |-> 0]]
    /\ lifetime = FALSE
    /\ events = << >>
    /\ row = NewRow
    /\ faults = 0
    /\ paid = FALSE /\ mixed = FALSE /\ disordered = FALSE /\ missed = FALSE

-----------------------------------------------------------------------------
\* What an event writes.

NoWrite == [status |-> "none"]
Columns(status, period, cancel, sub) ==
    [status |-> status, period |-> period, cancel |-> cancel, sub |-> sub]

\* Paystack.  A charge without a plan counts only at the Lifetime price.
subscriptionWriteFromEvent(e) ==
    CASE e.kind = "charge.success" ->
            IF e.plan THEN Columns("active", e.until, FALSE, e.sub)
            ELSE IF e.exact THEN Columns("active", NoDate, FALSE, NoSub)
            ELSE NoWrite
      [] e.kind \in {"subscription.create", "invoice.update"} ->
            Columns("active", e.until, FALSE, e.sub)
      [] e.kind = "subscription.not_renew" -> Columns("active", e.until, TRUE, e.sub)
      [] e.kind = "subscription.disable" -> Columns("canceled", e.until, TRUE, e.sub)
      [] e.kind = "invoice.payment_failed" -> Columns("past_due", e.until, FALSE, e.sub)
      [] OTHER -> NoWrite

\* Paddle.  A transaction of a subscription is left to the subscription's events.
subscriptionUpsertFromEvent(e) ==
    CASE e.kind = "subscription" -> Columns(e.status, e.until, e.cancel, e.sub)
      [] e.kind = "transaction.completed" /\ ~e.plan ->
            Columns("active", NoDate, FALSE, NoSub)
      [] OTHER -> NoWrite

WriteOf(e) == IF provider = "paystack" THEN subscriptionWriteFromEvent(e)
              ELSE subscriptionUpsertFromEvent(e)

\* Paystack's other events name only the customer a charge.success stored.
ByCustomer(e) == provider = "paystack" /\ e.kind # "charge.success"
Attributed(e) == ByCustomer(e) => row.customer

\* Mutant: an event that does not know the customer clears it.
RowForgettingCustomer(e) ==
    LET write == WriteOf(e) IN
    [status |-> write.status, period |-> write.period, cancel |-> write.cancel,
     sub |-> write.sub, customer |-> ~ByCustomer(e)]

\* rowColumns(): the customer is written when the event says who it is.
RowAfter(e) ==
    LET write == WriteOf(e) IN
    [status |-> write.status, period |-> write.period, cancel |-> write.cancel,
     sub |-> write.sub, customer |-> row.customer \/ ~ByCustomer(e)]

\* resolveEntitlement(): Pro or the Free floor.
Entitled ==
    CASE row.status = "active" -> row.period = NoDate \/ now < row.period
      [] row.status = "past_due" -> row.period # NoDate /\ now < row.period
      [] row.status = "trialing" -> now < TrialEnds
      [] OTHER -> FALSE

\* A purchase with neither a subscription nor an end is Lifetime.
ForLife == row.status = "active" /\ row.sub = NoSub /\ row.period = NoDate

\* summarizeBilling(): what the account page says.
Summary ==
    LET running == row.status = "active" /\ ~ForLife /\ Entitled IN
    CASE ForLife -> "lifetime"
      [] row.status = "past_due" -> "past_due"
      [] row.status = "trialing" /\ Entitled -> "trial"
      [] running /\ row.cancel -> "cancelling"
      [] running /\ ~row.cancel -> "active"
      [] OTHER -> "free"

-----------------------------------------------------------------------------
\* The provider.

Fault == faults < MaxFaults /\ faults' = faults + 1
Live(s) == subs[s].status \notin {"none", "ended"}
Sends(es) == Len(events \o es) <= MaxQueue /\ events' = events \o es

\* Paddle tells a subscription as it is; pausing and cancelling wait for the
\* end of the period.
PaddleStatus(status) ==
    CASE status \in {"active", "pausing", "cancelling"} -> "active"
      [] status = "past_due" -> "past_due"
      [] status = "ended" -> "canceled"
      [] OTHER -> "expired"
PaddleTells(s, sub) ==
    <<[Event("subscription") EXCEPT !.status = PaddleStatus(sub.status), !.sub = s,
         !.until = sub.until, !.cancel = sub.status = "cancelling"]>>

\* Paystack tells what happened, if it has an event for it.
Tells(s, sub, kind) ==
    CASE provider = "paddle" -> PaddleTells(s, sub)
      [] provider = "paystack" /\ kind = "none" -> << >>
      [] OTHER -> <<[Event(kind) EXCEPT !.until = sub.until, !.sub = s]>>

Becomes(s, sub) == subs' = [subs EXCEPT ![s] = sub]

\* POST /api/checkout, and the learner pays for a subscription.  Paystack sends
\* the charge, without a date, and the subscription, in either order.
Subscribe(s) ==
    LET sub == [status |-> "active", until |-> now + 1]
        charge == <<Event("charge.success")>>
        create == Tells(s, sub, "subscription.create") IN
    /\ subs[s].status = "none"
    /\ Becomes(s, sub)
    /\ \/ /\ Sends(IF provider = "paddle" THEN create ELSE charge \o create)
          /\ disordered' = disordered
       \/ provider = "paystack" /\ Sends(create \o charge) /\ disordered' = TRUE
    /\ paid' = TRUE
    /\ mixed' = (mixed \/ lifetime \/ \E other \in Subscriptions : Live(other))
    /\ UNCHANGED <<provider, now, lifetime, row, faults, missed>>

\* The learner pays for Lifetime.
BuyLifetime ==
    /\ ~lifetime /\ lifetime' = TRUE
    /\ Sends(<<[Event(IF provider = "paystack" THEN "charge.success"
                      ELSE "transaction.completed") EXCEPT !.plan = FALSE]>>)
    /\ paid' = TRUE
    /\ mixed' = (mixed \/ \E s \in Subscriptions : Live(s))
    /\ UNCHANGED <<provider, now, subs, row, faults, disordered, missed>>

\* The learner pays something else through the same Paystack account.
PayAnotherAmount ==
    /\ provider = "paystack" /\ ~paid /\ events = << >>
    /\ Sends(<<[Event("charge.success") EXCEPT !.plan = FALSE, !.exact = FALSE]>>)
    /\ UNCHANGED <<provider, now, sold, row, faults, billingPast>>

\* A period ends: paid again, refused (to be tried once more, or given up), or
\* over as the learner asked.
PeriodEnds(s) ==
    LET status == subs[s].status IN
    /\ now = subs[s].until
    /\ \E sub \in [status: {"active", "past_due", "paused", "ended"}, until: {now, now + 1}],
          dated \in BOOLEAN :
         /\ \/ /\ status \in {"active", "past_due"} /\ sub.status = "active"
               /\ sub.until = now + 1 /\ dated
               /\ Sends(Tells(s, sub, "invoice.update"))
            \/ /\ status = "active" /\ sub.status = "past_due" /\ dated = (sub.until = now + 1)
               /\ Sends(<<[Tells(s, sub, "invoice.payment_failed")[1] EXCEPT
                             !.until = IF dated THEN @ ELSE NoDate]>>)
            \/ /\ status = "pausing" /\ sub.status = "paused" /\ sub.until = now /\ dated
               /\ Sends(Tells(s, sub, "none"))
            \/ /\ status \in {"past_due", "cancelling"} /\ sub.status = "ended"
               /\ sub.until = now /\ dated
               /\ Sends(Tells(s, sub, "subscription.disable"))
         /\ Becomes(s, sub)
    /\ UNCHANGED <<provider, now, lifetime, row, faults, billingPast>>

\* Time passes; no period is left unsettled.
Tick ==
    /\ now < MaxTime /\ now' = now + 1
    /\ \A s \in Subscriptions :
          subs[s].status \in {"active", "past_due", "cancelling", "pausing"} => now < subs[s].until
    /\ UNCHANGED <<provider, sold, events, row, faults, billingPast>>

\* The provider is told, and tells the row later.
TurnSubscription(s, from, to, kind) ==
    LET sub == [status |-> to,
                until |-> IF from = "paused" THEN now + 1 ELSE subs[s].until] IN
    /\ subs[s].status = from /\ Becomes(s, sub) /\ Sends(Tells(s, sub, kind))

\* disableSubscription(), enableSubscription().  Of a cancelled one resumed
\* Paystack says nothing the webhook reads.
PaystackTurns(s) ==
    /\ provider = "paystack"
    /\ \/ TurnSubscription(s, "active", "cancelling", "subscription.not_renew")
       \/ TurnSubscription(s, "cancelling", "active", "none")

\* cancelSubscription(), pauseSubscription(), resumeSubscription().
PaddleTurns(s) ==
    /\ provider = "paddle"
    /\ \E turn \in {<<"active", "cancelling">>, <<"active", "pausing">>, <<"paused", "active">>} :
          TurnSubscription(s, turn[1], turn[2], "none")

\* POST /api/billing/subscription: the learner changes the subscription the row
\* names, and only the provider is told.
ChangeSubscription ==
    /\ row.sub # NoSub /\ (PaystackTurns(row.sub) \/ PaddleTurns(row.sub))
    /\ UNCHANGED <<provider, now, lifetime, row, faults, billingPast>>

\* POST /api/billing/portal: the provider's own page, for the subscription the row
\* names (Paystack) or all of the customer's (Paddle), where one is cancelled.
Portal(s) ==
    LET sub == [subs[s] EXCEPT !.status = "cancelling"] IN
    /\ IF provider = "paystack" THEN row.sub = s ELSE row.customer
    /\ subs[s].status = "active"
    /\ Becomes(s, sub) /\ Sends(Tells(s, sub, "subscription.not_renew"))
    /\ UNCHANGED <<provider, now, lifetime, row, faults, billingPast>>

-----------------------------------------------------------------------------
\* The webhooks.

\* Mutant: a failed write is acknowledged.
WriteFailsAcknowledged(i) ==
    /\ Attributed(events[i]) /\ WriteOf(events[i]) # NoWrite
    /\ Fault
    /\ events' = RemoveAt(events, i)
    /\ UNCHANGED <<provider, now, sold, row, billingPast>>

\* The row cannot be written: 500, and the provider will try again.
WriteFails(i) ==
    /\ Attributed(events[i]) /\ WriteOf(events[i]) # NoWrite
    /\ Fault
    /\ UNCHANGED <<provider, now, sold, events, row, billingPast>>

Acknowledge(i) ==
    \/ events' = RemoveAt(events, i) /\ faults' = faults
    \/ events' = events /\ Fault

\* An event writes the row.
Apply(i) ==
    /\ WriteOf(events[i]) # NoWrite /\ Attributed(events[i])
    /\ row' = RowAfter(events[i])
    /\ Acknowledge(i)
    /\ disordered' = (disordered \/ i # 1)
    /\ UNCHANGED <<provider, now, sold, paid, mixed, missed>>

\* An event that says nothing about Pro is acknowledged, and so is one whose
\* customer is not known or cannot be looked up.
Ignore(i) ==
    LET e == events[i] IN
    /\ events' = RemoveAt(events, i)
    /\ \/ WriteOf(e) = NoWrite /\ UNCHANGED <<faults, missed>>
       \/ /\ WriteOf(e) # NoWrite /\ ByCustomer(e)
          /\ \/ ~row.customer /\ UNCHANGED <<faults, missed>>
             \/ row.customer /\ Fault /\ missed' = TRUE
    /\ disordered' = (disordered \/ i # 1)
    /\ UNCHANGED <<provider, now, sold, row, paid, mixed>>

Handle(i) == Apply(i) \/ Ignore(i) \/ WriteFails(i)

BillingNext ==
    \/ \E s \in Subscriptions : Subscribe(s) \/ PeriodEnds(s) \/ Portal(s)
    \/ BuyLifetime \/ PayAnotherAmount \/ Tick \/ ChangeSubscription
    \/ \E i \in 1 .. Len(events) : Handle(i)

BillingSpec == BillingInit /\ [][BillingNext]_billingVars

\* The provider delivers what it has not been acknowledged for.
Delivered == events # << >> /\ (Apply(1) \/ Ignore(1)) /\ events' = Tail(events)
BillingFairness == WF_billingVars(Delivered)

-----------------------------------------------------------------------------

BillingTypeOK ==
    /\ provider \in {"paystack", "paddle"} /\ now \in Nat
    /\ subs \in [Subscriptions -> Subscription]
    /\ lifetime \in BOOLEAN
    /\ events \in Seq(BillingEvent) /\ row \in BillingRow
    /\ faults \in Nat
    /\ paid \in BOOLEAN /\ mixed \in BOOLEAN
    /\ disordered \in BOOLEAN /\ missed \in BOOLEAN

\* Pro after the trial is paid for, in whatever order events arrive and however
\* often: by Lifetime, by a period the provider sold, or by a charge for a
\* subscription whose dates are still to come, or came out of order or unheard
\* (policy.ts, bug audit H1 and H2).
ProIsPaidFor ==
    Entitled =>
        \/ row.status = "trialing"
        \/ lifetime
        \/ \E s \in Subscriptions : Live(s) /\ now < subs[s].until
        \/ paid /\ row.period = NoDate /\ (disordered \/ missed \/ events # << >>)

\* With one purchase after another, every event heard in order, the row grants
\* what the provider sold, no less and no more, and the account page calls it by
\* its name.
SettledRowAgrees ==
    events = << >> /\ paid /\ ~mixed /\ ~disordered /\ ~missed =>
        LET running(statuses) ==
              \E s \in Subscriptions : subs[s].status \in statuses /\ now < subs[s].until IN
        /\ Entitled <=> lifetime \/ running({"active", "cancelling", "pausing", "past_due"})
        /\ Summary = "lifetime" <=> lifetime
        /\ running({"cancelling"}) => Summary = "cancelling"

\* What the row grants is what was sold: never unpaid, and once every event is heard
\* in order, no less.
RowIsTrue == ProIsPaidFor /\ SettledRowAgrees

\* A Lifetime purchase is for life, whatever becomes of an earlier subscription.
\* (paystack.ts:180: "a one-time Lifetime charge never lapses".)
LifetimeNeverLapses ==
    events = << >> /\ lifetime /\ ~disordered /\ ~missed => Entitled

\* A purchase of Lifetime that was announced reaches the row, whatever fails on
\* the way.  (paddle/route.ts: "don't lose a paid upgrade to a transient write
\* error".)
LifetimeIsGranted ==
    (\E i \in 1 .. Len(events) : ~events[i].plan /\ events[i].exact)
        ~> (row.status = "active" /\ row.period = NoDate)
=============================================================================
