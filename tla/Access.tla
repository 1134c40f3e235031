------------------------------- MODULE Access -------------------------------
(***************************************************************************)
(* What a learner of the web edition has a right to: by their own          *)
(* subscription or by a seat in a team; and the page on which a            *)
(* subscription is cancelled.                                              *)
(*                                                                         *)
(* An entitlement is resolved from up to three reads, one after another,   *)
(* while webhooks write the rows.  Beside it stands what is paid for it    *)
(* (Checkout): between the two lie the provider and its webhooks, which    *)
(* Billing models, so that here neither depends on the other.              *)
(***************************************************************************)
EXTENDS Checkout

CONSTANTS Teams, LastAccessDay, MaxWrites                    \* bounds

\* The period that is paid at the start ends within what is explored.
ASSUME AccessAssumption == LastAccessDay \in Nat \ {0} /\ MaxWrites \in Nat

NoEnd == -1
EndDates == {NoEnd} \cup 0 .. LastAccessDay
Lifecycle == {"none", "trialing", "active", "past_due", "canceled", "expired"}

\* until: trial_ends_at of a trial, current_period_end of the rest.
OwnRow == [status: Lifecycle, until: EndDates, subscription: BOOLEAN]
TeamRow == [status: Lifecycle, until: EndDates]
Seats == {"none", "invited", "active", "removed"}
Answers == {"free", "trial", "pro"}

VARIABLES date,
          deployed,                      \* the provider this deployment asks
          own, team, seat,               \* rows: subscriptions, teams, team_members
          asking,                        \* a request that resolves the entitlement
          cancelling,                    \* the page of the save offers
          writes                         \* how much of the bound is used

accessVars == <<date, deployed, own, team, seat, asking, cancelling, writes>>

\* answer: once there is one.  picked: the membership read.  The rest is history:
\* teams with a live seat all along, with a seat at any time; a failed read.
Asking == [stage: {"none", "own", "membership", "team", "answered"}, at: Nat,
           read: Answers, picked: Teams \cup {"none"}, answer: Answers,
           seated: SUBSET Teams, met: SUBSET Teams, failed: BOOLEAN]
NoAsking == [stage |-> "none", at |-> 0, read |-> "free", picked |-> "none",
             answer |-> "free", seated |-> {}, met |-> {}, failed |-> FALSE]

Offers == {"pause", "discount", "downgrade"}
Cancelling == [offers: SUBSET Offers, busy: Offers \cup {"none"}, done: Offers \cup {"none"},
               note: {"none", "notlive", "failed"}, told: SUBSET Offers]
NoCancelling == [offers |-> {}, busy |-> "none", done |-> "none", note |-> "none", told |-> {}]

AccessInit ==
    /\ date = 0 /\ deployed \in {"paystack", "paddle"}
    /\ own = [status |-> "none", until |-> NoEnd, subscription |-> FALSE]
    /\ team = [t \in Teams |-> [status |-> "active", until |-> 1]]
    /\ seat \in [Teams -> {"none", "active"}]
    /\ asking = NoAsking /\ cancelling = NoCancelling /\ writes = 0

-----------------------------------------------------------------------------
\* policy.ts and team-policy.ts.

Over(row, now) == row.until # NoEnd /\ row.until <= now

\* Mutant: dunning without a known period counts as paid.
ResolveWithoutPeriod(row, now) ==
    CASE row.status \in {"active", "past_due"} /\ ~Over(row, now) -> "pro"
      [] row.status = "trialing" /\ row.until # NoEnd /\ ~Over(row, now) -> "trial"
      [] OTHER -> "free"

\* resolveEntitlement(): a failed charge is waited for to the end of a known
\* period; only Lifetime has no end.
Resolve(row, now) ==
    CASE row.status = "active" /\ ~Over(row, now) -> "pro"
      [] row.status = "past_due" /\ row.until # NoEnd /\ ~Over(row, now) -> "pro"
      [] row.status = "trialing" /\ row.until # NoEnd /\ ~Over(row, now) -> "trial"
      [] OTHER -> "free"

\* resolveTeamEntitlement() of an active member.
ResolveTeam(row, now) ==
    IF row.status \in {"active", "past_due", "trialing"} /\ ~Over(row, now) THEN "pro" ELSE "free"

\* maxEntitlement(): the learner's own wins a tie.
MaxEntitlement(a, b) == IF a = "free" THEN b ELSE a

Seated(now) == {t \in Teams : seat[t] = "active" /\ ResolveTeam(team[t], now) = "pro"}

-----------------------------------------------------------------------------
\* getEntitlement(), for a route or the layout of the pages.

StartAsking ==
    /\ asking.stage \in {"none", "answered"}
    /\ asking' = [NoAsking EXCEPT !.stage = "own", !.at = date, !.seated = Seated(date),
                                  !.met = {t \in Teams : seat[t] = "active"}]
    /\ UNCHANGED <<date, deployed, own, team, seat, cancelling, writes>>

Answer(value) == asking' = [asking EXCEPT !.stage = "answered", !.answer = value]

\* Pro by their own row needs no team.  A row that cannot be read is no row.
ReadOwn ==
    /\ asking.stage = "own"
    /\ \E value \in {Resolve(own, asking.at), "free"} :
       asking' = [asking EXCEPT !.stage = IF value = "free" THEN "membership" ELSE "answered",
                                !.read = value, !.answer = value]
    /\ UNCHANGED <<date, deployed, own, team, seat, cancelling, writes>>

\* One active membership, whichever comes first.
ReadMembership ==
    /\ asking.stage = "membership"
    /\ LET active == {t \in Teams : seat[t] = "active"} IN
       IF active = {} THEN Answer(asking.read)
       ELSE \E t \in active : asking' = [asking EXCEPT !.stage = "team", !.picked = t]
    /\ UNCHANGED <<date, deployed, own, team, seat, cancelling, writes>>

\* The team of it, which only its active members may read.
ReadTeam ==
    /\ asking.stage = "team"
    /\ Answer(IF seat[asking.picked] = "active"
              THEN MaxEntitlement(asking.read, ResolveTeam(team[asking.picked], asking.at))
              ELSE asking.read)
    /\ UNCHANGED <<date, deployed, own, team, seat, cancelling, writes>>

\* The teams cannot be read: the learner keeps their own.
TeamsFail ==
    /\ asking.stage \in {"membership", "team"}
    /\ asking' = [asking EXCEPT !.stage = "answered", !.answer = asking.read, !.failed = TRUE]
    /\ UNCHANGED <<date, deployed, own, team, seat, cancelling, writes>>

-----------------------------------------------------------------------------
\* The save flow.

\* planSaveOffers(): of a subscription that can be stopped; what the provider
\* can do, and always the cancellation.
PlanSaveOffers ==
    IF ~own.subscription THEN {}
    ELSE {"downgrade"} \cup (IF deployed = "paddle" THEN {"pause", "discount"} ELSE {})

OpenCancel ==
    /\ cancelling.busy = "none" /\ PlanSaveOffers # {}
    /\ cancelling' = [NoCancelling EXCEPT !.offers = PlanSaveOffers]
    /\ UNCHANGED <<date, deployed, own, team, seat, asking, writes>>

ChooseOffer(offer) ==
    /\ offer \in cancelling.offers /\ cancelling.busy = "none" /\ cancelling.done = "none"
    /\ cancelling' = [cancelling EXCEPT !.busy = offer, !.note = "none"]
    /\ UNCHANGED <<date, deployed, own, team, seat, asking, writes>>

\* POST /api/billing/subscription: of the subscription the row names by now.
\* Paystack is never asked for what it has not got.
ChangePlan ==
    /\ cancelling.busy # "none"
    /\ \/ /\ own.subscription
          /\ deployed = "paddle" \/ cancelling.busy = "downgrade"
          /\ cancelling' = [cancelling EXCEPT !.busy = "none", !.done = cancelling.busy,
                                              !.told = @ \cup {cancelling.busy}]
       \/ /\ own.subscription
          /\ deployed = "paystack" /\ cancelling.busy # "downgrade"
          /\ cancelling' = [cancelling EXCEPT !.busy = "none", !.note = "notlive"]
       \/ cancelling' = [cancelling EXCEPT !.busy = "none", !.note = "failed"]
    /\ UNCHANGED <<date, deployed, own, team, seat, asking, writes>>

-----------------------------------------------------------------------------
\* Rows are written by webhooks and by those who run the teams.

Written == writes < MaxWrites /\ writes' = writes + 1

\* The teams the request may have met, and those that were live throughout.
Heard ==
    asking' = [asking EXCEPT !.seated = {t \in @ : seat'[t] = "active"
                                            /\ ResolveTeam(team'[t], asking.at) = "pro"},
                             !.met = @ \cup {t \in Teams : seat'[t] = "active"}]

OwnWritten ==
    /\ Written
    /\ \E row \in OwnRow :
          /\ row.status = "none" <=> row = [status |-> "none", until |-> NoEnd, subscription |-> FALSE]
          /\ row.subscription => row.status \in {"active", "past_due", "canceled"}
          /\ own' = row
    /\ UNCHANGED <<date, deployed, team, seat, asking, cancelling>>

TeamWritten(t) ==
    /\ Written
    /\ \E row \in TeamRow :
          row.status \in {"active", "past_due", "canceled"} /\ team' = [team EXCEPT ![t] = row]
    /\ UNCHANGED <<date, deployed, own, seat, cancelling>>
    /\ Heard

SeatWritten(t) ==
    /\ Written
    /\ \E s \in Seats : seat' = [seat EXCEPT ![t] = s]
    /\ UNCHANGED <<date, deployed, own, team, cancelling>>
    /\ Heard

DayPasses ==
    /\ date < LastAccessDay /\ date' = date + 1
    /\ UNCHANGED <<deployed, own, team, seat, asking, cancelling, writes>>

AccessNext ==
    \/ StartAsking \/ ReadOwn \/ ReadMembership \/ ReadTeam \/ TeamsFail
    \/ OpenCancel \/ \E offer \in Offers : ChooseOffer(offer)
    \/ ChangePlan
    \/ OwnWritten \/ \E t \in Teams : TeamWritten(t) \/ SeatWritten(t)
    \/ DayPasses

AccessSpec == AccessInit /\ [][AccessNext]_accessVars

-----------------------------------------------------------------------------

AccessTypeOK ==
    /\ date \in Nat /\ deployed \in {"paystack", "paddle"}
    /\ own \in OwnRow /\ team \in [Teams -> TeamRow] /\ seat \in [Teams -> Seats]
    /\ asking \in Asking /\ cancelling \in Cancelling /\ writes \in Nat

\* Pro that nothing renews ends, save what was bought for good; and a trial is
\* told from what is paid.
ProEnds ==
    Resolve(own, LastAccessDay + 1) # "free" => own.status = "active" /\ own.until = NoEnd

\* Whoever has seats in live teams only, all along, is Pro; and a team never takes
\* from what is the learner's own.
SeatsAreHonoured ==
    asking.stage = "answered" =>
        /\ asking.read # "free" => asking.answer = asking.read
        /\ asking.seated # {} /\ asking.met = asking.seated /\ ~asking.failed
           => asking.answer # "free"

\* What is offered instead of cancelling can be had, and cancelling is always there.
OffersAreReal ==
    /\ cancelling.offers # {} => "downgrade" \in cancelling.offers
    /\ cancelling.note # "notlive"
    /\ cancelling.done # "none" => cancelling.done \in cancelling.told

\* What is paid for is had, and no more: access ends when nothing renews it, a
\* seat counts whatever is written while the request reads, and each way to stay
\* that the cancel page offers exists.  (policy.ts "Bug audit H2"; server.ts "the
\* team path can never downgrade anyone"; save-offers.ts "Only ever returns offers
\* that can be honored")
AccessIsAsPaid == ProEnds /\ SeatsAreHonoured /\ OffersAreReal

-----------------------------------------------------------------------------

PayingSpec == CheckoutSpec /\ AccessSpec

\* What is charged is what was shown and due, and what is paid for is had.
\* (api/checkout/route.ts, pricing-preview.ts, lib/entitlements/)
PaymentIsFair == CheckoutIsFair /\ AccessIsAsPaid
=============================================================================
