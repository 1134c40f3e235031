------------------------------ MODULE Checkout ------------------------------
(***************************************************************************)
(* Buying Pro in the web edition: the pricing page, the checkout page and  *)
(* POST /api/checkout, with the launch offer and the student discount.     *)
(*                                                                         *)
(* The page reads who the visitor is, the offer and Paddle's prices once,  *)
(* when it opens; the route looks again when the learner has chosen.  In   *)
(* between time passes, the offer ends, a student is verified or no longer *)
(* is, and the visitor signs in, out or buys in another tab.               *)
(***************************************************************************)
EXTENDS Integers

CONSTANTS OfferEnds, StudentTerm, LastHour, MaxVisits        \* of both discounts; bounds

ASSUME CheckoutAssumption == {OfferEnds, StudentTerm, LastHour, MaxVisits} \subseteq Nat

Plans == {"monthly", "annual", "lifetime"}
Discounts == {"none", "launch", "student"}

\* prices: static strings, or Paddle's for the visitor's region.
Quote == [plan: Plans \cup {"none"}, prices: {"static", "paddle"}, discount: Discounts]
NoQuote == [plan |-> "none", prices |-> "static", discount |-> "none"]

\* at: when the route decided, and what the learner was then.
Charge == [provider: {"none", "paystack", "paddle"}, plan: Plans \cup {"none"},
           discount: Discounts, at: Nat, student: BOOLEAN]
NoCharge == [provider |-> "none", plan |-> "none", discount |-> "none", at |-> 0, student |-> FALSE]

VARIABLES setUp,                         \* what this deployment has configured
          hour, visitor, studentUntil,   \* visitor: what /api/entitlement would say
          script,                        \* Paddle's script in this document
          pricing,                       \* the pricing page
          checkout,                      \* the checkout page
          quoted, charged,               \* the card that was chosen; the transaction
          visits                         \* how much of the bound is used

checkoutVars ==
    <<setUp, hour, visitor, studentUntil, script, pricing, checkout, quoted, charged, visits>>
world == <<setUp, hour, visitor, studentUntil>>

Visitors == {"nobody", "free", "trial", "pro"}

\* viewer: what the page knows of the visitor.  preview: how far Paddle's prices
\* are; regional: they are shown, with `deal` in them.
PricingPage == [open: BOOLEAN, viewer: Visitors \cup {"loading"},
                preview: {"config", "script", "prices", "done"},
                asked: Discounts, regional: BOOLEAN, deal: Discounts, usd: BOOLEAN]
NewPricing == [open |-> TRUE, viewer |-> "loading", preview |-> "config", asked |-> "none",
               regional |-> FALSE, deal |-> "none", usd |-> FALSE]
NoPricing == [NewPricing EXCEPT !.open = FALSE]

\* awaiting: the route's answer, or Paddle's script.
CheckoutPage == [status: {"none", "loading", "placeholder", "signedout", "opening",
                          "redirecting", "completed", "error"},
                 awaiting: {"nothing", "route", "script"},
                 plan: Plans \cup {"none"}, deal: BOOLEAN]
NoCheckout == [status |-> "none", awaiting |-> "nothing", plan |-> "none", deal |-> FALSE]

\* What the environment holds keys and prices for.
Deployments == [paystack: BOOLEAN, paddle: BOOLEAN, offer: BOOLEAN, students: BOOLEAN]

CheckoutInit ==
    /\ setUp \in Deployments
    /\ hour = 0 /\ visitor \in Visitors /\ studentUntil = 0
    /\ script = "absent" /\ pricing = NoPricing /\ checkout = NoCheckout
    /\ quoted = NoQuote /\ charged = NoCharge /\ visits = 0

\* resolveFoundingDeal(): configured, and not over.
Offer == IF setUp.offer /\ hour < OfferEnds THEN "launch" ELSE "none"

\* resolveStudentStatus().
IsStudent == hour < studentUntil

-----------------------------------------------------------------------------
\* The pricing page.

\* A page of its own, or a step within the site, which keeps the script.
OpenPricing ==
    /\ visits < MaxVisits /\ visits' = visits + 1
    /\ pricing' = NewPricing /\ checkout' = NoCheckout
    /\ quoted' = NoQuote /\ charged' = NoCharge
    /\ script' \in {script, "absent"}
    /\ UNCHANGED world

\* The entitlement, or the look of someone signed out when there is no answer.
ViewerKnown ==
    /\ pricing.open /\ pricing.viewer = "loading"
    /\ \E who \in {visitor, "nobody"} : pricing' = [pricing EXCEPT !.viewer = who]
    /\ UNCHANGED <<world, script, checkout, quoted, charged, visits>>

\* loadPaddleJs() puts its tag in the document once.  What has failed has said
\* so already: who asks afterwards waits for ever.
LoadScript == script' = IF script = "absent" THEN "loading" ELSE script

\* /api/paddle-config: the offer, if it is still on.
ConfigKnown ==
    /\ pricing.open /\ pricing.preview = "config"
    /\ \/ /\ setUp.paddle /\ LoadScript
          /\ pricing' = [pricing EXCEPT !.preview = "script", !.asked = Offer]
       \/ pricing' = [pricing EXCEPT !.preview = "done"] /\ UNCHANGED script
    /\ UNCHANGED <<world, checkout, quoted, charged, visits>>

\* Everyone who waits for the script hears of it.
ScriptEnds ==
    /\ script = "loading" /\ script' \in {"loaded", "failed"}
    /\ pricing' = IF pricing.open /\ pricing.preview = "script"
                  THEN [pricing EXCEPT !.preview = IF script' = "loaded" THEN "prices" ELSE "done"]
                  ELSE pricing
    /\ checkout' = IF checkout.awaiting = "script"
                   THEN [checkout EXCEPT !.awaiting = "nothing",
                         !.status = IF script' = "loaded" THEN "opening" ELSE "error"]
                   ELSE checkout
    /\ UNCHANGED <<world, quoted, charged, visits>>

AskPrices ==
    /\ pricing.open /\ pricing.preview = "script" /\ script = "loaded"
    /\ pricing' = [pricing EXCEPT !.preview = "prices"]
    /\ UNCHANGED <<world, script, checkout, quoted, charged, visits>>

\* Paddle's totals, with the discount asked for; all three or none.
PricesKnown ==
    /\ pricing.open /\ pricing.preview = "prices"
    /\ pricing' \in {[pricing EXCEPT !.preview = "done"],
                     [pricing EXCEPT !.preview = "done", !.regional = TRUE, !.deal = pricing.asked]}
    /\ UNCHANGED <<world, script, checkout, quoted, charged, visits>>

FlipToUsd ==
    /\ pricing.open /\ pricing.regional /\ pricing' = [pricing EXCEPT !.usd = ~@]
    /\ UNCHANGED <<world, script, checkout, quoted, charged, visits>>

Regional == pricing.regional /\ ~pricing.usd
ShownDeal == IF Regional THEN pricing.deal ELSE "none"

GoToCheckout(plan, deal) ==
    checkout' = [status |-> "loading", awaiting |-> "route", plan |-> plan, deal |-> deal]

\* A card's button, of a signed-in visitor who is not known to be Pro.
Choose(plan) ==
    /\ pricing.open /\ pricing.viewer \in {"free", "trial"}
    /\ quoted' = [plan |-> plan, prices |-> IF Regional THEN "paddle" ELSE "static",
                  discount |-> ShownDeal]
    /\ GoToCheckout(plan, ShownDeal # "none")
    /\ pricing' = NoPricing /\ charged' = NoCharge
    /\ UNCHANGED <<world, script, visits>>

\* A link from before.
FollowLink(plan, deal) ==
    /\ visits < MaxVisits /\ visits' = visits + 1
    /\ GoToCheckout(plan, deal)
    /\ pricing' = NoPricing /\ quoted' = NoQuote /\ charged' = NoCharge /\ script' = "absent"
    /\ UNCHANGED world

-----------------------------------------------------------------------------
\* POST /api/checkout and what the page makes of the answer.

Answered(status) == checkout' = [checkout EXCEPT !.status = status, !.awaiting = "nothing"]

RefusedCheckout ==
    /\ checkout.awaiting = "route"
    /\ \/ visitor = "nobody" /\ Answered("signedout")
       \/ visitor # "nobody" /\ ~setUp.paystack /\ ~setUp.paddle /\ Answered("placeholder")
       \/ Answered("error")
    /\ UNCHANGED <<world, script, pricing, quoted, charged, visits>>

\* initializeTransaction() sends the plan's code or the price and no discount.
InitializeTransaction ==
    charged' = [provider |-> "paystack", plan |-> checkout.plan, discount |-> "none",
                at |-> hour, student |-> IsStudent]

\* Paystack comes first.
StartPaystack ==
    /\ checkout.awaiting = "route" /\ visitor # "nobody" /\ setUp.paystack
    /\ InitializeTransaction
    /\ Answered("redirecting")
    /\ UNCHANGED <<world, script, pricing, quoted, visits>>

\* Mutant: the offer of the link is taken at its word.
DiscountAsLinked ==
    IF setUp.students /\ IsStudent THEN "student" ELSE IF checkout.deal THEN "launch" ELSE "none"

\* pickCheckoutDiscount(): a student's before the offer, one or none.
Discount ==
    IF setUp.students /\ IsStudent THEN "student" ELSE IF checkout.deal THEN Offer ELSE "none"

CreateTransaction(discount) ==
    charged' = [provider |-> "paddle", plan |-> checkout.plan, discount |-> discount,
                at |-> hour, student |-> IsStudent]

StartPaddle ==
    /\ checkout.awaiting = "route" /\ visitor # "nobody" /\ ~setUp.paystack /\ setUp.paddle
    /\ CreateTransaction(Discount)
    /\ IF script = "loaded" THEN Answered("opening")
       ELSE checkout' = [checkout EXCEPT !.awaiting = "script"]
    /\ LoadScript
    /\ UNCHANGED <<world, pricing, quoted, visits>>

\* The overlay says so, or Paystack sends the learner back.
Completes ==
    /\ checkout.status \in {"opening", "redirecting"} /\ Answered("completed")
    /\ script' = IF checkout.status = "redirecting" THEN "absent" ELSE script
    /\ UNCHANGED <<world, pricing, quoted, charged, visits>>

-----------------------------------------------------------------------------
\* Meanwhile.

HourPasses ==
    /\ hour < LastHour /\ hour' = hour + 1
    /\ UNCHANGED <<setUp, visitor, studentUntil, script, pricing, checkout, quoted, charged, visits>>

\* /api/webhooks/student: granted, or renewed.
VerifyStudent ==
    /\ visitor # "nobody" /\ studentUntil < hour + StudentTerm
    /\ studentUntil' = hour + StudentTerm
    /\ UNCHANGED <<setUp, hour, visitor, script, pricing, checkout, quoted, charged, visits>>

\* Another tab signs in or out, or buys.
VisitorChanges ==
    /\ visitor' \in Visitors \ {visitor}
    /\ UNCHANGED <<setUp, hour, studentUntil, script, pricing, checkout, quoted, charged, visits>>

CheckoutNext ==
    \/ OpenPricing \/ ViewerKnown \/ ConfigKnown \/ ScriptEnds \/ AskPrices \/ PricesKnown
    \/ FlipToUsd
    \/ \E plan \in Plans : Choose(plan) \/ \E deal \in BOOLEAN : FollowLink(plan, deal)
    \/ RefusedCheckout \/ StartPaystack \/ StartPaddle \/ Completes
    \/ HourPasses \/ VerifyStudent \/ VisitorChanges

CheckoutSpec == CheckoutInit /\ [][CheckoutNext]_checkoutVars

-----------------------------------------------------------------------------

CheckoutTypeOK ==
    /\ setUp \in Deployments
    /\ hour \in Nat /\ visitor \in Visitors /\ studentUntil \in Nat
    /\ script \in {"absent", "loading", "loaded", "failed"}
    /\ pricing \in PricingPage /\ checkout \in CheckoutPage
    /\ quoted \in Quote /\ charged \in Charge /\ visits \in Nat

Charged == charged.provider # "none"

\* An offer that is over, or a status that has lapsed, takes nothing off.
DiscountIsDue ==
    /\ charged.discount = "launch" => setUp.offer /\ charged.at < OfferEnds
    /\ charged.discount = "student" => charged.student /\ setUp.students

\* Where one provider is set up, the learner pays what the card showed, or less
\* by a student's discount, or more by an offer that ended in between.
ChargeIsAsShown ==
    quoted.plan # "none" /\ ~(setUp.paystack /\ setUp.paddle) =>
        /\ charged.plan = quoted.plan
        /\ quoted.prices = "paddle" => charged.provider = "paddle"
        /\ charged.discount \in {quoted.discount, "student"}
              \/ (quoted.discount = "launch" /\ OfferEnds <= charged.at)

\* What a checkout charges is what the learner was shown, and no discount is
\* given that is not due, however long the page was open and whatever changed
\* behind it.  (pricing-preview.ts: "what we render here is exactly what checkout
\* will charge"; paddle-config/route.ts: "a stale link can't resurrect it")
CheckoutIsFair == Charged => DiscountIsDue /\ ChargeIsAsShown
=============================================================================
