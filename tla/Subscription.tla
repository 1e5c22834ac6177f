----------------------------- MODULE Subscription -----------------------------
(***************************************************************************)
(* The subscription of an organization: the free plan it begins with, the  *)
(* transitions of local mock billing (commercial.py), and the webhooks of  *)
(* Stripe, which are delivered in any order and answered by reading the    *)
(* provider's current state again (integrations/billing.py).  Every        *)
(* handler holds the account's row and is one action; a refusal, a         *)
(* repeated event or command, and a failed re-read leave nothing behind.   *)
(*                                                                         *)
(* Plans are their ranks: 0 is free, Enterprise is the highest and bought  *)
(* by contract.  A plan of rank n allows n + 1 executions in a period.     *)
(***************************************************************************)
EXTENDS Integers, Sequences, FiniteSetsExt

CONSTANTS
    Enterprise,
    Paid,              \* the plan sold through Stripe
    Period,            \* a month
    TrialDays, GraceDays,
    MaxSubscriptions, MaxEvents, MaxTime

ASSUME PeriodAssumption == Period \in Nat \ {0}

VARIABLES
    provider,      \* of the deployment: mock or stripe
    contract,      \* the newest commercial_subscription record, and the account's copy
    renewal,       \* account.period_end
    consumed,      \* account.consumed
    followed,      \* account.stripe_subscription, 0 for none
    eventCreated,  \* account.event_created
    subs,          \* Stripe's subscriptions of the customer, in order
    events,        \* Stripe's events, in the order they are created
    applied,       \* the webhook_events: events that were received
    day

billingVars == <<provider, contract, renewal, consumed, followed, eventCreated, subs, events,
                 applied, day>>
accountVars == <<provider, contract, renewal, consumed, followed, eventCreated, applied>>

Unset == -1
NoDates == [scheduled |-> Unset, trial |-> Unset, grace |-> Unset, override |-> Unset]
Terms(plan, status, used, dates) ==
    [plan |-> plan, status |-> status, trialUsed |-> used, dates |-> dates]
Past(date) == date # Unset /\ date <= day

\* provision_free
BillingInit ==
    /\ provider \in {"mock", "stripe"}
    /\ contract = Terms(0, "free", FALSE, NoDates)
    /\ renewal = Period /\ consumed = 0
    /\ followed = 0 /\ eventCreated = 0
    /\ subs = <<>> /\ events = <<>> /\ applied = {}
    /\ day = 0

-----------------------------------------------------------------------------
(* _reconcile, at the beginning of every command and of every read *)

Free(c) == Terms(0, "free", c.trialUsed, NoDates)
AfterOverride(c) ==
    IF Past(c.dates.override)
    THEN [c EXCEPT !.plan = 0, !.status = "free", !.dates.override = Unset] ELSE c
AfterExpiry(c) == IF Past(c.dates.trial) \/ Past(c.dates.grace) THEN Free(c) ELSE c
\* A scheduled change ends a contract override; a grace period goes on.
AfterBoundary(c) ==
    IF c.dates.scheduled = Unset THEN c
    ELSE [c EXCEPT !.plan = c.dates.scheduled,
                   !.status = IF c.dates.scheduled = 0 THEN "free" ELSE "active",
                   !.dates.scheduled = Unset, !.dates.override = Unset]

\* The clock renews the usage only of subscriptions that Stripe does not manage.
BoundaryPassed == followed = 0 /\ renewal <= day
Reconciled ==
    LET c == AfterExpiry(AfterOverride(contract))
    IN  IF BoundaryPassed THEN AfterBoundary(c) ELSE c
NextRenewal ==
    IF BoundaryPassed
    THEN Min({n \in day + 1 .. day + Period : (n - renewal) % Period = 0})
    ELSE renewal
Usage == IF BoundaryPassed THEN 0 ELSE consumed

\* What a command, a read or a reservation commits besides its own change.
Resolve(c, used) ==
    /\ contract' = c /\ renewal' = NextRenewal /\ consumed' = used
    /\ UNCHANGED <<provider, followed, eventCreated, subs, events, applied, day>>
Read ==
    /\ Reconciled # contract \/ BoundaryPassed
    /\ Resolve(Reconciled, Usage)

\* require_verification_capacity, and the charge of the run it lets in.
UseExecution ==
    /\ Reconciled.status \in {"free", "active", "trialing", "grace"}
    /\ Usage < Reconciled.plan + 1
    /\ Resolve(Reconciled, Usage + 1)

-----------------------------------------------------------------------------
(* mutate: the commands of mock billing *)

Bought(plan, status, trial, used) ==
    Terms(plan, status, used, [NoDates EXCEPT !.trial = trial])
Command(c) == provider = "mock" /\ Resolve(c, Usage)

Upgrade(plan) ==
    /\ plan \in 1..Enterprise - 1 /\ plan >= Reconciled.plan
    /\ Command(Bought(plan, "active", Unset, Reconciled.trialUsed))
StartTrial(plan) ==
    /\ plan \in 1..Enterprise - 1
    /\ ~Reconciled.trialUsed /\ Reconciled.plan = 0
    /\ Command(Bought(plan, "trialing", day + TrialDays, TRUE))
\* cancel is the downgrade to free.
Downgrade(plan) ==
    /\ plan < Enterprise /\ plan <= Reconciled.plan
    /\ Command([Reconciled EXCEPT !.dates.scheduled = plan])
PaymentFailed ==
    /\ Reconciled.plan # 0
    /\ Command([Reconciled EXCEPT !.status = "grace",
                  !.dates.grace = IF @ = Unset THEN day + GraceDays ELSE @])
PaymentRecovered ==
    /\ Reconciled.status = "grace"
    /\ Command([Reconciled EXCEPT !.status = "active", !.dates.grace = Unset])
Override(expires) ==
    /\ expires > day
    /\ Command(Terms(Enterprise, "active", Reconciled.trialUsed,
                        [NoDates EXCEPT !.override = expires]))

-----------------------------------------------------------------------------
(* Stripe: what happens to a subscription, and the event that tells of it *)

Tell(sub, kind, change) ==
    /\ Len(events) < MaxEvents
    /\ subs' = change
    /\ events' = Append(events, [sub |-> sub, kind |-> kind, body |-> change[sub]])
    /\ UNCHANGED <<accountVars, day>>

\* A customer checks out when no earlier subscription is running.
Checkout ==
    /\ provider = "stripe" /\ Len(subs) < MaxSubscriptions
    /\ \A s \in DOMAIN subs : subs[s].status = "canceled"
    /\ Tell(Len(subs) + 1, "created",
            Append(subs, [status |-> "incomplete", paid |-> FALSE, end |-> day + Period]))
Pays(s) ==
    /\ subs[s].status \in {"incomplete", "past_due"}
    /\ Tell(s, "changed", [subs EXCEPT ![s].status = "active", ![s].paid = TRUE])
\* The next period begins, with a payment or without.
Renews(s, paid) ==
    /\ subs[s].status = "active" /\ subs[s].end <= day
    /\ Tell(s, "changed", [subs EXCEPT ![s] =
              [status |-> IF paid THEN "active" ELSE "past_due", paid |-> paid,
               end |-> @.end + Period]])
Refunds(s) ==
    /\ subs[s].paid
    /\ Tell(s, "refunded", [subs EXCEPT ![s].paid = FALSE])
Ends(s) ==
    /\ subs[s].status # "canceled"
    /\ Tell(s, "changed", [subs EXCEPT ![s].status = "canceled"])

-----------------------------------------------------------------------------
(* apply_event *)

StatusOf(sub) ==
    CASE sub.status = "canceled" -> "cancelled"
      [] sub.status = "past_due" -> "past_due"
      [] sub.status = "active" /\ sub.paid -> "active"
      [] OTHER -> "awaiting_payment"

\* The subscription a received event is about, 0 if the event is ignored.  The event of
\* a refund names none.
Target(i) ==
    LET incoming == IF events[i].kind = "refunded" THEN 0 ELSE events[i].sub
    IN  IF followed = 0 \/ incoming = 0 \/ incoming = followed
        THEN IF followed = 0 THEN incoming ELSE followed
        ELSE IF /\ events[i].kind = "created" /\ contract.status = "cancelled"
                /\ i > eventCreated
             THEN incoming ELSE 0

\* Fault: the event's own account of the subscription is applied.
ToldBy(i) == events[i].body
\* current_state
CurrentState(i) == subs[Target(i)]

\* Fault: every payment that is confirmed renews the usage.
StartsAnyPeriod(sub) == StatusOf(sub) = "active"
StartsPeriod(sub) == StatusOf(sub) = "active" /\ sub.end > renewal

ApplyEvent(i) ==
    /\ i \notin applied
    /\ applied' = applied \cup {i}
    /\ IF Target(i) = 0 THEN UNCHANGED <<contract, renewal, consumed, followed, eventCreated>>
       ELSE LET sub == CurrentState(i)
            IN  /\ followed' = Target(i)
                /\ eventCreated' = Max({eventCreated, i})
                /\ contract' = Terms(Paid, StatusOf(sub), FALSE, NoDates)
                /\ IF StartsPeriod(sub) THEN renewal' = sub.end /\ consumed' = 0
                   ELSE UNCHANGED <<renewal, consumed>>
    /\ UNCHANGED <<provider, subs, events, day>>

Later ==
    /\ day < MaxTime
    /\ day' = day + 1
    /\ UNCHANGED <<accountVars, subs, events>>

-----------------------------------------------------------------------------

Plan == 0..Enterprise
Mock ==
    \/ \E plan \in Plan : Upgrade(plan) \/ StartTrial(plan) \/ Downgrade(plan)
    \/ PaymentFailed \/ PaymentRecovered
    \/ \E expires \in 1..MaxTime : Override(expires)
Stripe ==
    \/ Checkout
    \/ \E s \in DOMAIN subs :
          Pays(s) \/ Refunds(s) \/ Ends(s) \/ \E paid \in BOOLEAN : Renews(s, paid)
    \/ \E i \in DOMAIN events : ApplyEvent(i)
Metered == Read \/ UseExecution \/ Later
BillingNext == Mock \/ Stripe \/ Metered

BillingSpec == BillingInit /\ [][BillingNext]_billingVars

-----------------------------------------------------------------------------
(* Properties *)

\* Used capacity comes back only with a new period: whatever is bought, tried, cancelled,
\* lost or told again, the count falls only as the boundary moves on from one that has
\* passed, or to the end of a further period that Stripe was paid for.
UsageRenewsOnce ==
    [][consumed' < consumed =>
        /\ renewal' > renewal
        /\ \/ renewal <= day
           \/ \E s \in DOMAIN subs : subs[s].paid /\ subs[s].end = renewal']_billingVars

\* Webhooks may come in any order, late or more than once: when all that were sent of the
\* subscription the account follows have come, the account says what Stripe says.
OfFollowed(i) == events[i].sub = followed
FollowedIsCurrent ==
    followed # 0 /\ (\A i \in DOMAIN events : OfFollowed(i) => i \in applied) =>
        contract.status = StatusOf(subs[followed])

\* When every event has come, an account is not cancelled while the customer pays for a
\* subscription: "webhook delivery order is not a billing clock".
NoPaidSubscriptionIsLost ==
    applied = DOMAIN events /\ contract.status = "cancelled" =>
        \A s \in DOMAIN subs : StatusOf(subs[s]) # "active"

-----------------------------------------------------------------------------
(* The inductive invariant behind the proofs                                *)

Subscribed == [status : {"incomplete", "active", "past_due", "canceled"}, paid : BOOLEAN,
               end : Nat]
Told == [sub : Nat \ {0}, kind : {"created", "changed", "refunded"}, body : Subscribed]

BillingTypes ==
    /\ provider \in {"mock", "stripe"}
    /\ renewal \in Nat /\ consumed \in Nat /\ day \in Nat
    /\ subs \in Seq(Subscribed) /\ events \in Seq(Told)
    /\ applied \subseteq DOMAIN events

\* Only Stripe has subscriptions; events and the account name those it has, and the
\* clock changes nothing in the contract of an account that follows one.
FollowingInv ==
    /\ provider = "mock" => subs = <<>>
    /\ \A i \in DOMAIN events : events[i].sub \in DOMAIN subs
    /\ followed # 0 => followed \in DOMAIN subs /\ contract.dates = NoDates

BillingInv == BillingTypes /\ FollowingInv /\ FollowedIsCurrent
=============================================================================
