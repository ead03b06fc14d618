------------------------------ MODULE Billing ------------------------------
(***************************************************************************)
(* The plan of ONE organization: its Subscription row, Stripe's customer,  *)
(* subscription and events (external; events are repeated until answered,  *)
(* in any order), the sends the plan limits, and the monthly reset.        *)
(* handleWebhookEvent marks an event in Redis BEFORE it is applied, so one *)
(* that fails halfway is ignored when Stripe sends it again.               *)
(***************************************************************************)
EXTENDS Integers, FiniteSets

CONSTANTS
    Requesters,          \* requests in flight: sends and checkouts
    NumStripeEvents,      \* bound: Stripe events
    MaxMonths,      \* bound: months that begin
    MaxSends,       \* bound: offers sent
    MaxBillingFaults,      \* bound: crashes, failures, reordered events, lapsed locks
    FreeLimit, PaidLimit    \* offers a month (admin settings)

ASSUME BillingAssumption ==
    /\ NumStripeEvents \in Nat /\ MaxMonths \in Nat \ {0} /\ MaxSends \in Nat /\ MaxBillingFaults \in Nat
    /\ FreeLimit \in Nat /\ PaidLimit \in Nat /\ FreeLimit <= PaidLimit
    /\ IsFiniteSet(Requesters) /\ Requesters # {}

StripeEventId    == 1..NumStripeEvents
CustomerId == 1..Cardinality(Requesters) + MaxBillingFaults
NoCustomer == 0
NoSub      == [customer |-> NoCustomer, plan |-> "FREE", status |-> "none"]
NoRow      == [exists |-> FALSE, customer |-> NoCustomer, plan |-> "FREE", status |-> "TRIALING",
               count |-> 0, reset |-> 0]
NoEvent    == [kind |-> "none", sub |-> NoSub, at |-> "done"]
NoRequest  == [at |-> "idle", customer |-> NoCustomer]

VARIABLES
    subscription,   \* the row: customer, plan, status, monthlyOfferCount, lastUsageReset
    sub,            \* Stripe's subscription, as it is
    customers,      \* Stripe customers created for the organization
    stripeEvent,    \* Stripe's events: what each carries, and how far its handler is
    marked,         \* stripe:webhook:event:<id>, in Redis
    customerLock,   \* stripe:lock:customer_create:<org>, in Redis: whether it is held
    request,        \* requests in flight
    month,
    sends,          \* offers sent this month, and those of earlier months that still count
    disturbances    \* faults so far

billingVars == <<subscription, sub, customers, stripeEvent, marked, customerLock, request, month, sends,
                 disturbances>>
stripeVars == <<sub, customers, stripeEvent, marked>>

-----------------------------------------------------------------------------
(* Plausible bugs, each a form of a definition below (README.md, Mutants). *)

OneMore(count, limit) == count > limit              \* Exceeds: off by one
OnlyActive(status)    == status = "ACTIVE"          \* Resets: not the others
NeverHeld(held)       == FALSE                      \* Held: no lock
PlanOnly(r)           == [r EXCEPT !.plan = "FREE"]   \* Canceled: forgets the status

-----------------------------------------------------------------------------
(* SendOfferService.send, as far as the plan goes.                         *)

ActiveStatus(status) == status \in {"ACTIVE", "TRIALING", "PAST_DUE"}
PlanLimit(r)       == IF ActiveStatus(r.status) /\ r.plan = "PAID" THEN PaidLimit ELSE FreeLimit
Exceeds(count, limit) == count >= limit

Turn(p, from, to) == request[p].at = from /\ request' = [request EXCEPT ![p].at = to]

AssertCanSend(p) ==
    /\ sends.now + sends.before < MaxSends
    /\ ~Exceeds(subscription.count, PlanLimit(subscription))
    /\ Turn(p, "idle", "checked")
    /\ UNCHANGED <<subscription, stripeVars, customerLock, month, sends, disturbances>>

\* Or the draft is not fit to be sent after all.
CommitSend(p) ==
    /\ \/ Turn(p, "checked", "count") /\ sends' = [sends EXCEPT !.now = @ + 1]
       \/ Turn(p, "checked", "idle") /\ UNCHANGED sends
    /\ UNCHANGED <<subscription, stripeVars, customerLock, month, disturbances>>

IncrementOfferCount(p) ==
    /\ Turn(p, "count", "idle")
    /\ subscription' = [subscription EXCEPT !.exists = TRUE, !.count = @ + 1]
    /\ UNCHANGED <<stripeVars, customerLock, month, sends, disturbances>>

Resets(status) == ActiveStatus(status)
DueForReset(r) == r.exists /\ r.reset < month

\* The cron of the first of the month, or a late one.
ResetMonthlyCount ==
    /\ DueForReset(subscription) /\ Resets(subscription.status)
    /\ subscription' = [subscription EXCEPT !.count = 0, !.reset = month]
    /\ sends' = [now |-> 0, before |-> 0]
    /\ UNCHANGED <<stripeVars, customerLock, request, month, disturbances>>

NextMonth ==
    /\ month < MaxMonths
    /\ month' = month + 1
    /\ sends' = [now |-> 0, before |-> sends.before + sends.now]
    /\ UNCHANGED <<subscription, stripeVars, customerLock, request, disturbances>>

-----------------------------------------------------------------------------
(* getOrCreateCustomer, and the checkout that needs it.                    *)

\* The polls of one that waits for the lock are one step; they may give up.
Checkout(p) ==
    /\ \/ subscription.customer # NoCustomer /\ sub.status = "none"
          /\ request[p].at \in {"idle", "wait"}
          /\ request' = [request EXCEPT ![p] = [at |-> "pay", customer |-> subscription.customer]]
       \/ subscription.customer = NoCustomer /\ Turn(p, "idle", "lock")
       \/ subscription.customer = NoCustomer /\ Turn(p, "wait", "idle")
    /\ UNCHANGED <<subscription, stripeVars, customerLock, month, sends, disturbances>>

LockHeld(held) == held

AcquireLock(p) ==
    /\ IF LockHeld(customerLock) THEN Turn(p, "lock", "wait") /\ UNCHANGED customerLock
       ELSE Turn(p, "lock", "create") /\ customerLock' = TRUE
    /\ UNCHANGED <<subscription, stripeVars, month, sends, disturbances>>

\* Looks once more, and creates.
CreateCustomer(p) ==
    /\ request[p].at = "create"
    /\ IF subscription.customer # NoCustomer
       THEN /\ request' = [request EXCEPT ![p] = [at |-> "unlock", customer |-> subscription.customer]]
            /\ UNCHANGED customers
       ELSE /\ customers' = customers + 1
            /\ request' = [request EXCEPT ![p] = [at |-> "store", customer |-> customers + 1]]
    /\ UNCHANGED <<subscription, sub, stripeEvent, marked, customerLock, month, sends, disturbances>>

SetStripeCustomerId(p) ==
    /\ Turn(p, "store", "unlock")
    /\ subscription' = [subscription EXCEPT !.exists = TRUE, !.customer = request[p].customer]
    /\ UNCHANGED <<stripeVars, customerLock, month, sends, disturbances>>

\* By key: whoever's lock it is by now.
ReleaseLock(p) ==
    /\ Turn(p, "unlock", "pay") /\ customerLock' = FALSE
    /\ UNCHANGED <<subscription, stripeVars, month, sends, disturbances>>

\* Ten seconds: free when its holder is dead, a fault when it still runs.
LockLapses ==
    /\ customerLock /\ customerLock' = FALSE
    /\ LET alive == \E p \in Requesters : request[p].at \in {"create", "store", "unlock"}
       IN  /\ alive => disturbances < MaxBillingFaults
           /\ disturbances' = IF alive THEN disturbances + 1 ELSE disturbances
    /\ UNCHANGED <<subscription, stripeVars, request, month, sends>>

\* Errors end in the finally, which releases the lock; deaths do not.  A count
\* that fails is logged.
RequestFails(p) ==
    /\ disturbances < MaxBillingFaults /\ disturbances' = disturbances + 1
    /\ request[p].at \in {"count", "create", "store", "unlock"}
    /\ request' = [request EXCEPT ![p] = NoRequest]
    /\ \/ UNCHANGED customerLock
       \/ request[p].at \in {"create", "store"} /\ customerLock' = FALSE
    /\ UNCHANGED <<subscription, stripeVars, month, sends>>

-----------------------------------------------------------------------------
(* Stripe.                                                                 *)

Unused == {e \in StripeEventId : stripeEvent[e].kind = "none"}

Emit(kind, snapshot) ==
    /\ Unused # {}
    /\ stripeEvent' = [stripeEvent EXCEPT ![CHOOSE e \in Unused : \A f \in Unused : e <= f] =
                    [kind |-> kind, sub |-> snapshot, at |-> "pending"]]

Changes(kind, next) ==
    /\ Emit(kind, next) /\ sub' = next
    /\ UNCHANGED <<subscription, customers, marked, customerLock, month, sends, disturbances>>

Subscribe(p) ==
    /\ sub.status = "none"
    /\ Turn(p, "pay", "idle")
    /\ Changes("updated", [customer |-> request[p].customer, plan |-> "PAID", status |-> "active"])

\* The customer leaves the checkout.
Abandon(p) ==
    /\ Turn(p, "pay", "idle")
    /\ UNCHANGED <<subscription, stripeVars, customerLock, month, sends, disturbances>>

Unpaid ==
    /\ sub.status = "active" /\ Changes("updated", [sub EXCEPT !.status = "past_due"])
    /\ UNCHANGED request

Cancelled ==
    /\ sub.status \in {"active", "past_due"} /\ Changes("deleted", [sub EXCEPT !.status = "canceled"])
    /\ UNCHANGED request

\* invoice.payment_succeeded or payment_failed; it carries no subscription.
Invoice ==
    /\ sub.status # "none"
    /\ \E kind \in {"paid", "failed"} : Emit(kind, NoSub)
    /\ UNCHANGED <<subscription, sub, customers, marked, customerLock, request, month, sends, disturbances>>

-----------------------------------------------------------------------------
(* handleWebhookEvent.                                                     *)

Turned(e, from, to) == stripeEvent[e].at = from /\ stripeEvent' = [stripeEvent EXCEPT ![e].at = to]
EarlierOpen(e) == \E f \in StripeEventId : f < e /\ stripeEvent[f].at # "done"

\* In Redis before anything is done; a repeated one is ignored.  Stripe sends
\* events in any order: out of order is a fault.
Mark(e) ==
    /\ IF e \in marked THEN Turned(e, "pending", "done") ELSE Turned(e, "pending", "apply")
    /\ marked' = marked \cup {e}
    /\ EarlierOpen(e) => disturbances < MaxBillingFaults
    /\ disturbances' = IF EarlierOpen(e) THEN disturbances + 1 ELSE disturbances
    /\ UNCHANGED <<subscription, sub, customers, customerLock, request, month, sends>>

\* retrieve, or list, which leaves canceled ones out.
Retrieve(e) ==
    /\ stripeEvent[e].at = "apply" /\ stripeEvent[e].kind \in {"paid", "failed"}
    /\ stripeEvent' = [stripeEvent EXCEPT ![e] =
                   IF @.kind = "failed" /\ sub.status = "canceled" THEN [@ EXCEPT !.at = "done"]
                   ELSE [kind |-> "updated", sub |-> sub, at |-> "apply"]]
    /\ UNCHANGED <<subscription, sub, customers, marked, customerLock, request, month, sends, disturbances>>

ResolveStatus(status) ==
    CASE status = "active"   -> "ACTIVE"
      [] status = "canceled" -> "CANCELED"
      [] OTHER               -> "PAST_DUE"

\* The row of the customer; nobody's is only logged.
Synced(r, snapshot) ==
    IF r.customer = snapshot.customer
    THEN [r EXCEPT !.plan = snapshot.plan, !.status = ResolveStatus(snapshot.status)] ELSE r

Canceled(r) == [r EXCEPT !.plan = "FREE", !.status = "CANCELED"]

Apply(e) ==
    /\ stripeEvent[e].kind \in {"updated", "deleted"}
    /\ Turned(e, "apply", "done")
    /\ subscription' = IF stripeEvent[e].kind = "updated" THEN Synced(subscription, stripeEvent[e].sub)
              ELSE IF subscription.customer = stripeEvent[e].sub.customer THEN Canceled(subscription)
                       ELSE subscription
    /\ UNCHANGED <<sub, customers, marked, customerLock, request, month, sends, disturbances>>

\* Not answered: Stripe sends it again, marked as it is.
StripeHandlerFails(e) ==
    /\ disturbances < MaxBillingFaults /\ disturbances' = disturbances + 1
    /\ Turned(e, "apply", "pending")
    /\ UNCHANGED <<subscription, sub, customers, marked, customerLock, request, month, sends>>

\* resyncFromStripe, by an administrator.
Resync ==
    /\ subscription.customer # NoCustomer /\ sub.customer = subscription.customer
    /\ subscription' = Synced(subscription, sub)
    /\ UNCHANGED <<stripeVars, customerLock, request, month, sends, disturbances>>

-----------------------------------------------------------------------------
BillingInit ==
    /\ subscription = NoRow
    /\ sub = NoSub
    /\ customers = 0
    /\ stripeEvent = [e \in StripeEventId |-> NoEvent]
    /\ marked = {}
    /\ customerLock = FALSE
    /\ request = [p \in Requesters |-> NoRequest]
    /\ month = 1
    /\ sends = [now |-> 0, before |-> 0]
    /\ disturbances = 0

RequestStep(p) ==
    \/ AssertCanSend(p) \/ CommitSend(p) \/ IncrementOfferCount(p)
    \/ Checkout(p) \/ AcquireLock(p) \/ CreateCustomer(p) \/ SetStripeCustomerId(p) \/ ReleaseLock(p)
    \/ RequestFails(p) \/ Subscribe(p) \/ Abandon(p)

StripeHandler(e) == Mark(e) \/ Retrieve(e) \/ Apply(e) \/ StripeHandlerFails(e)

BillingNext ==
    \/ \E p \in Requesters : RequestStep(p)
    \/ \E e \in StripeEventId : StripeHandler(e)
    \/ LockLapses \/ Unpaid \/ Cancelled \/ Invoice
    \/ Resync \/ ResetMonthlyCount \/ NextMonth

BillingSpec == BillingInit /\ [][BillingNext]_billingVars

\* The cron is retried until it has run.
FairBilling == BillingSpec /\ WF_billingVars(ResetMonthlyCount)

-----------------------------------------------------------------------------
\* Undisturbed, and with every event answered, the plan is what Stripe says:
\* a cancellation leaves the FREE plan, a payment restores the paid one.
Answered == \A e \in StripeEventId : stripeEvent[e].at = "done"

PlanFollowsStripe ==
    disturbances = 0 /\ Answered /\ sub.status # "none" =>
        /\ subscription.customer = sub.customer
        /\ subscription.status = ResolveStatus(sub.status)
        /\ PlanLimit(subscription) = IF sub.status = "canceled" THEN FreeLimit ELSE PaidLimit

\* More is sent in a month than any plan allows only by sends that overlap,
\* or whose count was lost.
OverLimitNeedsOverlap ==
    sends.now + sends.before <= PaidLimit + (Cardinality(Requesters) - 1) + disturbances

\* The lock keeps checkouts from creating two customers, unless it lapsed or
\* a checkout died halfway.
OneCustomer == customers <= 1 + disturbances

\* The sends of earlier months stop counting, unless the plan was canceled.
QuotaRefreshes ==
    sends.before > 0 /\ subscription.exists /\ subscription.status # "CANCELED"
        ~> sends.before = 0 \/ subscription.status = "CANCELED"
=============================================================================
