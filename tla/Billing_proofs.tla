--------------------------- MODULE Billing_proofs ---------------------------
(***************************************************************************)
(* With any number of requests, events, months and faults: a second Stripe *)
(* customer, or a send above every plan's limit, is paid for by a fault or *)
(* an overlap, and without a fault the plan is what Stripe says once every *)
(* event is answered.                                                      *)
(*                                                                         *)
(* The first two count.  A customer may still be created by whoever is     *)
(* about to, and by the next to take the lock if nobody alive holds it;    *)
(* what is sent is counted already, or by a request that is about to.      *)
(***************************************************************************)
EXTENDS Billing, FiniteSetTheorems, WellFoundedInduction, TLAPS

IsRequest(r) == r = [at |-> r.at, customer |-> r.customer]

IsPlan(r) ==
    /\ r = [exists |-> r.exists, customer |-> r.customer, plan |-> r.plan, status |-> r.status,
            count |-> r.count, reset |-> r.reset]
    /\ r.count \in Nat

Number(step) == Cardinality({p \in Requesters : request[p].at = step})
Alive == \E p \in Requesters : request[p].at \in {"create", "store", "unlock"}
Free  == IF customerLock /\ Alive THEN 0 ELSE 1
Total == sends.now + sends.before

\* What p's move to r makes of the number at a step.
Moved(step, p, r) ==
    /\ r.at = step /\ request[p].at # step => Number(step)' = Number(step) + 1
    /\ r.at # step /\ request[p].at = step => Number(step)' = Number(step) - 1
    /\ (r.at = step <=> request[p].at = step) => Number(step)' = Number(step)

Shape ==
    /\ request = [p \in Requesters |-> request[p]] /\ \A p \in Requesters : IsRequest(request[p])
    /\ IsPlan(subscription)
    /\ sends = [now |-> sends.now, before |-> sends.before] /\ sends.now \in Nat /\ sends.before \in Nat
    /\ customers \in Nat /\ disturbances \in Nat

Customers ==
    /\ \A p \in Requesters : request[p].at = "store" => request[p].customer # NoCustomer
    /\ \A p \in Requesters : request[p].at = "unlock" => subscription.customer # NoCustomer
    /\ customers <= 1 + disturbances
    /\ subscription.customer = NoCustomer => customers + Number("create") + Free <= 1 + disturbances

Counted ==
    /\ Total <= subscription.count + Number("count") + disturbances
    /\ Total + Number("checked") <= PaidLimit + (Cardinality(Requesters) - 1) + disturbances

BillingInv == Shape /\ Customers /\ Counted

-----------------------------------------------------------------------------
LEMMA Given ==
    /\ FreeLimit \in Nat /\ PaidLimit \in Nat /\ FreeLimit <= PaidLimit
    /\ IsFiniteSet(Requesters) /\ Cardinality(Requesters) \in Nat /\ Cardinality(Requesters) >= 1
<1>1. IsFiniteSet(Requesters) /\ Requesters # {}
  BY BillingAssumption
<1>2. Cardinality(Requesters) \in Nat /\ Cardinality(Requesters) # 0
  BY <1>1, FS_CardinalityType, FS_EmptySet
<1> QED
  BY <1>1, <1>2, BillingAssumption

LEMMA NumberIsNat ==
    ASSUME NEW step PROVE IsFiniteSet({p \in Requesters : request[p].at = step}) /\ Number(step) \in Nat
<1>1. IsFiniteSet({p \in Requesters : request[p].at = step})
  BY Given, FS_Subset
<1> QED
  BY <1>1, FS_CardinalityType DEF Number

\* A request that moves leaves one step, and enters another.
LEMMA NumberMoves ==
    ASSUME Shape, NEW p \in Requesters, NEW r, request' = [request EXCEPT ![p] = r], NEW step
    PROVE  Moved(step, p, r)
<1> DEFINE S == {q \in Requesters : request[q].at = step}
           T == {q \in Requesters : request'[q].at = step}
<1>1. \A q \in Requesters : request'[q] = IF q = p THEN r ELSE request[q]
  BY DEF Shape
<1>2. IsFiniteSet(S) /\ Cardinality(S) \in Nat /\ Number(step) = Cardinality(S) /\ Number(step)' = Cardinality(T)
  BY NumberIsNat DEF Number
<1>3. CASE r.at = step /\ request[p].at # step
  <2>1. T = S \cup {p} /\ p \notin S
    BY <1>1, <1>3
  <2> HIDE DEF S, T
  <2>2. Cardinality(T) = Cardinality(S) + 1
    BY <1>2, <2>1, FS_AddElement
  <2> QED
    BY <1>2, <1>3, <2>2 DEF Moved
<1>4. CASE r.at # step /\ request[p].at = step
  <2>1. T = S \ {p} /\ p \in S
    BY <1>1, <1>4
  <2> HIDE DEF S, T
  <2> QED
    BY <1>2, <1>4, <2>1, FS_RemoveElement DEF Moved
<1>5. CASE (r.at = step) <=> (request[p].at = step)
  <2>1. T = S
    BY <1>1, <1>5
  <2> HIDE DEF S, T
  <2> QED
    BY <1>2, <1>5, <2>1 DEF Moved
<1> QED
  BY <1>3, <1>4, <1>5

\* Whoever counts, or has checked, is not idle.
LEMMA Others ==
    ASSUME NEW p \in Requesters, request[p].at = "idle"
    PROVE  Number("count") + Number("checked") <= Cardinality(Requesters) - 1
<1> DEFINE S == {q \in Requesters : request[q].at = "count"}
           T == {q \in Requesters : request[q].at = "checked"}
           O == Requesters \ {p}
<1>1. IsFiniteSet(S) /\ IsFiniteSet(T) /\ Number("count") = Cardinality(S) /\ Number("checked") = Cardinality(T)
  BY NumberIsNat DEF Number
<1>2. IsFiniteSet(O) /\ Cardinality(O) = Cardinality(Requesters) - 1
  BY Given, FS_RemoveElement
<1>3. S \cup T \subseteq O /\ S \cap T = {}
  OBVIOUS
<1> HIDE DEF S, T, O
<1>4. Cardinality(S \cup T) <= Cardinality(O)
  BY <1>2, <1>3, FS_Subset
<1>5. Cardinality(S \cup T) = Cardinality(S) + Cardinality(T) - Cardinality(S \cap T)
  BY <1>1, FS_Union
<1>6. Cardinality(S \cap T) = 0 /\ Cardinality(S) \in Nat /\ Cardinality(T) \in Nat
  BY <1>1, <1>3, FS_EmptySet, FS_CardinalityType
<1> QED
  BY <1>1, <1>2, <1>4, <1>5, <1>6, Given

LEMMA FirstState == ASSUME BillingInit PROVE BillingInv
<1>1. \A p \in Requesters : request[p].at = "idle" /\ IsRequest(request[p])
  BY DEF BillingInit, NoRequest, IsRequest
<1>2. Number("create") = 0 /\ Number("count") = 0 /\ Number("checked") = 0
  <2>1. \A step \in {"create", "count", "checked"} : {p \in Requesters : request[p].at = step} = {}
    BY <1>1
  <2> QED
    BY <2>1, FS_EmptySet DEF Number
<1>3. Shape
  BY <1>1 DEF BillingInit, Shape, IsPlan, NoRow
<1>4. Customers
  BY <1>1, <1>2 DEF BillingInit, Customers, Free
<1>5. Total = 0 /\ subscription.count = 0 /\ disturbances = 0
  BY DEF BillingInit, Total, NoRow
<1>6. Counted
  BY <1>2, <1>5, Given DEF Counted
<1> QED
  BY <1>3, <1>4, <1>6 DEF BillingInv

-----------------------------------------------------------------------------
LEMMA Later ==
    \A n, d, e \in Nat : n <= 1 + d /\ d <= e => n <= 1 + e
  OBVIOUS

LEMMA PaidFor ==
    \A n, c, f, g, d, e \in Nat : n + c + f <= 1 + d /\ g + d <= f + e => n + c + g <= 1 + e
  OBVIOUS

\* What Stripe, its events and an administrator do to the plan.
LEMMA PlanChanges ==
    ASSUME BillingInv, UNCHANGED <<request, customerLock, customers, sends>>, IsPlan(subscription'),
           subscription'.customer = subscription.customer, subscription'.count = subscription.count,
           disturbances' = disturbances \/ disturbances' = disturbances + 1
    PROVE  BillingInv'
<1>1. disturbances' \in Nat /\ disturbances <= disturbances' /\ customers \in Nat /\ sends.now \in Nat /\ sends.before \in Nat
      /\ disturbances \in Nat /\ subscription.count \in Nat
  BY DEF BillingInv, Shape, IsPlan
<1>2. /\ Number("create")' = Number("create") /\ Number("count")' = Number("count")
      /\ Number("checked")' = Number("checked") /\ Free' = Free /\ Total' = Total
  BY DEF Number, Free, Alive, Total
<1>3. /\ Number("create") \in Nat /\ Number("count") \in Nat /\ Number("checked") \in Nat /\ Free \in Nat /\ Total \in Nat
  <2>1. \A step \in {"create", "count", "checked"} : Number(step) \in Nat
    BY NumberIsNat
  <2>2. Free \in Nat /\ Total \in Nat
    BY <1>1 DEF Free, Total
  <2> QED
    BY <2>1, <2>2
<1>4. Shape'
  BY <1>1 DEF BillingInv, Shape
<1>5. Customers'
  <2>1. \A q \in Requesters : request'[q].at = "store" => request'[q].customer # NoCustomer
    BY DEF BillingInv, Customers
  <2>2. \A q \in Requesters : request'[q].at = "unlock" => subscription'.customer # NoCustomer
    BY DEF BillingInv, Customers
  <2>3. customers' <= 1 + disturbances'
    <3>1. customers' = customers /\ customers <= 1 + disturbances
      BY DEF BillingInv, Customers
    <3> QED
      BY <1>1, <3>1, Later
  <2>4. subscription'.customer = NoCustomer => customers' + Number("create")' + Free' <= 1 + disturbances'
    BY <1>1, <1>2, <1>3 DEF BillingInv, Customers
  <2> QED
    BY <2>1, <2>2, <2>3, <2>4 DEF Customers
<1>6. Counted'
  BY <1>1, <1>2, <1>3, Given DEF BillingInv, Counted
<1> QED
  BY <1>4, <1>5, <1>6 DEF BillingInv

\* A request goes on.
LEMMA RequestMoves ==
    ASSUME BillingInv, NEW p \in Requesters, NEW r, IsRequest(r), request' = [request EXCEPT ![p] = r],
           IsPlan(subscription'), sends' = [now |-> sends'.now, before |-> sends'.before],
           sends'.now \in Nat, sends'.before \in Nat, customers' \in Nat, disturbances' \in Nat,
           r.at = "store" => r.customer # NoCustomer,
           r.at = "unlock" => subscription'.customer # NoCustomer,
           subscription.customer # NoCustomer => subscription'.customer # NoCustomer,
           customers' <= 1 + disturbances',
           subscription'.customer = NoCustomer =>
               customers' + Number("create")' + Free' <= 1 + disturbances',
           Counted'
    PROVE  BillingInv'
<1>1. request = [q \in Requesters |-> request[q]] /\ \A q \in Requesters : IsRequest(request[q])
  BY DEF BillingInv, Shape
<1>2. request' = [q \in Requesters |-> request'[q]] /\ \A q \in Requesters : request'[q] = IF q = p THEN r ELSE request[q]
  BY <1>1
<1>3. Shape'
  BY <1>1, <1>2 DEF Shape
<1>4. Customers'
  BY <1>2 DEF BillingInv, Customers
<1> QED
  BY <1>3, <1>4 DEF BillingInv

LEMMA TurnMoves ==
    ASSUME Shape, NEW p \in Requesters, NEW from, NEW to, Turn(p, from, to)
    PROVE  /\ request[p].at = from /\ IsRequest([at |-> to, customer |-> request[p].customer])
           /\ request' = [request EXCEPT ![p] = [at |-> to, customer |-> request[p].customer]]
<1>1. request[p] = [at |-> request[p].at, customer |-> request[p].customer]
  BY DEF Shape, IsRequest
<1>2. request[p].at = from /\ request' = [request EXCEPT ![p].at = to]
  BY DEF Turn
<1>3. [request[p] EXCEPT !.at = to] = [at |-> to, customer |-> request[p].customer]
  BY <1>1
<1>4. [request EXCEPT ![p].at = to] = [request EXCEPT ![p] = [request[p] EXCEPT !.at = to]]
  BY DEF Shape
<1> QED
  BY <1>2, <1>3, <1>4 DEF IsRequest

\* The numbers there are, before and after a move.
LEMMA Numbers ==
    ASSUME BillingInv, NEW p \in Requesters, NEW r, request' = [request EXCEPT ![p] = r]
    PROVE  /\ Number("create") \in Nat /\ Number("count") \in Nat /\ Number("checked") \in Nat
           /\ Moved("create", p, r) /\ Moved("count", p, r) /\ Moved("checked", p, r)
           /\ subscription.count \in Nat /\ sends.now \in Nat /\ sends.before \in Nat
           /\ customers \in Nat /\ disturbances \in Nat /\ Free \in {0, 1} /\ Free' \in {0, 1}
           /\ Total \in Nat
<1>1. Shape
  BY DEF BillingInv
<1>2. \A step \in {"create", "count", "checked"} : Number(step) \in Nat
  BY NumberIsNat
<1>3. Moved("create", p, r) /\ Moved("count", p, r) /\ Moved("checked", p, r)
  BY <1>1, NumberMoves
<1>4. subscription.count \in Nat /\ sends.now \in Nat /\ sends.before \in Nat
      /\ customers \in Nat /\ disturbances \in Nat
  BY <1>1 DEF Shape, IsPlan
<1>5. Total \in Nat
  BY <1>4 DEF Total
<1>6. Free \in {0, 1} /\ Free' \in {0, 1}
  BY DEF Free
<1> QED
  BY <1>2, <1>3, <1>4, <1>5, <1>6

\* A move that neither holds nor waits for the lock says nothing of customers.
LEMMA QuietMoves ==
    ASSUME BillingInv, NEW p \in Requesters, NEW r, IsRequest(r), request' = [request EXCEPT ![p] = r],
           request[p].at \notin {"create", "store", "unlock"}, r.at \notin {"create", "store", "unlock"},
           UNCHANGED <<customerLock, customers, disturbances>>,
           IsPlan(subscription'), subscription'.customer = subscription.customer,
           sends' = [now |-> sends'.now, before |-> sends'.before],
           sends'.now \in Nat, sends'.before \in Nat, Counted'
    PROVE  BillingInv'
<1>1. \A q \in Requesters : request'[q] = IF q = p THEN r ELSE request[q]
  BY DEF BillingInv, Shape
<1>2. Alive' <=> Alive
  BY <1>1 DEF Alive
<1>3. Free' = Free
  BY <1>2 DEF Free
<1>4. Number("create")' = Number("create")
  <2>1. Moved("create", p, r)
    BY Numbers
  <2> QED
    BY <2>1 DEF Moved
<1>5. customers' = customers /\ disturbances' = disturbances /\ customers \in Nat /\ disturbances \in Nat
  BY Numbers
<1>6. customers <= 1 + disturbances
      /\ (subscription.customer = NoCustomer => customers + Number("create") + Free <= 1 + disturbances)
  BY DEF BillingInv, Customers
<1>7. customers' <= 1 + disturbances'
      /\ (subscription'.customer = NoCustomer => customers' + Number("create")' + Free' <= 1 + disturbances')
  BY <1>3, <1>4, <1>5, <1>6
<1> QED
  BY <1>5, <1>7, RequestMoves

-----------------------------------------------------------------------------
LEMMA CheckedOnce ==
    ASSUME BillingInv, NEW p \in Requesters, AssertCanSend(p) PROVE BillingInv'
<1> DEFINE r == [at |-> "checked", customer |-> request[p].customer]
<1>1. request[p].at = "idle" /\ IsRequest(r) /\ request' = [request EXCEPT ![p] = r] /\ Shape
  BY TurnMoves DEF AssertCanSend, BillingInv
<1>2. UNCHANGED <<subscription, customerLock, customers, sends, disturbances>>
  BY DEF AssertCanSend, stripeVars
<1>3. IsPlan(subscription') /\ sends' = [now |-> sends'.now, before |-> sends'.before]
      /\ sends'.now \in Nat /\ sends'.before \in Nat
  BY <1>1, <1>2 DEF Shape
<1>4. r.at = "checked"
  OBVIOUS
<1> HIDE DEF r
<1>5. /\ Number("count")' = Number("count") /\ Number("checked")' = Number("checked") + 1
      /\ Number("count") \in Nat /\ Number("checked") \in Nat /\ Total \in Nat
      /\ subscription.count \in Nat /\ disturbances \in Nat
  <2>1. Moved("count", p, r) /\ Moved("checked", p, r)
    BY <1>1, Numbers
  <2>2. request[p].at \notin {"count", "checked"} /\ r.at # "count"
    BY <1>1, <1>4
  <2>3. Number("count")' = Number("count") /\ Number("checked")' = Number("checked") + 1
    BY <1>4, <2>1, <2>2 DEF Moved
  <2> QED
    BY <1>1, <2>3, Numbers
<1>6. subscription.count < PaidLimit
  BY <1>5, Given DEF AssertCanSend, Exceeds, PlanLimit
<1>7. Number("count") + Number("checked") <= Cardinality(Requesters) - 1
  BY <1>1, Others
<1>8. Total' = Total
  BY <1>2 DEF Total
<1>9. Counted'
  <2>1. Total <= subscription.count + Number("count") + disturbances
    BY DEF BillingInv, Counted
  <2>2. Total + (Number("checked") + 1) <= PaidLimit + (Cardinality(Requesters) - 1) + disturbances
    BY <1>5, <1>6, <1>7, <2>1, Given
  <2>3. subscription' = subscription /\ disturbances' = disturbances
    BY <1>2
  <2> QED
    BY <1>5, <1>8, <2>1, <2>2, <2>3 DEF Counted
<1> QED
  BY <1>1, <1>2, <1>3, <1>4, <1>9, QuietMoves

LEMMA CommittedOrNot ==
    ASSUME BillingInv, NEW p \in Requesters, CommitSend(p) PROVE BillingInv'
<1>1. UNCHANGED <<subscription, customerLock, customers, disturbances>>
  BY DEF CommitSend, stripeVars
<1>2. Shape /\ IsPlan(subscription') /\ sends = [now |-> sends.now, before |-> sends.before]
  BY <1>1 DEF BillingInv, Shape
<1>3. CASE Turn(p, "checked", "count") /\ sends' = [sends EXCEPT !.now = @ + 1]
  <2> DEFINE r == [at |-> "count", customer |-> request[p].customer]
  <2>1. request[p].at = "checked" /\ IsRequest(r) /\ request' = [request EXCEPT ![p] = r]
    BY <1>2, <1>3, TurnMoves
  <2>2. r.at = "count"
    OBVIOUS
  <2> HIDE DEF r
  <2>3. Number("count")' = Number("count") + 1 /\ Number("checked")' = Number("checked") - 1
    <3>1. Moved("count", p, r) /\ Moved("checked", p, r)
      BY <2>1, Numbers
    <3> QED
      BY <2>1, <2>2, <3>1 DEF Moved
  <2>4. sends'.now = sends.now + 1 /\ sends'.before = sends.before
        /\ sends' = [now |-> sends'.now, before |-> sends'.before]
    BY <1>2, <1>3
  <2>5. /\ sends.now \in Nat /\ sends.before \in Nat /\ Number("count") \in Nat /\ Number("checked") \in Nat
        /\ subscription.count \in Nat /\ disturbances \in Nat
    BY <2>1, Numbers
  <2>6. Total' = Total + 1 /\ Total \in Nat /\ sends'.now \in Nat /\ sends'.before \in Nat
    BY <2>4, <2>5 DEF Total
  <2>7. subscription' = subscription /\ disturbances' = disturbances
    BY <1>1
  <2>8. Counted'
    <3>1. /\ Total <= subscription.count + Number("count") + disturbances
          /\ Total + Number("checked") <= PaidLimit + (Cardinality(Requesters) - 1) + disturbances
      BY DEF BillingInv, Counted
    <3> QED
      BY <2>3, <2>5, <2>6, <2>7, <3>1, Given DEF Counted
  <2> QED
    BY <1>1, <1>2, <2>1, <2>2, <2>4, <2>6, <2>7, <2>8, QuietMoves
<1>4. CASE Turn(p, "checked", "idle") /\ UNCHANGED sends
  <2> DEFINE r == [at |-> "idle", customer |-> request[p].customer]
  <2>1. request[p].at = "checked" /\ IsRequest(r) /\ request' = [request EXCEPT ![p] = r]
    BY <1>2, <1>4, TurnMoves
  <2>2. r.at = "idle"
    OBVIOUS
  <2> HIDE DEF r
  <2>3. Number("count")' = Number("count") /\ Number("checked")' = Number("checked") - 1
    <3>1. Moved("count", p, r) /\ Moved("checked", p, r)
      BY <2>1, Numbers
    <3> QED
      BY <2>1, <2>2, <3>1 DEF Moved
  <2>5. /\ sends.now \in Nat /\ sends.before \in Nat /\ Number("count") \in Nat /\ Number("checked") \in Nat
        /\ subscription.count \in Nat /\ disturbances \in Nat /\ Total \in Nat
    BY <2>1, Numbers
  <2>6. Total' = Total /\ sends' = sends
    BY <1>4 DEF Total
  <2>7. subscription' = subscription /\ disturbances' = disturbances
    BY <1>1
  <2>8. Counted'
    <3>1. /\ Total <= subscription.count + Number("count") + disturbances
          /\ Total + Number("checked") <= PaidLimit + (Cardinality(Requesters) - 1) + disturbances
      BY DEF BillingInv, Counted
    <3> QED
      BY <2>3, <2>5, <2>6, <2>7, <3>1, Given DEF Counted
  <2> QED
    BY <1>1, <1>2, <2>1, <2>2, <2>5, <2>6, <2>7, <2>8, QuietMoves
<1> QED
  BY <1>3, <1>4 DEF CommitSend

LEMMA CountedOnce ==
    ASSUME BillingInv, NEW p \in Requesters, IncrementOfferCount(p) PROVE BillingInv'
<1> DEFINE r == [at |-> "idle", customer |-> request[p].customer]
<1>1. UNCHANGED <<sends, customerLock, customers, disturbances>>
  BY DEF IncrementOfferCount, stripeVars
<1>2. Shape
  BY DEF BillingInv
<1>3. request[p].at = "count" /\ IsRequest(r) /\ request' = [request EXCEPT ![p] = r]
  BY <1>2, TurnMoves DEF IncrementOfferCount
<1>4. r.at = "idle"
  OBVIOUS
<1> HIDE DEF r
<1>5. subscription.count \in Nat /\ IsPlan(subscription)
  BY <1>2 DEF Shape, IsPlan
<1>6. subscription'.count = subscription.count + 1 /\ subscription'.customer = subscription.customer
      /\ IsPlan(subscription')
  <2>1. subscription = [exists |-> subscription.exists, customer |-> subscription.customer,
                        plan |-> subscription.plan, status |-> subscription.status,
                        count |-> subscription.count, reset |-> subscription.reset]
    BY <1>5 DEF IsPlan
  <2>2. subscription' = [subscription EXCEPT !.exists = TRUE, !.count = subscription.count + 1]
    BY DEF IncrementOfferCount
  <2>3. subscription' = [exists |-> TRUE, customer |-> subscription.customer,
                         plan |-> subscription.plan, status |-> subscription.status,
                         count |-> subscription.count + 1, reset |-> subscription.reset]
    BY <2>1, <2>2
  <2>4. subscription.count + 1 \in Nat
    BY <1>5
  <2> QED
    BY <2>3, <2>4 DEF IsPlan
<1>7. Number("count")' = Number("count") - 1 /\ Number("checked")' = Number("checked")
  <2>1. Moved("count", p, r) /\ Moved("checked", p, r)
    BY <1>3, Numbers
  <2> QED
    BY <1>3, <1>4, <2>1 DEF Moved
<1>8. /\ Number("count") \in Nat /\ Number("checked") \in Nat /\ disturbances \in Nat /\ Total \in Nat
  BY <1>3, Numbers
<1>9. Total' = Total /\ disturbances' = disturbances
  BY <1>1 DEF Total
<1>10. Counted'
  <2>1. /\ Total <= subscription.count + Number("count") + disturbances
        /\ Total + Number("checked") <= PaidLimit + (Cardinality(Requesters) - 1) + disturbances
    BY DEF BillingInv, Counted
  <2> QED
    BY <1>5, <1>6, <1>7, <1>8, <1>9, <2>1, Given DEF Counted
<1>11. sends' = [now |-> sends'.now, before |-> sends'.before] /\ sends'.now \in Nat /\ sends'.before \in Nat
  BY <1>1, <1>2 DEF Shape
<1> QED
  BY <1>1, <1>3, <1>4, <1>6, <1>10, <1>11, QuietMoves

\* A step from before the lock, or after it, of a request that sends nothing.
LEMMA MovesAside ==
    ASSUME BillingInv, NEW p \in Requesters, NEW r, IsRequest(r), request' = [request EXCEPT ![p] = r],
           request[p].at \notin {"create", "store", "unlock", "count", "checked"},
           r.at \notin {"create", "store", "unlock", "count", "checked"},
           UNCHANGED <<subscription, customerLock, customers, sends, disturbances>>
    PROVE  BillingInv'
<1>1. Shape /\ IsPlan(subscription') /\ sends' = [now |-> sends'.now, before |-> sends'.before]
      /\ sends'.now \in Nat /\ sends'.before \in Nat
  BY DEF BillingInv, Shape
<1>2. Number("count")' = Number("count") /\ Number("checked")' = Number("checked")
  <2>1. Moved("count", p, r) /\ Moved("checked", p, r)
    BY Numbers
  <2> QED
    BY <2>1 DEF Moved
<1>3. Total' = Total
  BY DEF Total
<1>4. subscription' = subscription /\ disturbances' = disturbances
  OBVIOUS
<1>5. Counted'
  <2>1. /\ Total <= subscription.count + Number("count") + disturbances
        /\ Total + Number("checked") <= PaidLimit + (Cardinality(Requesters) - 1) + disturbances
    BY DEF BillingInv, Counted
  <2> QED
    BY <1>2, <1>3, <1>4, <2>1 DEF Counted
<1> QED
  BY <1>1, <1>4, <1>5, QuietMoves

LEMMA ChecksOut ==
    ASSUME BillingInv, NEW p \in Requesters, Checkout(p) \/ Subscribe(p) \/ Abandon(p) PROVE BillingInv'
<1>1. UNCHANGED <<subscription, customerLock, customers, sends, disturbances>> /\ Shape
  BY DEF Checkout, Subscribe, Abandon, Changes, stripeVars, BillingInv
<1>2. CASE /\ request[p].at \in {"idle", "wait"}
           /\ request' = [request EXCEPT ![p] = [at |-> "pay", customer |-> subscription.customer]]
  <2> DEFINE r == [at |-> "pay", customer |-> subscription.customer]
  <2>1. IsRequest(r) /\ r.at = "pay" /\ request' = [request EXCEPT ![p] = r]
    BY <1>2 DEF IsRequest
  <2> HIDE DEF r
  <2> QED
    BY <1>1, <1>2, <2>1, MovesAside
<1>3. CASE \E from \in {"idle", "wait", "pay"}, to \in {"idle", "lock"} : Turn(p, from, to)
  <2>1. PICK from \in {"idle", "wait", "pay"}, to \in {"idle", "lock"} : Turn(p, from, to)
    BY <1>3
  <2> DEFINE r == [at |-> to, customer |-> request[p].customer]
  <2>2. request[p].at = from /\ IsRequest(r) /\ request' = [request EXCEPT ![p] = r]
    BY <1>1, <2>1, TurnMoves
  <2>3. r.at = to
    OBVIOUS
  <2> HIDE DEF r
  <2> QED
    BY <1>1, <2>1, <2>2, <2>3, MovesAside
<1> QED
  BY <1>2, <1>3 DEF Checkout, Subscribe, Abandon

-----------------------------------------------------------------------------
\* A request on its way to a customer: nothing is counted.
LEMMA NothingCounted ==
    ASSUME BillingInv, NEW p \in Requesters, NEW r, request' = [request EXCEPT ![p] = r],
           request[p].at \notin {"count", "checked"}, r.at \notin {"count", "checked"},
           subscription'.count = subscription.count, sends' = sends,
           disturbances' = disturbances \/ disturbances' = disturbances + 1
    PROVE  Counted'
<1>1. Number("count")' = Number("count") /\ Number("checked")' = Number("checked")
  <2>1. Moved("count", p, r) /\ Moved("checked", p, r)
    BY Numbers
  <2> QED
    BY <2>1 DEF Moved
<1>2. Total' = Total
  BY DEF Total
<1>3. /\ Number("count") \in Nat /\ Number("checked") \in Nat /\ disturbances \in Nat /\ Total \in Nat
      /\ subscription.count \in Nat
  BY Numbers
<1>4. disturbances' \in Nat /\ disturbances <= disturbances'
  BY <1>3
<1>5. /\ Total <= subscription.count + Number("count") + disturbances
      /\ Total + Number("checked") <= PaidLimit + (Cardinality(Requesters) - 1) + disturbances
  BY DEF BillingInv, Counted
<1>6. /\ Total <= subscription.count + Number("count") + disturbances'
      /\ Total + Number("checked") <= PaidLimit + (Cardinality(Requesters) - 1) + disturbances'
  BY <1>3, <1>4, <1>5, Given
<1> QED
  BY <1>1, <1>2, <1>6 DEF Counted

LEMMA TakesTheLock ==
    ASSUME BillingInv, NEW p \in Requesters, AcquireLock(p) PROVE BillingInv'
<1>1. UNCHANGED <<subscription, customers, sends, disturbances>> /\ Shape
  BY DEF AcquireLock, stripeVars, BillingInv
<1>2. CASE Turn(p, "lock", "wait") /\ UNCHANGED customerLock
  <2> DEFINE r == [at |-> "wait", customer |-> request[p].customer]
  <2>1. request[p].at = "lock" /\ IsRequest(r) /\ request' = [request EXCEPT ![p] = r]
    BY <1>1, <1>2, TurnMoves
  <2>2. r.at = "wait"
    OBVIOUS
  <2> HIDE DEF r
  <2> QED
    BY <1>1, <1>2, <2>1, <2>2, MovesAside
<1>3. CASE ~customerLock /\ Turn(p, "lock", "create") /\ customerLock' = TRUE
  <2> DEFINE r == [at |-> "create", customer |-> request[p].customer]
  <2>1. request[p].at = "lock" /\ IsRequest(r) /\ request' = [request EXCEPT ![p] = r]
    BY <1>1, <1>3, TurnMoves
  <2>2. r.at = "create"
    OBVIOUS
  <2> HIDE DEF r
  <2>3. request'[p] = r
    BY <1>1, <2>1 DEF Shape
  <2>4. Free = 1
    BY <1>3 DEF Free
  <2>5. Free' = 0
    BY <1>3, <2>2, <2>3 DEF Free, Alive
  <2>6. Number("create")' = Number("create") + 1
    <3>1. Moved("create", p, r)
      BY <2>1, Numbers
    <3> QED
      BY <2>1, <2>2, <3>1 DEF Moved
  <2>7. /\ customers \in Nat /\ disturbances \in Nat /\ Number("create") \in Nat
    BY <2>1, Numbers
  <2>8. /\ customers <= 1 + disturbances
        /\ subscription.customer = NoCustomer => customers + Number("create") + Free <= 1 + disturbances
    BY DEF BillingInv, Customers
  <2>9. subscription' = subscription /\ customers' = customers /\ disturbances' = disturbances /\ sends' = sends
    BY <1>1
  <2>10. customers' <= 1 + disturbances'
    BY <2>8, <2>9
  <2>11. subscription'.customer = NoCustomer => customers' + Number("create")' + Free' <= 1 + disturbances'
    BY <2>4, <2>5, <2>6, <2>7, <2>8, <2>9
  <2>12. Counted'
    BY <2>1, <2>2, <2>9, NothingCounted
  <2>13. IsPlan(subscription') /\ sends' = [now |-> sends'.now, before |-> sends'.before]
         /\ sends'.now \in Nat /\ sends'.before \in Nat /\ customers' \in Nat /\ disturbances' \in Nat
    BY <1>1, <2>9 DEF Shape
  <2> QED
    BY <2>1, <2>2, <2>9, <2>10, <2>11, <2>12, <2>13, RequestMoves
<1> QED
  BY <1>2, <1>3 DEF AcquireLock, LockHeld

LEMMA CreatesOne ==
    ASSUME BillingInv, NEW p \in Requesters, CreateCustomer(p) PROVE BillingInv'
<1>1. UNCHANGED <<subscription, customerLock, sends, disturbances>> /\ Shape /\ request[p].at = "create"
  BY DEF CreateCustomer, BillingInv
<1>2. subscription' = subscription /\ sends' = sends /\ disturbances' = disturbances
  BY <1>1
<1>3. IsPlan(subscription') /\ sends' = [now |-> sends'.now, before |-> sends'.before]
      /\ sends'.now \in Nat /\ sends'.before \in Nat /\ disturbances' \in Nat
  BY <1>1, <1>2 DEF Shape
<1>4. /\ customers <= 1 + disturbances /\ customers \in Nat /\ disturbances \in Nat
      /\ subscription.customer = NoCustomer => customers + Number("create") + Free <= 1 + disturbances
  BY DEF BillingInv, Customers, Shape
<1>5. CASE /\ subscription.customer # NoCustomer /\ UNCHANGED customers
           /\ request' = [request EXCEPT ![p] = [at |-> "unlock", customer |-> subscription.customer]]
  <2> DEFINE r == [at |-> "unlock", customer |-> subscription.customer]
  <2>1. IsRequest(r) /\ r.at = "unlock" /\ request' = [request EXCEPT ![p] = r]
    BY <1>5 DEF IsRequest
  <2> HIDE DEF r
  <2>2. Counted'
    BY <1>1, <1>2, <2>1, NothingCounted
  <2>3. customers' \in Nat /\ customers' <= 1 + disturbances' /\ subscription'.customer # NoCustomer
    BY <1>2, <1>4, <1>5
  <2> QED
    BY <1>2, <1>3, <2>1, <2>2, <2>3, RequestMoves
<1>6. CASE /\ subscription.customer = NoCustomer /\ customers' = customers + 1
           /\ request' = [request EXCEPT ![p] = [at |-> "store", customer |-> customers + 1]]
  <2> DEFINE r == [at |-> "store", customer |-> customers + 1]
  <2>1. IsRequest(r) /\ r.at = "store" /\ r.customer # NoCustomer /\ request' = [request EXCEPT ![p] = r]
    BY <1>4, <1>6 DEF IsRequest, NoCustomer
  <2> HIDE DEF r
  <2>2. Counted'
    BY <1>1, <1>2, <2>1, NothingCounted
  <2>3. \A q \in Requesters : request'[q] = IF q = p THEN r ELSE request[q]
    BY <1>1, <2>1 DEF Shape
  <2>4. Alive /\ Alive'
    BY <1>1, <2>1, <2>3 DEF Alive
  <2>5. Free' = Free /\ Free \in {0, 1}
    BY <1>1, <2>4 DEF Free
  <2>6. Number("create")' = Number("create") - 1 /\ Number("create") \in Nat
    <3>1. Moved("create", p, r) /\ Number("create") \in Nat
      BY <2>1, Numbers
    <3> QED
      BY <1>1, <2>1, <3>1 DEF Moved
  <2>7. Number("create") # 0
    <3>1. IsFiniteSet({q \in Requesters : request[q].at = "create"}) /\ p \in {q \in Requesters : request[q].at = "create"}
      BY <1>1, NumberIsNat
    <3> QED
      BY <3>1, FS_EmptySet DEF Number
  <2>8. customers + Number("create") + Free <= 1 + disturbances
    BY <1>4, <1>6
  <2>9. customers' \in Nat /\ customers' <= 1 + disturbances
        /\ customers' + Number("create")' + Free' <= 1 + disturbances
    BY <1>4, <1>6, <2>5, <2>6, <2>7, <2>8
  <2> QED
    BY <1>2, <1>3, <1>6, <2>1, <2>2, <2>9, RequestMoves
<1> QED
  BY <1>5, <1>6 DEF CreateCustomer

\* From here the row names a customer.
LEMMA Unlocks ==
    ASSUME BillingInv, NEW p \in Requesters, SetStripeCustomerId(p) \/ ReleaseLock(p) PROVE BillingInv'
<1>1. UNCHANGED <<customers, sends, disturbances>> /\ Shape /\ IsPlan(subscription)
  BY DEF SetStripeCustomerId, ReleaseLock, stripeVars, BillingInv, Shape
<1>2. sends' = sends /\ customers' = customers /\ disturbances' = disturbances
  BY <1>1
<1>3. sends' = [now |-> sends'.now, before |-> sends'.before] /\ customers' \in Nat
      /\ sends'.now \in Nat /\ sends'.before \in Nat /\ disturbances' \in Nat
  BY <1>1, <1>2 DEF Shape
<1>4. customers' <= 1 + disturbances'
  BY <1>2 DEF BillingInv, Customers
<1>5. \A from, to : Turn(p, from, to) /\ from \in {"store", "unlock"} /\ to \in {"unlock", "pay"}
                      /\ IsPlan(subscription') /\ subscription'.customer # NoCustomer
                      /\ subscription'.count = subscription.count => BillingInv'
  <2> SUFFICES ASSUME NEW from \in {"store", "unlock"}, NEW to \in {"unlock", "pay"}, Turn(p, from, to),
                      IsPlan(subscription'), subscription'.customer # NoCustomer,
                      subscription'.count = subscription.count
               PROVE  BillingInv'
    OBVIOUS
  <2> DEFINE r == [at |-> to, customer |-> request[p].customer]
  <2>1. request[p].at = from /\ IsRequest(r) /\ request' = [request EXCEPT ![p] = r]
    BY <1>1, TurnMoves
  <2>2. r.at = to
    OBVIOUS
  <2> HIDE DEF r
  <2>3. Counted'
    BY <1>2, <2>1, <2>2, NothingCounted
  <2> QED
    BY <1>3, <1>4, <2>1, <2>2, <2>3, RequestMoves
<1>6. CASE SetStripeCustomerId(p)
  <2>1. Turn(p, "store", "unlock") /\ request[p].customer # NoCustomer
    BY <1>6 DEF SetStripeCustomerId, Turn, BillingInv, Customers
  <2>2. subscription = [exists |-> subscription.exists, customer |-> subscription.customer,
                        plan |-> subscription.plan, status |-> subscription.status,
                        count |-> subscription.count, reset |-> subscription.reset]
        /\ subscription.count \in Nat
    BY <1>1 DEF IsPlan
  <2>3. subscription' = [subscription EXCEPT !.exists = TRUE, !.customer = request[p].customer]
    BY <1>6 DEF SetStripeCustomerId
  <2>4. subscription' = [exists |-> TRUE, customer |-> request[p].customer,
                         plan |-> subscription.plan, status |-> subscription.status,
                         count |-> subscription.count, reset |-> subscription.reset]
    BY <2>2, <2>3
  <2>5. IsPlan(subscription') /\ subscription'.customer # NoCustomer /\ subscription'.count = subscription.count
    BY <2>1, <2>2, <2>4 DEF IsPlan
  <2> QED
    BY <1>5, <2>1, <2>5
<1>7. CASE ReleaseLock(p)
  <2>1. Turn(p, "unlock", "pay") /\ subscription' = subscription
    BY <1>7 DEF ReleaseLock
  <2>2. subscription.customer # NoCustomer
    BY <2>1 DEF Turn, BillingInv, Customers
  <2> QED
    BY <1>1, <1>5, <2>1, <2>2
<1> QED
  BY <1>6, <1>7

\* The fault pays for a count that is lost, and for a lock that is set free.
LEMMA Dies ==
    ASSUME BillingInv, NEW p \in Requesters, RequestFails(p) PROVE BillingInv'
<1>1. UNCHANGED <<subscription, customers, sends>> /\ Shape /\ IsPlan(subscription)
      /\ request' = [request EXCEPT ![p] = NoRequest] /\ disturbances' = disturbances + 1
      /\ request[p].at \in {"count", "create", "store", "unlock"}
  BY DEF RequestFails, stripeVars, BillingInv, Shape
<1>2. sends' = sends /\ customers' = customers /\ subscription' = subscription
  BY <1>1
<1>3. sends' = [now |-> sends'.now, before |-> sends'.before] /\ customers' \in Nat
      /\ sends'.now \in Nat /\ sends'.before \in Nat /\ disturbances' \in Nat
  BY <1>1, <1>2 DEF Shape
<1>4. NoRequest.at = "idle" /\ IsRequest(NoRequest)
  BY DEF NoRequest, IsRequest
<1>5. /\ Moved("create", p, NoRequest) /\ Moved("count", p, NoRequest) /\ Moved("checked", p, NoRequest)
      /\ Number("create") \in Nat /\ Number("count") \in Nat /\ Number("checked") \in Nat
      /\ subscription.count \in Nat /\ customers \in Nat /\ disturbances \in Nat /\ Total \in Nat
      /\ Free \in {0, 1} /\ Free' \in {0, 1}
  BY <1>1, Numbers
<1>6. Number("create")' = Number("create") \/ Number("create")' = Number("create") - 1
  BY <1>4, <1>5 DEF Moved
<1>7. Number("count")' = Number("count") \/ Number("count")' = Number("count") - 1
  BY <1>4, <1>5 DEF Moved
<1>8. Number("checked")' = Number("checked")
  BY <1>1, <1>4, <1>5 DEF Moved
<1>9. Total' = Total
  BY <1>2 DEF Total
<1>10. Counted'
  <2>1. /\ Total <= subscription.count + Number("count") + disturbances
        /\ Total + Number("checked") <= PaidLimit + (Cardinality(Requesters) - 1) + disturbances
    BY DEF BillingInv, Counted
  <2>2. Total <= subscription.count + Number("count")' + (disturbances + 1)
    BY <1>5, <1>7, <2>1
  <2>3. Total + Number("checked") <= PaidLimit + (Cardinality(Requesters) - 1) + (disturbances + 1)
    BY <1>5, <2>1, Given
  <2> QED
    BY <1>1, <1>2, <1>8, <1>9, <2>2, <2>3 DEF Counted
<1>11. /\ customers <= 1 + disturbances
       /\ subscription.customer = NoCustomer => customers + Number("create") + Free <= 1 + disturbances
  BY DEF BillingInv, Customers
<1>12. customers' <= 1 + disturbances'
  BY <1>1, <1>2, <1>5, <1>11
<1>13. subscription.customer = NoCustomer => customers + Number("create")' + Free' <= 1 + (disturbances + 1)
  BY <1>5, <1>6, <1>11
<1> QED
  BY <1>1, <1>2, <1>3, <1>4, <1>10, <1>12, <1>13, RequestMoves

LEMMA Lapses == ASSUME BillingInv, LockLapses PROVE BillingInv'
<1>1. UNCHANGED <<subscription, customers, request, sends>> /\ customerLock /\ ~customerLock'
      /\ disturbances' = IF Alive THEN disturbances + 1 ELSE disturbances
  BY DEF LockLapses, stripeVars, Alive
<1>2. Shape /\ customers \in Nat /\ disturbances \in Nat /\ subscription.count \in Nat
      /\ sends.now \in Nat /\ sends.before \in Nat
  BY DEF BillingInv, Shape, IsPlan
<1>3. subscription' = subscription /\ customers' = customers /\ request' = request /\ sends' = sends
  BY <1>1
<1>4. disturbances' \in Nat /\ disturbances <= disturbances'
  BY <1>1, <1>2
<1>5. Number("create")' = Number("create") /\ Number("count")' = Number("count")
      /\ Number("checked")' = Number("checked") /\ Total' = Total
  BY <1>3 DEF Number, Total
<1>6. Free' + disturbances <= Free + disturbances'
  BY <1>1, <1>2 DEF Free
<1>7. Number("create") \in Nat /\ Number("count") \in Nat /\ Number("checked") \in Nat
  BY NumberIsNat
<1>8. Total \in Nat /\ Free \in {0, 1} /\ Free' \in {0, 1}
  BY <1>2 DEF Total, Free
<1>9. Shape'
  BY <1>2, <1>3, <1>4 DEF Shape
<1>10. Counted'
  <2>1. /\ Total <= subscription.count + Number("count") + disturbances
        /\ Total + Number("checked") <= PaidLimit + (Cardinality(Requesters) - 1) + disturbances
    BY DEF BillingInv, Counted
  <2>2. /\ Total <= subscription.count + Number("count") + disturbances'
        /\ Total + Number("checked") <= PaidLimit + (Cardinality(Requesters) - 1) + disturbances'
    BY <1>2, <1>4, <1>7, <1>8, <2>1, Given
  <2> QED
    BY <1>3, <1>5, <2>2 DEF Counted
<1>11. Customers'
  <2>1. /\ customers <= 1 + disturbances
        /\ subscription.customer = NoCustomer => customers + Number("create") + Free <= 1 + disturbances
    BY DEF BillingInv, Customers
  <2>2. customers <= 1 + disturbances'
    BY <1>2, <1>4, <2>1, Later
  <2>3. subscription.customer = NoCustomer => customers + Number("create") + Free' <= 1 + disturbances'
    <3>1. Free \in Nat /\ Free' \in Nat
      BY <1>8
    <3> QED
      BY <1>2, <1>4, <1>6, <1>7, <2>1, <3>1, PaidFor
  <2>4. /\ \A q \in Requesters : request[q].at = "store" => request[q].customer # NoCustomer
        /\ \A q \in Requesters : request[q].at = "unlock" => subscription.customer # NoCustomer
    BY DEF BillingInv, Customers
  <2> QED
    BY <1>3, <1>5, <2>2, <2>3, <2>4 DEF Customers
<1> QED
  BY <1>9, <1>10, <1>11 DEF BillingInv

\* The months only move what is counted, and the reset forgets it.
LEMMA MonthsPass == ASSUME BillingInv, NextMonth \/ ResetMonthlyCount PROVE BillingInv'
<1>1. UNCHANGED <<customers, request, customerLock, disturbances>>
  BY DEF NextMonth, ResetMonthlyCount, stripeVars
<1>2. Shape /\ customers \in Nat /\ disturbances \in Nat /\ subscription.count \in Nat
      /\ sends.now \in Nat /\ sends.before \in Nat /\ IsPlan(subscription)
  BY DEF BillingInv, Shape, IsPlan
<1>3. customers' = customers /\ request' = request /\ customerLock' = customerLock /\ disturbances' = disturbances
  BY <1>1
<1>4. Number("create")' = Number("create") /\ Number("count")' = Number("count")
      /\ Number("checked")' = Number("checked") /\ Free' = Free
  BY <1>3 DEF Number, Free, Alive
<1>5. Number("create") \in Nat /\ Number("count") \in Nat /\ Number("checked") \in Nat /\ Total \in Nat
  <2>1. Number("create") \in Nat /\ Number("count") \in Nat /\ Number("checked") \in Nat
    BY NumberIsNat
  <2> QED
    BY <1>2, <2>1 DEF Total
<1>6. /\ Total <= subscription.count + Number("count") + disturbances
      /\ Total + Number("checked") <= PaidLimit + (Cardinality(Requesters) - 1) + disturbances
  BY DEF BillingInv, Counted
<1>7. /\ sends' = [now |-> sends'.now, before |-> sends'.before] /\ sends'.now \in Nat /\ sends'.before \in Nat
      /\ IsPlan(subscription') /\ subscription'.customer = subscription.customer
      /\ \/ Total' = Total /\ subscription'.count = subscription.count
         \/ Total' = 0 /\ subscription'.count = 0
  <2>1. CASE NextMonth
    <3>1. sends' = [now |-> 0, before |-> sends.before + sends.now] /\ subscription' = subscription
      BY <2>1 DEF NextMonth
    <3>2. Total' = sends.before + sends.now
      BY <1>2, <3>1 DEF Total
    <3>3. Total' = Total
      BY <1>2, <3>2 DEF Total
    <3> QED
      BY <1>2, <3>1, <3>3
  <2>2. CASE ResetMonthlyCount
    <3>1. sends' = [now |-> 0, before |-> 0] /\ subscription' = [subscription EXCEPT !.count = 0, !.reset = month]
      BY <2>2 DEF ResetMonthlyCount
    <3>2. subscription = [exists |-> subscription.exists, customer |-> subscription.customer,
                          plan |-> subscription.plan, status |-> subscription.status,
                          count |-> subscription.count, reset |-> subscription.reset]
      BY <1>2 DEF IsPlan
    <3>3. subscription' = [exists |-> subscription.exists, customer |-> subscription.customer,
                           plan |-> subscription.plan, status |-> subscription.status,
                           count |-> 0, reset |-> month]
      BY <3>1, <3>2
    <3>4. Total' = 0
      BY <3>1 DEF Total
    <3>5. IsPlan(subscription') /\ subscription'.customer = subscription.customer /\ subscription'.count = 0
      BY <3>3 DEF IsPlan
    <3> QED
      BY <3>1, <3>4, <3>5
  <2> QED
    BY <2>1, <2>2
<1>8. Shape'
  BY <1>2, <1>3, <1>7 DEF Shape
<1>9. Customers'
  <2>1. /\ customers <= 1 + disturbances
        /\ subscription.customer = NoCustomer => customers + Number("create") + Free <= 1 + disturbances
        /\ \A q \in Requesters : request[q].at = "store" => request[q].customer # NoCustomer
        /\ \A q \in Requesters : request[q].at = "unlock" => subscription.customer # NoCustomer
    BY DEF BillingInv, Customers
  <2> QED
    BY <1>3, <1>4, <1>7, <2>1 DEF Customers
<1>10. Counted'
  <2>1. CASE Total' = Total /\ subscription'.count = subscription.count
    BY <1>3, <1>4, <1>6, <2>1 DEF Counted
  <2>2. CASE Total' = 0 /\ subscription'.count = 0
    <3>1. 0 <= 0 + Number("count") + disturbances
      BY <1>2, <1>5
    <3>2. 0 + Number("checked") <= PaidLimit + (Cardinality(Requesters) - 1) + disturbances
      BY <1>2, <1>5, <1>6, Given
    <3> QED
      BY <1>3, <1>4, <2>2, <3>1, <3>2 DEF Counted
  <2> QED
    BY <1>7, <2>1, <2>2
<1> QED
  BY <1>8, <1>9, <1>10 DEF BillingInv

LEMMA StripeSays ==
    ASSUME BillingInv, (\E e \in StripeEventId : StripeHandler(e)) \/ Unpaid \/ Cancelled \/ Invoice \/ Resync
    PROVE  BillingInv'
<1>1. UNCHANGED <<request, customerLock, customers, sends>> /\ (disturbances' = disturbances \/ disturbances' = disturbances + 1)
  BY DEF StripeHandler, Mark, Retrieve, Apply, StripeHandlerFails, Unpaid, Cancelled, Invoice, Resync, Changes, stripeVars
<1>2. IsPlan(subscription)
  BY DEF BillingInv, Shape
<1>3. \A plan, status, row : row = [subscription EXCEPT !.plan = plan, !.status = status]
          => IsPlan(row) /\ row.customer = subscription.customer /\ row.count = subscription.count
  <2> SUFFICES ASSUME NEW plan, NEW status, NEW row, row = [subscription EXCEPT !.plan = plan, !.status = status]
               PROVE  IsPlan(row) /\ row.customer = subscription.customer /\ row.count = subscription.count
    OBVIOUS
  <2>1. subscription = [exists |-> subscription.exists, customer |-> subscription.customer,
                        plan |-> subscription.plan, status |-> subscription.status,
                        count |-> subscription.count, reset |-> subscription.reset]
    BY <1>2 DEF IsPlan
  <2>2. row = [exists |-> subscription.exists, customer |-> subscription.customer, plan |-> plan,
               status |-> status, count |-> subscription.count, reset |-> subscription.reset]
    BY <2>1
  <2>3. subscription.count \in Nat
    BY <1>2 DEF IsPlan
  <2> QED
    BY <2>2, <2>3 DEF IsPlan
<1>4. subscription' = subscription
      \/ \E plan, status : subscription' = [subscription EXCEPT !.plan = plan, !.status = status]
  BY DEF StripeHandler, Mark, Retrieve, Apply, StripeHandlerFails, Unpaid, Cancelled, Invoice, Resync, Changes,
         Synced, Canceled
<1>5. IsPlan(subscription') /\ subscription'.customer = subscription.customer
      /\ subscription'.count = subscription.count
  <2>1. CASE subscription' = subscription
    BY <1>2, <2>1
  <2>2. CASE \E plan, status : subscription' = [subscription EXCEPT !.plan = plan, !.status = status]
    <3>1. PICK plan, status : subscription' = [subscription EXCEPT !.plan = plan, !.status = status]
      BY <2>2
    <3> DEFINE row == [subscription EXCEPT !.plan = plan, !.status = status]
    <3>2. IsPlan(row) /\ row.customer = subscription.customer /\ row.count = subscription.count
      BY <1>3
    <3>3. subscription' = row
      BY <3>1
    <3> HIDE DEF row
    <3> QED
      BY <3>2, <3>3
  <2> QED
    BY <1>4, <2>1, <2>2
<1> QED
  BY <1>1, <1>5, PlanChanges

-----------------------------------------------------------------------------
LEMMA BillingStep == ASSUME BillingInv, [BillingNext]_billingVars PROVE BillingInv'
<1>1. CASE \E p \in Requesters : RequestStep(p)
  <2>1. PICK p \in Requesters : RequestStep(p)
    BY <1>1
  <2> QED
    BY <2>1, CheckedOnce, CommittedOrNot, CountedOnce, ChecksOut, TakesTheLock, CreatesOne, Unlocks, Dies
       DEF RequestStep
<1>2. CASE (\E e \in StripeEventId : StripeHandler(e)) \/ Unpaid \/ Cancelled \/ Invoice \/ Resync
  BY <1>2, StripeSays
<1>3. CASE LockLapses
  BY <1>3, Lapses
<1>4. CASE NextMonth \/ ResetMonthlyCount
  BY <1>4, MonthsPass
<1>5. CASE UNCHANGED billingVars
  BY <1>5 DEF billingVars, BillingInv, Shape, Customers, Counted, Number, Alive, Free, Total
<1> QED
  BY <1>1, <1>2, <1>3, <1>4, <1>5 DEF BillingNext

LEMMA BillingInvariant == BillingSpec => []BillingInv
<1>1. BillingInit => BillingInv
  BY FirstState
<1>2. BillingInv /\ [BillingNext]_billingVars => BillingInv'
  BY BillingStep
<1> QED
  BY <1>1, <1>2, PTL DEF BillingSpec

\* getOrCreateCustomer: whoever checks out, and however often, Stripe has one
\* customer of the organization, but for one more a fault.
THEOREM OneCustomerAlways == BillingSpec => []OneCustomer
<1>1. BillingInv => OneCustomer
  BY DEF BillingInv, Customers, OneCustomer
<1> QED
  BY <1>1, BillingInvariant, PTL

\* assertCanSendOffer: however many sends there are, a month's exceed the paid
\* limit by one for each request that overlaps, and one for each fault.
THEOREM OverLimitAlwaysNeedsOverlap == BillingSpec => []OverLimitNeedsOverlap
<1>1. ASSUME BillingInv PROVE OverLimitNeedsOverlap
  <2>1. Total + Number("checked") <= PaidLimit + (Cardinality(Requesters) - 1) + disturbances
    BY <1>1 DEF BillingInv, Counted
  <2>2. Number("checked") \in Nat
    BY NumberIsNat
  <2>3. disturbances \in Nat /\ sends.now \in Nat /\ sends.before \in Nat
    BY <1>1 DEF BillingInv, Shape
  <2> QED
    BY <2>1, <2>2, <2>3, Given DEF Total, OverLimitNeedsOverlap
<1> QED
  BY <1>1, BillingInvariant, PTL


-----------------------------------------------------------------------------
(* Undisturbed, the plan is what Stripe says once every event is answered. *)
(*                                                                         *)
(* Undisturbed, the lock lets one request at a time near the customer, so  *)
(* every checkout is of the one there is; and events are handled in their  *)
(* order, so of those still open the last one that carries a subscription  *)
(* carries it as it is, and with none open the row has what the last said. *)

Holder(p) == request[p].at \in {"create", "store", "unlock"}

Checkouts ==
    /\ \A p \in Requesters : Holder(p) => customerLock
    /\ \A p, q \in Requesters : Holder(p) /\ Holder(q) => p = q
    /\ \A p \in Requesters : request[p].at = "store" => subscription.customer = NoCustomer
    /\ \A p \in Requesters : request[p].at \in {"unlock", "pay"} =>
          request[p].customer = subscription.customer /\ subscription.customer # NoCustomer
    /\ sub.status # "none" => sub.customer = subscription.customer /\ subscription.customer # NoCustomer

IsEvent(r) == r = [kind |-> r.kind, sub |-> r.sub, at |-> r.at]

InOrder ==
    /\ sub = [customer |-> sub.customer, plan |-> sub.plan, status |-> sub.status]
    /\ sub.status \in {"none", "active", "past_due", "canceled"} /\ (sub.status # "none" => sub.plan = "PAID")
    /\ stripeEvent = [e \in StripeEventId |-> stripeEvent[e]] /\ \A e \in StripeEventId : IsEvent(stripeEvent[e])
    /\ \A e \in StripeEventId : stripeEvent[e].kind = "none" => stripeEvent[e].at = "done" /\ e \notin marked
    /\ \A e \in StripeEventId : stripeEvent[e].kind # "none" => sub.status # "none"
    /\ \A e, f \in StripeEventId : stripeEvent[e].kind # "none" /\ stripeEvent[f].kind = "none" => e < f
    /\ \A e \in StripeEventId : stripeEvent[e].at = "pending" => e \notin marked
    /\ \A e, f \in StripeEventId : stripeEvent[e].at = "apply" /\ f < e => stripeEvent[f].at = "done"

Carries(e) == stripeEvent[e].at # "done" /\ stripeEvent[e].kind \in {"updated", "deleted"}
UpToDate(e) ==
    /\ stripeEvent[e].kind = "deleted" => sub.status = "canceled"
    /\ stripeEvent[e].kind = "updated" => stripeEvent[e].sub = sub
InSync ==
    /\ subscription.status = ResolveStatus(sub.status)
    /\ sub.status # "canceled" => subscription.plan = "PAID"

Synchronized ==
    /\ \A e \in StripeEventId : Carries(e) => stripeEvent[e].sub.customer = sub.customer
    /\ \A e \in StripeEventId : Carries(e) /\ (\A f \in StripeEventId : f > e => ~Carries(f)) => UpToDate(e)
    /\ sub.status # "none" /\ (\A e \in StripeEventId : ~Carries(e)) => InSync

PlanInv == disturbances = 0 => Checkouts /\ InOrder /\ Synchronized

LEMMA Undisturbed ==
    ASSUME BillingInv, [BillingNext]_billingVars, disturbances' = 0 PROVE disturbances = 0
<1>1. disturbances \in Nat
  BY DEF BillingInv, Shape
<1>2. disturbances' = disturbances \/ disturbances' = disturbances + 1
  BY DEF BillingNext, RequestStep, StripeHandler, AssertCanSend, CommitSend, IncrementOfferCount, Checkout, AcquireLock,
         CreateCustomer, SetStripeCustomerId, ReleaseLock, RequestFails, Subscribe, Abandon, Changes, Mark, Retrieve, Apply,
         StripeHandlerFails, LockLapses, Unpaid, Cancelled, Invoice, Resync, ResetMonthlyCount, NextMonth, stripeVars, billingVars
<1> QED
  BY <1>1, <1>2

\* Whoever changes nothing of the row but its count, and nothing of Stripe's.
LEMMA StripeUntouched ==
    ASSUME InOrder, Synchronized, UNCHANGED <<sub, stripeEvent, marked>>,
           subscription'.plan = subscription.plan, subscription'.status = subscription.status
    PROVE  InOrder' /\ Synchronized'
<1>1. InOrder'
  BY DEF InOrder
<1>2. \A e \in StripeEventId : Carries(e)' = Carries(e) /\ UpToDate(e)' = UpToDate(e)
  BY DEF Carries, UpToDate
<1>3. InSync' = InSync
  BY DEF InSync
<1> QED
  BY <1>1, <1>2, <1>3 DEF Synchronized

LEMMA SameCustomer ==
    ASSUME Checkouts, UNCHANGED <<request, customerLock>>, sub'.status # "none" => sub.status # "none" /\ sub'.customer = sub.customer,
           subscription'.customer = subscription.customer
    PROVE  Checkouts'
  BY DEF Checkouts, Holder

\* A request goes on that neither takes the lock nor touches the customer.
LEMMA CheckoutMoves ==
    ASSUME BillingInv, Checkouts, NEW p \in Requesters, NEW r, request' = [request EXCEPT ![p] = r],
           UNCHANGED <<customerLock, sub>>, subscription'.customer = subscription.customer,
           r.at \in {"create", "store", "unlock"} => Holder(p),
           r.at = "store" => subscription.customer = NoCustomer,
           r.at \in {"unlock", "pay"} => r.customer = subscription.customer /\ subscription.customer # NoCustomer
    PROVE  Checkouts'
<1>1. \A q \in Requesters : request'[q] = IF q = p THEN r ELSE request[q]
  BY DEF BillingInv, Shape
<1>2. \A q \in Requesters : Holder(q)' => Holder(q)
  BY <1>1 DEF Holder
<1>3. \A q \in Requesters : request'[q].at = "store" => subscription'.customer = NoCustomer
  BY <1>1 DEF Checkouts
<1>4. \A q \in Requesters : request'[q].at \in {"unlock", "pay"} =>
          request'[q].customer = subscription'.customer /\ subscription'.customer # NoCustomer
  BY <1>1 DEF Checkouts
<1> QED
  BY <1>2, <1>3, <1>4 DEF Checkouts

LEMMA RowForm ==
    ASSUME BillingInv
    PROVE  subscription = [exists |-> subscription.exists, customer |-> subscription.customer,
                           plan |-> subscription.plan, status |-> subscription.status,
                           count |-> subscription.count, reset |-> subscription.reset]
  BY DEF BillingInv, Shape, IsPlan

LEMMA SendsAside ==
    ASSUME BillingInv, Checkouts, InOrder, Synchronized, NEW p \in Requesters,
           AssertCanSend(p) \/ CommitSend(p) \/ IncrementOfferCount(p)
    PROVE  Checkouts' /\ InOrder' /\ Synchronized'
<1>1. UNCHANGED <<sub, stripeEvent, marked, customerLock>>
  BY DEF AssertCanSend, CommitSend, IncrementOfferCount, stripeVars
<1>2. subscription'.customer = subscription.customer /\ subscription'.plan = subscription.plan
      /\ subscription'.status = subscription.status
  <2>1. CASE subscription' = subscription
    BY <2>1
  <2>2. CASE subscription' # subscription
    <3>1. subscription' = [subscription EXCEPT !.exists = TRUE, !.count = subscription.count + 1]
      BY <2>2 DEF AssertCanSend, CommitSend, IncrementOfferCount
    <3>2. subscription' = [exists |-> TRUE, customer |-> subscription.customer, plan |-> subscription.plan,
                           status |-> subscription.status, count |-> subscription.count + 1, reset |-> subscription.reset]
      BY <3>1, RowForm
    <3> QED
      BY <3>2
  <2> QED
    BY <2>1, <2>2
<1>3. PICK from, to \in {"idle", "checked", "count"} : Turn(p, from, to)
  BY DEF AssertCanSend, CommitSend, IncrementOfferCount
<1> DEFINE r == [at |-> to, customer |-> request[p].customer]
<1>4. request' = [request EXCEPT ![p] = r]
  BY <1>3, TurnMoves DEF BillingInv
<1>5. r.at \notin {"create", "store", "unlock", "pay"}
  BY <1>3
<1> HIDE DEF r
<1>6. Checkouts'
  BY <1>1, <1>2, <1>4, <1>5, CheckoutMoves
<1> QED
  BY <1>1, <1>2, <1>6, StripeUntouched

LEMMA CheckoutsAside ==
    ASSUME BillingInv, Checkouts, InOrder, Synchronized, NEW p \in Requesters, Checkout(p) \/ Abandon(p)
    PROVE  Checkouts' /\ InOrder' /\ Synchronized'
<1>1. UNCHANGED <<sub, stripeEvent, marked, customerLock, subscription>>
  BY DEF Checkout, Abandon, stripeVars
<1>2. \/ /\ subscription.customer # NoCustomer
         /\ request' = [request EXCEPT ![p] = [at |-> "pay", customer |-> subscription.customer]]
      \/ \E from, to \in {"idle", "lock", "wait", "pay"} : to # "pay" /\ Turn(p, from, to)
  BY DEF Checkout, Abandon
<1>3. PICK r : /\ request' = [request EXCEPT ![p] = r] /\ r.at \notin {"create", "store", "unlock"}
               /\ r.at = "pay" => r.customer = subscription.customer /\ subscription.customer # NoCustomer
  <2>1. CASE /\ subscription.customer # NoCustomer
             /\ request' = [request EXCEPT ![p] = [at |-> "pay", customer |-> subscription.customer]]
    <3> DEFINE r == [at |-> "pay", customer |-> subscription.customer]
    <3>1. request' = [request EXCEPT ![p] = r] /\ r.at = "pay" /\ r.customer = subscription.customer
      BY <2>1
    <3> HIDE DEF r
    <3> QED
      BY <2>1, <3>1
  <2>2. CASE \E from, to \in {"idle", "lock", "wait", "pay"} : to # "pay" /\ Turn(p, from, to)
    <3>1. PICK from, to \in {"idle", "lock", "wait", "pay"} : to # "pay" /\ Turn(p, from, to)
      BY <2>2
    <3> DEFINE r == [at |-> to, customer |-> request[p].customer]
    <3>2. request' = [request EXCEPT ![p] = r] /\ r.at = to
      BY <3>1, TurnMoves DEF BillingInv
    <3> HIDE DEF r
    <3> QED
      BY <3>1, <3>2
  <2> QED
    BY <1>2, <2>1, <2>2
<1>4. Checkouts'
  BY <1>1, <1>3, CheckoutMoves
<1> QED
  BY <1>1, <1>4, StripeUntouched

\* Whoever takes the lock is alone with it.
LEMMA LockTakenAlone ==
    ASSUME BillingInv, Checkouts, InOrder, Synchronized, NEW p \in Requesters, AcquireLock(p)
    PROVE  Checkouts' /\ InOrder' /\ Synchronized'
<1>1. UNCHANGED <<sub, stripeEvent, marked, subscription>> /\ request[p].at = "lock"
  BY DEF AcquireLock, stripeVars, Turn
<1>2. CASE customerLock
  <2> DEFINE r == [at |-> "wait", customer |-> request[p].customer]
  <2>1. request' = [request EXCEPT ![p] = r] /\ r.at = "wait" /\ customerLock' = customerLock
    BY <1>2, TurnMoves DEF BillingInv, AcquireLock, LockHeld
  <2> HIDE DEF r
  <2>2. Checkouts'
    BY <1>1, <2>1, CheckoutMoves
  <2> QED
    BY <1>1, <2>2, StripeUntouched
<1>3. CASE ~customerLock
  <2> DEFINE r == [at |-> "create", customer |-> request[p].customer]
  <2>1. request' = [request EXCEPT ![p] = r] /\ r.at = "create" /\ customerLock' = TRUE
    BY <1>3, TurnMoves DEF BillingInv, AcquireLock, LockHeld
  <2> HIDE DEF r
  <2>2. \A q \in Requesters : request'[q] = IF q = p THEN r ELSE request[q]
    BY <2>1 DEF BillingInv, Shape
  <2>3. \A q \in Requesters : ~Holder(q)
    BY <1>3 DEF Checkouts
  <2>4. \A q \in Requesters : Holder(q)' => q = p
    BY <2>2, <2>3 DEF Holder
  <2>5. \A q \in Requesters : request'[q].at = "store" => subscription'.customer = NoCustomer
    BY <1>1, <2>1, <2>2 DEF Checkouts
  <2>6. \A q \in Requesters : request'[q].at \in {"unlock", "pay"} =>
            request'[q].customer = subscription'.customer /\ subscription'.customer # NoCustomer
    BY <1>1, <2>1, <2>2 DEF Checkouts
  <2>7. Checkouts'
    BY <1>1, <2>1, <2>4, <2>5, <2>6 DEF Checkouts
  <2> QED
    BY <1>1, <2>7, StripeUntouched
<1> QED
  BY <1>2, <1>3

LEMMA CreatedAlone ==
    ASSUME BillingInv, Checkouts, InOrder, Synchronized, NEW p \in Requesters, CreateCustomer(p)
    PROVE  Checkouts' /\ InOrder' /\ Synchronized'
<1>1. UNCHANGED <<sub, stripeEvent, marked, customerLock, subscription>> /\ Holder(p)
  BY DEF CreateCustomer, Holder
<1>2. PICK r : /\ request' = [request EXCEPT ![p] = r]
               /\ \/ r.at = "unlock" /\ r.customer = subscription.customer /\ subscription.customer # NoCustomer
                  \/ r.at = "store" /\ subscription.customer = NoCustomer
  <2> DEFINE r1 == [at |-> "unlock", customer |-> subscription.customer]
             r2 == [at |-> "store", customer |-> customers + 1]
  <2>1. r1.at = "unlock" /\ r1.customer = subscription.customer /\ r2.at = "store"
    OBVIOUS
  <2>2. \/ request' = [request EXCEPT ![p] = r1] /\ subscription.customer # NoCustomer
        \/ request' = [request EXCEPT ![p] = r2] /\ subscription.customer = NoCustomer
    BY DEF CreateCustomer
  <2> HIDE DEF r1, r2
  <2> QED
    BY <2>1, <2>2
<1>3. Checkouts'
  BY <1>1, <1>2, CheckoutMoves
<1> QED
  BY <1>1, <1>3, StripeUntouched

\* The first customer is stored while nobody pays.
LEMMA StoredAlone ==
    ASSUME BillingInv, Checkouts, InOrder, Synchronized, NEW p \in Requesters, SetStripeCustomerId(p)
    PROVE  Checkouts' /\ InOrder' /\ Synchronized'
<1>1. UNCHANGED <<sub, stripeEvent, marked, customerLock>> /\ request[p].at = "store" /\ Holder(p)
  BY DEF SetStripeCustomerId, stripeVars, Turn, Holder
<1>2. subscription.customer = NoCustomer /\ request[p].customer # NoCustomer /\ sub.status = "none"
  BY <1>1 DEF Checkouts, BillingInv, Customers
<1>3. subscription'.customer = request[p].customer
  BY DEF SetStripeCustomerId, BillingInv, Shape, IsPlan
<1> DEFINE r == [at |-> "unlock", customer |-> request[p].customer]
<1>4. request' = [request EXCEPT ![p] = r] /\ r.at = "unlock" /\ r.customer = request[p].customer
  BY TurnMoves DEF BillingInv, SetStripeCustomerId
<1> HIDE DEF r
<1>5. \A q \in Requesters : request'[q] = IF q = p THEN r ELSE request[q]
  BY <1>4 DEF BillingInv, Shape
<1>6. Checkouts'
  <2>1. \A q \in Requesters : Holder(q)' => Holder(q)
    BY <1>1, <1>5 DEF Holder
  <2>2. \A q \in Requesters : request'[q].at # "store"
    BY <1>1, <1>4, <1>5 DEF Checkouts, Holder
  <2>3. \A q \in Requesters : request'[q].at \in {"unlock", "pay"} =>
            request'[q].customer = subscription'.customer /\ subscription'.customer # NoCustomer
    BY <1>2, <1>3, <1>4, <1>5 DEF Checkouts
  <2> QED
    BY <1>1, <1>2, <2>1, <2>2, <2>3 DEF Checkouts
<1>7. InOrder'
  BY <1>1 DEF InOrder
<1>8. Synchronized'
  BY <1>1, <1>2 DEF InOrder, Synchronized, Carries
<1> QED
  BY <1>6, <1>7, <1>8

LEMMA UnlockedAlone ==
    ASSUME BillingInv, Checkouts, InOrder, Synchronized, NEW p \in Requesters, ReleaseLock(p)
    PROVE  Checkouts' /\ InOrder' /\ Synchronized'
<1>1. UNCHANGED <<sub, stripeEvent, marked, subscription>> /\ request[p].at = "unlock" /\ Holder(p)
  BY DEF ReleaseLock, stripeVars, Turn, Holder
<1> DEFINE r == [at |-> "pay", customer |-> request[p].customer]
<1>2. request' = [request EXCEPT ![p] = r] /\ r.at = "pay" /\ r.customer = request[p].customer
  BY TurnMoves DEF BillingInv, ReleaseLock
<1> HIDE DEF r
<1>3. \A q \in Requesters : request'[q] = IF q = p THEN r ELSE request[q]
  BY <1>2 DEF BillingInv, Shape
<1>4. \A q \in Requesters : ~Holder(q)'
  BY <1>1, <1>2, <1>3 DEF Checkouts, Holder
<1>5. \A q \in Requesters : request'[q].at # "store"
  BY <1>4 DEF Holder
<1>6. \A q \in Requesters : request'[q].at \in {"unlock", "pay"} =>
          request'[q].customer = subscription'.customer /\ subscription'.customer # NoCustomer
  BY <1>1, <1>2, <1>3 DEF Checkouts
<1>7. Checkouts'
  BY <1>1, <1>4, <1>5, <1>6 DEF Checkouts
<1> QED
  BY <1>1, <1>7, StripeUntouched

LEMMA LapsedFree ==
    ASSUME BillingInv, Checkouts, InOrder, Synchronized, LockLapses, disturbances = 0, disturbances' = 0
    PROVE  Checkouts' /\ InOrder' /\ Synchronized'
<1>1. UNCHANGED <<sub, stripeEvent, marked, subscription, request>> /\ \A p \in Requesters : ~Holder(p)
  BY DEF LockLapses, stripeVars, Holder
<1>2. Checkouts'
  BY <1>1 DEF Checkouts, Holder
<1> QED
  BY <1>1, <1>2, StripeUntouched

LEMMA MonthsAside ==
    ASSUME BillingInv, Checkouts, InOrder, Synchronized, NextMonth \/ ResetMonthlyCount
    PROVE  Checkouts' /\ InOrder' /\ Synchronized'
<1>1. UNCHANGED <<sub, stripeEvent, marked, customerLock, request>>
  BY DEF NextMonth, ResetMonthlyCount, stripeVars
<1>2. subscription'.customer = subscription.customer /\ subscription'.plan = subscription.plan
      /\ subscription'.status = subscription.status
  <2>1. CASE subscription' = subscription
    BY <2>1
  <2>2. CASE subscription' # subscription
    <3>1. subscription' = [subscription EXCEPT !.count = 0, !.reset = month]
      BY <2>2 DEF NextMonth, ResetMonthlyCount
    <3>2. subscription' = [exists |-> subscription.exists, customer |-> subscription.customer, plan |-> subscription.plan,
                           status |-> subscription.status, count |-> 0, reset |-> month]
      BY <3>1, RowForm
    <3> QED
      BY <3>2
  <2> QED
    BY <2>1, <2>2
<1> QED
  BY <1>1, <1>2, SameCustomer, StripeUntouched

\* Stripe emits one event more, after all there were.
LEMMA Emitted ==
    ASSUME BillingInv, InOrder, NEW kind, NEW snapshot, Emit(kind, snapshot)
    PROVE  \E e \in Unused :
              /\ \A f \in Unused : e <= f
              /\ stripeEvent' = [stripeEvent EXCEPT ![e] = [kind |-> kind, sub |-> snapshot, at |-> "pending"]]
<1>1. Unused # {} /\ Unused \subseteq Nat
  BY BillingAssumption DEF Emit, Unused, StripeEventId
<1>2. \E e \in Unused : \A f \in Unused : e <= f
  <2>1. PICK e \in Unused : \A f \in Unused : <<f, e>> \notin OpToRel(<, Nat)
    BY <1>1, WFMin, NatLessThanWellFounded
  <2>2. \A f \in Unused : e <= f
    <3> SUFFICES ASSUME NEW f \in Unused PROVE e <= f
      OBVIOUS
    <3>1. ~(f < e)
      BY <1>1, <2>1 DEF OpToRel
    <3> QED
      BY <1>1, <3>1
  <2> QED
    BY <2>2
<1> DEFINE e0 == CHOOSE e \in Unused : \A f \in Unused : e <= f
<1>3. e0 \in Unused /\ \A f \in Unused : e0 <= f
  BY <1>2
<1>4. stripeEvent' = [stripeEvent EXCEPT ![e0] = [kind |-> kind, sub |-> snapshot, at |-> "pending"]]
  BY DEF Emit
<1> HIDE DEF e0
<1> QED
  BY <1>3, <1>4

LEMMA SubscriptionChanges ==
    ASSUME BillingInv, InOrder, Synchronized, NEW kind \in {"updated", "deleted"}, NEW next, Emit(kind, next), sub' = next,
           UNCHANGED <<subscription, marked>>,
           next = [customer |-> next.customer, plan |-> next.plan, status |-> next.status], next.plan = "PAID",
           next.status \in {"active", "past_due", "canceled"}, kind = "deleted" => next.status = "canceled",
           sub.status # "none" => next.customer = sub.customer
    PROVE  InOrder' /\ Synchronized'
<1> DEFINE x == [kind |-> kind, sub |-> next, at |-> "pending"]
<1>1. PICK e0 \in Unused : (\A f \in Unused : e0 <= f) /\ stripeEvent' = [stripeEvent EXCEPT ![e0] = x]
  BY Emitted
<1>2. IsEvent(x) /\ x.kind = kind /\ x.sub = next /\ x.at = "pending" /\ kind # "none"
  BY DEF IsEvent
<1> HIDE DEF x
<1>3. e0 \in StripeEventId /\ stripeEvent[e0].kind = "none" /\ StripeEventId \subseteq Nat
  BY DEF Unused, StripeEventId
<1>4. /\ stripeEvent' = [e \in StripeEventId |-> stripeEvent'[e]]
      /\ \A e \in StripeEventId : stripeEvent'[e] = IF e = e0 THEN x ELSE stripeEvent[e]
  BY <1>1, <1>3 DEF InOrder
<1>5. \A e, f \in StripeEventId : stripeEvent'[e].kind # "none" /\ stripeEvent'[f].kind = "none" => e < f
  <2> SUFFICES ASSUME NEW e \in StripeEventId, NEW f \in StripeEventId, stripeEvent'[e].kind # "none",
                      stripeEvent'[f].kind = "none"
               PROVE  e < f
    OBVIOUS
  <2>1. f # e0 /\ stripeEvent[f].kind = "none"
    BY <1>2, <1>4
  <2>2. CASE e = e0
    <3>1. e0 <= f
      BY <1>1, <2>1 DEF Unused
    <3> QED
      BY <1>3, <2>1, <2>2, <3>1
  <2>3. CASE e # e0
    BY <1>4, <2>1, <2>3 DEF InOrder
  <2> QED
    BY <2>2, <2>3
<1>6. \A e \in StripeEventId : stripeEvent'[e].kind = "none" => stripeEvent'[e].at = "done" /\ e \notin marked
  BY <1>2, <1>4 DEF InOrder
<1>7. \A e \in StripeEventId : stripeEvent'[e].at = "pending" => e \notin marked
  BY <1>3, <1>4 DEF InOrder
<1>8. \A e, f \in StripeEventId : stripeEvent'[e].at = "apply" /\ f < e => stripeEvent'[f].at = "done"
  <2> SUFFICES ASSUME NEW e \in StripeEventId, NEW f \in StripeEventId, stripeEvent'[e].at = "apply", f < e
               PROVE  stripeEvent'[f].at = "done"
    OBVIOUS
  <2>1. e # e0 /\ stripeEvent[e].at = "apply"
    BY <1>2, <1>4
  <2>2. stripeEvent[e].kind # "none"
    BY <2>1 DEF InOrder
  <2>3. e < e0
    BY <1>3, <2>2 DEF InOrder
  <2>4. f # e0
    BY <1>3, <2>3
  <2> QED
    BY <1>4, <2>1, <2>4 DEF InOrder
<1>9. InOrder'
  <2>1. sub' = [customer |-> sub'.customer, plan |-> sub'.plan, status |-> sub'.status]
        /\ sub'.status \in {"none", "active", "past_due", "canceled"} /\ sub'.status # "none" /\ sub'.plan = "PAID"
    OBVIOUS
  <2>2. \A e \in StripeEventId : IsEvent(stripeEvent'[e])
    BY <1>2, <1>4 DEF InOrder
  <2> QED
    BY <1>4, <1>5, <1>6, <1>7, <1>8, <2>1, <2>2 DEF InOrder
<1>10. Synchronized'
  <2>1. Carries(e0)'
    BY <1>2, <1>3, <1>4 DEF Carries
  <2>2. \A e \in StripeEventId \ {e0} : Carries(e)' => Carries(e) /\ e < e0 /\ sub.status # "none"
    BY <1>3, <1>4 DEF Carries, InOrder
  <2>3. \A e \in StripeEventId : Carries(e)' => stripeEvent'[e].sub.customer = sub'.customer
    BY <1>2, <1>4, <2>2 DEF Synchronized
  <2>4. \A e \in StripeEventId : Carries(e)' /\ (\A f \in StripeEventId : f > e => ~Carries(f)') => UpToDate(e)'
    <3> SUFFICES ASSUME NEW e \in StripeEventId, Carries(e)', \A f \in StripeEventId : f > e => ~Carries(f)'
                 PROVE  UpToDate(e)'
      OBVIOUS
    <3>1. e = e0
      BY <1>3, <2>1, <2>2
    <3> QED
      BY <1>2, <1>4, <3>1 DEF UpToDate
  <2> QED
    BY <1>3, <2>1, <2>3, <2>4 DEF Synchronized
<1> QED
  BY <1>9, <1>10

LEMMA InvoiceEmitted ==
    ASSUME BillingInv, Checkouts, InOrder, Synchronized, Invoice
    PROVE  Checkouts' /\ InOrder' /\ Synchronized'
<1>1. UNCHANGED <<subscription, sub, marked, customerLock, request>> /\ sub.status # "none"
  BY DEF Invoice
<1>2. PICK kind \in {"paid", "failed"} : Emit(kind, NoSub)
  BY DEF Invoice
<1> DEFINE x == [kind |-> kind, sub |-> NoSub, at |-> "pending"]
<1>3. PICK e0 \in Unused : (\A f \in Unused : e0 <= f) /\ stripeEvent' = [stripeEvent EXCEPT ![e0] = x]
  BY <1>2, Emitted
<1>4. IsEvent(x) /\ x.kind = kind /\ x.at = "pending" /\ kind \notin {"none", "updated", "deleted"}
  BY DEF IsEvent
<1> HIDE DEF x
<1>5. e0 \in StripeEventId /\ stripeEvent[e0].kind = "none" /\ StripeEventId \subseteq Nat
  BY DEF Unused, StripeEventId
<1>6. /\ stripeEvent' = [e \in StripeEventId |-> stripeEvent'[e]]
      /\ \A e \in StripeEventId : stripeEvent'[e] = IF e = e0 THEN x ELSE stripeEvent[e]
  BY <1>3, <1>5 DEF InOrder
<1>7. \A e, f \in StripeEventId : stripeEvent'[e].kind # "none" /\ stripeEvent'[f].kind = "none" => e < f
  <2> SUFFICES ASSUME NEW e \in StripeEventId, NEW f \in StripeEventId, stripeEvent'[e].kind # "none",
                      stripeEvent'[f].kind = "none"
               PROVE  e < f
    OBVIOUS
  <2>1. f # e0 /\ stripeEvent[f].kind = "none"
    BY <1>4, <1>6
  <2>2. CASE e = e0
    <3>1. e0 <= f
      BY <1>3, <2>1 DEF Unused
    <3> QED
      BY <1>5, <2>1, <2>2, <3>1
  <2>3. CASE e # e0
    BY <1>6, <2>1, <2>3 DEF InOrder
  <2> QED
    BY <2>2, <2>3
<1>8. \A e \in StripeEventId : stripeEvent'[e].kind = "none" => stripeEvent'[e].at = "done" /\ e \notin marked
  BY <1>4, <1>6 DEF InOrder
<1>9. \A e \in StripeEventId : stripeEvent'[e].at = "pending" => e \notin marked
  BY <1>5, <1>6 DEF InOrder
<1>10. \A e, f \in StripeEventId : stripeEvent'[e].at = "apply" /\ f < e => stripeEvent'[f].at = "done"
  <2> SUFFICES ASSUME NEW e \in StripeEventId, NEW f \in StripeEventId, stripeEvent'[e].at = "apply", f < e
               PROVE  stripeEvent'[f].at = "done"
    OBVIOUS
  <2>1. e # e0 /\ stripeEvent[e].at = "apply"
    BY <1>4, <1>6
  <2>2. stripeEvent[e].kind # "none"
    BY <2>1 DEF InOrder
  <2>3. e < e0
    BY <1>5, <2>2 DEF InOrder
  <2>4. f # e0
    BY <1>5, <2>3
  <2> QED
    BY <1>6, <2>1, <2>4 DEF InOrder
<1>11. InOrder'
  <2>1. \A e \in StripeEventId : IsEvent(stripeEvent'[e])
    BY <1>4, <1>6 DEF InOrder
  <2> QED
    BY <1>1, <1>6, <1>7, <1>8, <1>9, <1>10, <2>1 DEF InOrder
<1>12. Synchronized'
  <2>1. \A e \in StripeEventId : Carries(e)' <=> Carries(e)
    BY <1>4, <1>5, <1>6 DEF Carries
  <2>2. \A e \in StripeEventId : Carries(e) => stripeEvent'[e] = stripeEvent[e]
    BY <1>5, <1>6 DEF Carries
  <2>3. \A e \in StripeEventId : Carries(e) /\ UpToDate(e) => UpToDate(e)'
    BY <1>1, <2>2 DEF UpToDate
  <2>4. InSync' = InSync
    BY <1>1 DEF InSync
  <2> QED
    BY <1>1, <2>1, <2>2, <2>3, <2>4 DEF Synchronized
<1> QED
  BY <1>1, <1>11, <1>12, SameCustomer

LEMMA StripeChanges ==
    ASSUME BillingInv, Checkouts, InOrder, Synchronized, Unpaid \/ Cancelled
    PROVE  Checkouts' /\ InOrder' /\ Synchronized'
<1>1. UNCHANGED <<subscription, marked, customerLock, request>>
  BY DEF Unpaid, Cancelled, Changes
<1>2. PICK kind \in {"updated", "deleted"}, status \in {"past_due", "canceled"} :
         /\ kind = "deleted" => status = "canceled"
         /\ Emit(kind, [sub EXCEPT !.status = status]) /\ sub' = [sub EXCEPT !.status = status] /\ sub.status # "none"
  BY DEF Unpaid, Cancelled, Changes
<1> DEFINE next == [sub EXCEPT !.status = status]
<1>3. Emit(kind, next) /\ sub' = next
  BY <1>2
<1>4. /\ next = [customer |-> next.customer, plan |-> next.plan, status |-> next.status]
      /\ next.plan = "PAID" /\ next.status = status /\ next.customer = sub.customer
  <2>1. sub = [customer |-> sub.customer, plan |-> sub.plan, status |-> sub.status] /\ sub.plan = "PAID"
    BY <1>2 DEF InOrder
  <2>2. next = [customer |-> sub.customer, plan |-> sub.plan, status |-> status]
    BY <2>1
  <2> QED
    BY <2>1, <2>2
<1> HIDE DEF next
<1>5. InOrder' /\ Synchronized'
  BY <1>1, <1>2, <1>3, <1>4, SubscriptionChanges
<1>6. Checkouts'
  BY <1>1, <1>2, <1>3, <1>4, SameCustomer
<1> QED
  BY <1>5, <1>6

LEMMA SubscribedOnce ==
    ASSUME BillingInv, Checkouts, InOrder, Synchronized, NEW p \in Requesters, Subscribe(p)
    PROVE  Checkouts' /\ InOrder' /\ Synchronized'
<1>1. UNCHANGED <<subscription, marked, customerLock>> /\ request[p].at = "pay" /\ sub.status = "none"
  BY DEF Subscribe, Changes, Turn
<1> DEFINE next == [customer |-> request[p].customer, plan |-> "PAID", status |-> "active"]
           r == [at |-> "idle", customer |-> request[p].customer]
<1>2. Emit("updated", next) /\ sub' = next
  BY DEF Subscribe, Changes
<1>3. /\ next = [customer |-> next.customer, plan |-> next.plan, status |-> next.status]
      /\ next.plan = "PAID" /\ next.status = "active" /\ next.customer = request[p].customer
  OBVIOUS
<1>4. request' = [request EXCEPT ![p] = r] /\ r.at = "idle"
  BY TurnMoves DEF BillingInv, Subscribe
<1> HIDE DEF next, r
<1>5. InOrder' /\ Synchronized'
  BY <1>1, <1>2, <1>3, SubscriptionChanges
<1>6. \A q \in Requesters : request'[q] = IF q = p THEN r ELSE request[q]
  BY <1>4 DEF BillingInv, Shape
<1>7. Checkouts'
  <2>1. \A q \in Requesters : Holder(q)' => Holder(q)
    BY <1>4, <1>6 DEF Holder
  <2>2. \A q \in Requesters : request'[q].at \in {"store", "unlock", "pay"} => request'[q] = request[q]
    BY <1>4, <1>6
  <2>3. sub'.customer = subscription'.customer /\ subscription'.customer # NoCustomer
    BY <1>1, <1>2, <1>3 DEF Checkouts
  <2> QED
    BY <1>1, <2>1, <2>2, <2>3 DEF Checkouts
<1> QED
  BY <1>5, <1>7

-----------------------------------------------------------------------------
(* The events, one after the other.                                        *)

LEMMA TurnedMoves ==
    ASSUME InOrder, NEW e \in StripeEventId, NEW from, NEW to, Turned(e, from, to)
    PROVE  /\ stripeEvent[e].at = from /\ stripeEvent' = [f \in StripeEventId |-> stripeEvent'[f]]
           /\ \A f \in StripeEventId : f # e => stripeEvent'[f] = stripeEvent[f]
           /\ IsEvent(stripeEvent'[e]) /\ stripeEvent'[e].at = to
           /\ stripeEvent'[e].kind = stripeEvent[e].kind /\ stripeEvent'[e].sub = stripeEvent[e].sub
<1>1. stripeEvent[e].at = from /\ stripeEvent' = [stripeEvent EXCEPT ![e].at = to]
  BY DEF Turned
<1>2. stripeEvent = [f \in StripeEventId |-> stripeEvent[f]]
      /\ stripeEvent[e] = [kind |-> stripeEvent[e].kind, sub |-> stripeEvent[e].sub, at |-> stripeEvent[e].at]
  BY DEF InOrder, IsEvent
<1>3. [stripeEvent[e] EXCEPT !.at = to] = [kind |-> stripeEvent[e].kind, sub |-> stripeEvent[e].sub, at |-> to]
  BY <1>2
<1>4. stripeEvent'[e] = [kind |-> stripeEvent[e].kind, sub |-> stripeEvent[e].sub, at |-> to]
  BY <1>1, <1>2, <1>3
<1> QED
  BY <1>1, <1>2, <1>4 DEF IsEvent

LEMMA MarkedInOrder ==
    ASSUME BillingInv, Checkouts, InOrder, Synchronized, NEW e0 \in StripeEventId, Mark(e0), disturbances = 0, disturbances' = 0
    PROVE  Checkouts' /\ InOrder' /\ Synchronized'
<1>1. UNCHANGED <<subscription, sub, customerLock, request>> /\ marked' = marked \cup {e0}
  BY DEF Mark
<1>2. Turned(e0, "pending", "apply")
  BY DEF Mark, Turned, InOrder
<1>3. \A f \in StripeEventId : f < e0 => stripeEvent[f].at = "done"
  BY DEF Mark, EarlierOpen
<1>4. /\ stripeEvent[e0].at = "pending" /\ stripeEvent' = [f \in StripeEventId |-> stripeEvent'[f]]
      /\ \A f \in StripeEventId : f # e0 => stripeEvent'[f] = stripeEvent[f]
      /\ IsEvent(stripeEvent'[e0]) /\ stripeEvent'[e0].at = "apply"
      /\ stripeEvent'[e0].kind = stripeEvent[e0].kind /\ stripeEvent'[e0].sub = stripeEvent[e0].sub
  BY <1>2, TurnedMoves
<1>5. stripeEvent[e0].kind # "none" /\ StripeEventId \subseteq Nat
  BY <1>4 DEF InOrder, StripeEventId
<1>6. \A e \in StripeEventId : stripeEvent'[e].kind = stripeEvent[e].kind /\ stripeEvent'[e].sub = stripeEvent[e].sub
  BY <1>4
<1>7. \A e, f \in StripeEventId : stripeEvent'[e].at = "apply" /\ f < e => stripeEvent'[f].at = "done"
  <2> SUFFICES ASSUME NEW e \in StripeEventId, NEW f \in StripeEventId, stripeEvent'[e].at = "apply", f < e
               PROVE  stripeEvent'[f].at = "done"
    OBVIOUS
  <2>1. CASE e = e0
    BY <1>3, <1>4, <1>5, <2>1
  <2>2. CASE e # e0
    <3>1. stripeEvent[e].at = "apply"
      BY <1>4, <2>2
    <3>2. stripeEvent[f].at = "done"
      BY <3>1 DEF InOrder
    <3> QED
      BY <1>4, <3>2
  <2> QED
    BY <2>1, <2>2
<1>8. \A e \in StripeEventId : stripeEvent'[e].kind = "none" => stripeEvent'[e].at = "done" /\ e \notin marked'
  BY <1>1, <1>4, <1>5, <1>6 DEF InOrder
<1>9. \A e \in StripeEventId : stripeEvent'[e].at = "pending" => e \notin marked'
  BY <1>1, <1>4 DEF InOrder
<1>10. InOrder'
  <2>1. \A e \in StripeEventId : IsEvent(stripeEvent'[e])
    BY <1>4 DEF InOrder
  <2> QED
    BY <1>1, <1>4, <1>6, <1>7, <1>8, <1>9, <2>1 DEF InOrder
<1>11. Synchronized'
  <2>1. \A e \in StripeEventId : (Carries(e)' <=> Carries(e)) /\ (UpToDate(e)' <=> UpToDate(e))
    BY <1>1, <1>4, <1>6 DEF Carries, UpToDate
  <2>2. InSync' = InSync
    BY <1>1 DEF InSync
  <2> QED
    BY <1>1, <1>6, <2>1, <2>2 DEF Synchronized
<1> QED
  BY <1>1, <1>10, <1>11, SameCustomer

\* An invoice carries no subscription: whoever asks for it gets it as it is.
LEMMA RetrievedAsItIs ==
    ASSUME BillingInv, Checkouts, InOrder, Synchronized, NEW e0 \in StripeEventId, Retrieve(e0)
    PROVE  Checkouts' /\ InOrder' /\ Synchronized'
<1>1. UNCHANGED <<subscription, sub, marked, customerLock, request>> /\ stripeEvent[e0].at = "apply"
      /\ stripeEvent[e0].kind \in {"paid", "failed"}
  BY DEF Retrieve
<1>2. stripeEvent[e0] = [kind |-> stripeEvent[e0].kind, sub |-> stripeEvent[e0].sub, at |-> stripeEvent[e0].at]
      /\ stripeEvent = [f \in StripeEventId |-> stripeEvent[f]] /\ StripeEventId \subseteq Nat
  BY DEF InOrder, IsEvent, StripeEventId
<1>3. PICK x : /\ stripeEvent' = [stripeEvent EXCEPT ![e0] = x] /\ IsEvent(x) /\ x.kind # "none"
               /\ x.at \in {"done", "apply"}
               /\ x.at # "done" => x.kind = "updated" /\ x.sub = sub
               /\ x.kind # "deleted"
  <2> DEFINE y == [kind |-> stripeEvent[e0].kind, sub |-> stripeEvent[e0].sub, at |-> "done"]
             z == [kind |-> "updated", sub |-> sub, at |-> "apply"]
  <2>1. [stripeEvent[e0] EXCEPT !.at = "done"] = y
    BY <1>2
  <2>2. stripeEvent' = [stripeEvent EXCEPT ![e0] = y] \/ stripeEvent' = [stripeEvent EXCEPT ![e0] = z]
    BY <1>2, <2>1 DEF Retrieve
  <2>3. IsEvent(y) /\ y.kind = stripeEvent[e0].kind /\ y.at = "done"
        /\ IsEvent(z) /\ z.kind = "updated" /\ z.at = "apply" /\ z.sub = sub
    BY DEF IsEvent
  <2> HIDE DEF y, z
  <2> QED
    BY <1>1, <2>2, <2>3
<1>4. /\ stripeEvent' = [f \in StripeEventId |-> stripeEvent'[f]]
      /\ \A f \in StripeEventId : stripeEvent'[f] = IF f = e0 THEN x ELSE stripeEvent[f]
  BY <1>2, <1>3
<1>5. \A f \in StripeEventId : f < e0 => stripeEvent[f].at = "done"
  BY <1>1 DEF InOrder
<1>6. \A e \in StripeEventId : stripeEvent'[e].kind = "none" <=> stripeEvent[e].kind = "none"
  BY <1>1, <1>3, <1>4
<1>7. \A e, f \in StripeEventId : stripeEvent'[e].at = "apply" /\ f < e => stripeEvent'[f].at = "done"
  <2> SUFFICES ASSUME NEW e \in StripeEventId, NEW f \in StripeEventId, stripeEvent'[e].at = "apply", f < e
               PROVE  stripeEvent'[f].at = "done"
    OBVIOUS
  <2>1. stripeEvent[e].at = "apply"
    BY <1>1, <1>4
  <2>2. stripeEvent[f].at = "done"
    BY <2>1 DEF InOrder
  <2> QED
    BY <1>1, <1>4, <2>2
<1>8. InOrder'
  <2>1. \A e \in StripeEventId : IsEvent(stripeEvent'[e])
    BY <1>3, <1>4 DEF InOrder
  <2>2. \A e \in StripeEventId : stripeEvent'[e].kind = "none" => stripeEvent'[e].at = "done" /\ e \notin marked'
    BY <1>1, <1>3, <1>4 DEF InOrder
  <2>3. \A e \in StripeEventId : stripeEvent'[e].at = "pending" => e \notin marked'
    BY <1>1, <1>3, <1>4 DEF InOrder
  <2> QED
    BY <1>1, <1>4, <1>6, <1>7, <2>1, <2>2, <2>3 DEF InOrder
<1>9. Synchronized'
  <2>1. \A e \in StripeEventId : Carries(e) => Carries(e)' /\ stripeEvent'[e] = stripeEvent[e]
    BY <1>1, <1>4 DEF Carries
  <2>2. \A e \in StripeEventId : e # e0 /\ Carries(e)' => Carries(e)
    BY <1>4 DEF Carries
  <2>3. \A e \in StripeEventId : Carries(e)' => stripeEvent'[e].sub.customer = sub'.customer
    <3> SUFFICES ASSUME NEW e \in StripeEventId, Carries(e)' PROVE stripeEvent'[e].sub.customer = sub.customer
      BY <1>1
    <3>1. CASE e = e0
      BY <1>3, <1>4, <3>1 DEF Carries
    <3>2. CASE e # e0
      BY <2>1, <2>2, <3>2 DEF Synchronized
    <3> QED
      BY <3>1, <3>2
  <2>4. \A e \in StripeEventId : Carries(e)' /\ (\A f \in StripeEventId : f > e => ~Carries(f)') => UpToDate(e)'
    <3> SUFFICES ASSUME NEW e \in StripeEventId, Carries(e)', \A f \in StripeEventId : f > e => ~Carries(f)'
                 PROVE  UpToDate(e)'
      OBVIOUS
    <3>1. CASE e = e0
      BY <1>1, <1>3, <1>4, <3>1 DEF UpToDate, Carries
    <3>2. CASE e # e0
      <4>1. Carries(e) /\ \A f \in StripeEventId : f > e => ~Carries(f)
        BY <2>1, <2>2, <3>2
      <4>2. UpToDate(e)
        BY <4>1 DEF Synchronized
      <4> QED
        BY <1>1, <2>1, <4>1, <4>2 DEF UpToDate
    <3> QED
      BY <3>1, <3>2
  <2>5. sub'.status # "none" /\ (\A e \in StripeEventId : ~Carries(e)') => InSync'
    <3> SUFFICES ASSUME sub'.status # "none", \A e \in StripeEventId : ~Carries(e)' PROVE InSync'
      OBVIOUS
    <3>1. InSync
      BY <1>1, <2>1 DEF Synchronized
    <3> QED
      BY <1>1, <3>1 DEF InSync
  <2> QED
    BY <2>3, <2>4, <2>5 DEF Synchronized
<1> QED
  BY <1>1, <1>8, <1>9, SameCustomer

LEMMA AppliedLast ==
    ASSUME BillingInv, Checkouts, InOrder, Synchronized, NEW e0 \in StripeEventId, Apply(e0)
    PROVE  Checkouts' /\ InOrder' /\ Synchronized'
<1>1. UNCHANGED <<sub, marked, customerLock, request>> /\ Turned(e0, "apply", "done")
      /\ stripeEvent[e0].kind \in {"updated", "deleted"}
  BY DEF Apply
<1>2. /\ stripeEvent[e0].at = "apply" /\ stripeEvent' = [f \in StripeEventId |-> stripeEvent'[f]]
      /\ \A f \in StripeEventId : f # e0 => stripeEvent'[f] = stripeEvent[f]
      /\ IsEvent(stripeEvent'[e0]) /\ stripeEvent'[e0].at = "done"
      /\ stripeEvent'[e0].kind = stripeEvent[e0].kind /\ stripeEvent'[e0].sub = stripeEvent[e0].sub
  BY <1>1, TurnedMoves
<1>3. Carries(e0) /\ sub.status # "none" /\ StripeEventId \subseteq Nat
  BY <1>1, <1>2 DEF Carries, InOrder, StripeEventId
<1>4. stripeEvent[e0].sub.customer = subscription.customer
  BY <1>3 DEF Synchronized, Checkouts
<1>5. /\ subscription'.customer = subscription.customer
      /\ stripeEvent[e0].kind = "updated" =>
            /\ subscription'.plan = stripeEvent[e0].sub.plan
            /\ subscription'.status = ResolveStatus(stripeEvent[e0].sub.status)
      /\ stripeEvent[e0].kind = "deleted" => subscription'.status = "CANCELED"
  <2>1. CASE stripeEvent[e0].kind = "updated"
    <3> DEFINE status == ResolveStatus(stripeEvent[e0].sub.status)
    <3>1. subscription' = [subscription EXCEPT !.plan = stripeEvent[e0].sub.plan, !.status = status]
      BY <1>4, <2>1 DEF Apply, Synced
    <3> HIDE DEF status
    <3>2. subscription' = [exists |-> subscription.exists, customer |-> subscription.customer,
                           plan |-> stripeEvent[e0].sub.plan, status |-> status,
                           count |-> subscription.count, reset |-> subscription.reset]
      BY <3>1, RowForm
    <3> QED
      BY <2>1, <3>2 DEF status
  <2>2. CASE stripeEvent[e0].kind = "deleted"
    <3>1. subscription' = [subscription EXCEPT !.plan = "FREE", !.status = "CANCELED"]
      BY <1>4, <2>2 DEF Apply, Canceled
    <3>2. subscription' = [exists |-> subscription.exists, customer |-> subscription.customer, plan |-> "FREE",
                           status |-> "CANCELED", count |-> subscription.count, reset |-> subscription.reset]
      BY <3>1, RowForm
    <3> QED
      BY <2>2, <3>2
  <2> QED
    BY <1>1, <2>1, <2>2
<1>6. InOrder'
  <2>1. \A e \in StripeEventId : IsEvent(stripeEvent'[e]) /\ stripeEvent'[e].kind = stripeEvent[e].kind
                                 /\ (stripeEvent'[e].at = stripeEvent[e].at \/ stripeEvent'[e].at = "done")
    BY <1>2 DEF InOrder
  <2>2. \A e, f \in StripeEventId : stripeEvent'[e].at = "apply" /\ f < e => stripeEvent'[f].at = "done"
    <3> SUFFICES ASSUME NEW e \in StripeEventId, NEW f \in StripeEventId, stripeEvent'[e].at = "apply", f < e
                 PROVE  stripeEvent'[f].at = "done"
      OBVIOUS
    <3>1. stripeEvent[e].at = "apply"
      BY <2>1
    <3>2. stripeEvent[f].at = "done"
      BY <3>1 DEF InOrder
    <3> QED
      BY <2>1, <3>2
  <2>3. \A e \in StripeEventId : stripeEvent'[e].kind = "none" => stripeEvent'[e].at = "done" /\ e \notin marked'
    BY <1>1, <2>1 DEF InOrder
  <2>4. \A e \in StripeEventId : stripeEvent'[e].at = "pending" => e \notin marked'
    BY <1>1, <2>1 DEF InOrder
  <2> QED
    BY <1>1, <1>2, <2>1, <2>2, <2>3, <2>4 DEF InOrder
<1>7. Synchronized'
  <2>1. ~Carries(e0)' /\ \A e \in StripeEventId : e # e0 => (Carries(e)' <=> Carries(e)) /\ (UpToDate(e)' <=> UpToDate(e))
    BY <1>1, <1>2 DEF Carries, UpToDate
  <2>2. \A e \in StripeEventId : Carries(e)' => stripeEvent'[e].sub.customer = sub'.customer
    BY <1>1, <1>2, <2>1 DEF Synchronized
  <2>3. \A e \in StripeEventId : Carries(e)' /\ (\A f \in StripeEventId : f > e => ~Carries(f)') => UpToDate(e)'
    <3> SUFFICES ASSUME NEW e \in StripeEventId, Carries(e)', \A f \in StripeEventId : f > e => ~Carries(f)'
                 PROVE  UpToDate(e)'
      OBVIOUS
    <3>1. e # e0 /\ Carries(e)
      BY <2>1
    <3>2. ~(e < e0)
      <4>1. e < e0 => stripeEvent[e].at = "done"
        BY <1>2 DEF InOrder
      <4> QED
        BY <3>1, <4>1 DEF Carries
    <3>3. \A f \in StripeEventId : f > e => ~Carries(f)
      BY <1>3, <2>1, <3>1, <3>2
    <3>4. UpToDate(e)
      BY <3>1, <3>3 DEF Synchronized
    <3> QED
      BY <2>1, <3>1, <3>4
  <2>4. sub'.status # "none" /\ (\A e \in StripeEventId : ~Carries(e)') => InSync'
    <3> SUFFICES ASSUME \A e \in StripeEventId : ~Carries(e)' PROVE InSync'
      OBVIOUS
    <3>1. \A f \in StripeEventId : f > e0 => ~Carries(f)
      BY <1>3, <2>1
    <3>2. UpToDate(e0)
      BY <1>3, <3>1 DEF Synchronized
    <3>3. CASE stripeEvent[e0].kind = "updated"
      <4>1. subscription'.plan = sub.plan /\ subscription'.status = ResolveStatus(sub.status) /\ sub.plan = "PAID"
        BY <1>3, <1>5, <3>2, <3>3 DEF UpToDate, InOrder
      <4> QED
        BY <1>1, <4>1 DEF InSync
    <3>4. CASE stripeEvent[e0].kind = "deleted"
      <4>1. sub.status = "canceled" /\ subscription'.status = "CANCELED"
        BY <1>5, <3>2, <3>4 DEF UpToDate
      <4>2. ResolveStatus(sub.status) = "CANCELED"
        BY <4>1 DEF ResolveStatus
      <4> QED
        BY <1>1, <4>1, <4>2 DEF InSync, ResolveStatus
    <3> QED
      BY <1>1, <3>3, <3>4
  <2> QED
    BY <2>2, <2>3, <2>4 DEF Synchronized
<1> QED
  BY <1>1, <1>5, <1>6, <1>7, SameCustomer

LEMMA Resynced ==
    ASSUME BillingInv, Checkouts, InOrder, Synchronized, Resync
    PROVE  Checkouts' /\ InOrder' /\ Synchronized'
<1>1. UNCHANGED <<sub, stripeEvent, marked, customerLock, request>> /\ subscription.customer = sub.customer
  BY DEF Resync, stripeVars
<1>2. subscription'.customer = subscription.customer /\ subscription'.plan = sub.plan
      /\ subscription'.status = ResolveStatus(sub.status)
  <2> DEFINE status == ResolveStatus(sub.status)
  <2>1. subscription' = [subscription EXCEPT !.plan = sub.plan, !.status = status]
    BY <1>1 DEF Resync, Synced
  <2> HIDE DEF status
  <2>2. subscription' = [exists |-> subscription.exists, customer |-> subscription.customer, plan |-> sub.plan,
                         status |-> status, count |-> subscription.count, reset |-> subscription.reset]
    BY <2>1, RowForm
  <2> QED
    BY <2>2 DEF status
<1>3. InOrder'
  BY <1>1 DEF InOrder
<1>4. Synchronized'
  <2>1. \A e \in StripeEventId : Carries(e)' = Carries(e) /\ UpToDate(e)' = UpToDate(e)
    BY <1>1 DEF Carries, UpToDate
  <2>2. sub.status # "none" => InSync'
    BY <1>1, <1>2 DEF InSync, InOrder
  <2> QED
    BY <1>1, <2>1, <2>2 DEF Synchronized
<1> QED
  BY <1>1, <1>2, <1>3, <1>4, SameCustomer

LEMMA PlanStep == ASSUME BillingInv, PlanInv, [BillingNext]_billingVars PROVE PlanInv'
<1> SUFFICES ASSUME disturbances' = 0 PROVE Checkouts' /\ InOrder' /\ Synchronized'
  BY DEF PlanInv
<1>1. disturbances = 0
  BY Undisturbed
<1>2. Checkouts /\ InOrder /\ Synchronized
  BY <1>1 DEF PlanInv
<1>3. ASSUME NEW p \in Requesters, RequestStep(p) PROVE Checkouts' /\ InOrder' /\ Synchronized'
  <2>1. ~RequestFails(p)
    BY <1>1 DEF RequestFails
  <2> QED
    BY <1>2, <1>3, <2>1, SendsAside, CheckoutsAside, LockTakenAlone, CreatedAlone, StoredAlone, UnlockedAlone, SubscribedOnce
       DEF RequestStep
<1>4. ASSUME NEW e \in StripeEventId, StripeHandler(e) PROVE Checkouts' /\ InOrder' /\ Synchronized'
  <2>1. ~StripeHandlerFails(e)
    BY <1>1 DEF StripeHandlerFails
  <2> QED
    BY <1>1, <1>2, <1>4, <2>1, MarkedInOrder, RetrievedAsItIs, AppliedLast DEF StripeHandler
<1>5. ASSUME LockLapses \/ Unpaid \/ Cancelled \/ Invoice PROVE Checkouts' /\ InOrder' /\ Synchronized'
  BY <1>1, <1>2, <1>5, LapsedFree, StripeChanges, InvoiceEmitted
<1>6. ASSUME Resync \/ ResetMonthlyCount \/ NextMonth PROVE Checkouts' /\ InOrder' /\ Synchronized'
  BY <1>2, <1>6, Resynced, MonthsAside
<1>7. ASSUME UNCHANGED billingVars PROVE Checkouts' /\ InOrder' /\ Synchronized'
  <2>1. UNCHANGED <<subscription, sub, stripeEvent, marked, customerLock, request>>
    BY <1>7 DEF billingVars
  <2> QED
    BY <1>2, <2>1, SameCustomer, StripeUntouched
<1> QED
  BY <1>3, <1>4, <1>5, <1>6, <1>7 DEF BillingNext

LEMMA PlanBegun == BillingInit => PlanInv
<1> SUFFICES ASSUME BillingInit PROVE Checkouts /\ InOrder /\ Synchronized
  BY DEF PlanInv
<1>1. sub.status = "none" /\ \A p \in Requesters : request[p].at = "idle"
  BY DEF BillingInit, NoSub, NoRequest
<1>2. \A e \in StripeEventId : stripeEvent[e] = NoEvent /\ NoEvent.kind = "none" /\ NoEvent.at = "done"
  BY DEF BillingInit, NoEvent
<1>3. InOrder
  <2>1. IsEvent(NoEvent)
    BY DEF IsEvent, NoEvent
  <2> QED
    BY <1>2, <2>1 DEF BillingInit, InOrder, NoSub
<1> QED
  BY <1>1, <1>2, <1>3 DEF Checkouts, Holder, Synchronized, Carries

\* handleWebhookEvent: as long as no request or handler dies, no event overtakes
\* another and no lock lapses under its holder, the organization has the plan
\* that Stripe says once every event is answered, however payments,
\* cancellations, checkouts and resyncs interleave.
THEOREM PlanAlwaysFollowsStripe == BillingSpec => []PlanFollowsStripe
<1>1. ASSUME PlanInv PROVE PlanFollowsStripe
  <2> SUFFICES ASSUME disturbances = 0, Answered, sub.status # "none"
               PROVE  /\ subscription.customer = sub.customer
                      /\ subscription.status = ResolveStatus(sub.status)
                      /\ PlanLimit(subscription) = IF sub.status = "canceled" THEN FreeLimit ELSE PaidLimit
    BY DEF PlanFollowsStripe
  <2>1. Checkouts /\ InOrder /\ Synchronized
    BY <1>1 DEF PlanInv
  <2>2. InSync
    BY <2>1 DEF Synchronized, Answered, Carries
  <2>3. PlanLimit(subscription) = IF sub.status = "canceled" THEN FreeLimit ELSE PaidLimit
    BY <2>1, <2>2 DEF InSync, PlanLimit, ActiveStatus, ResolveStatus, InOrder
  <2> QED
    BY <2>1, <2>2, <2>3 DEF InSync, Checkouts
<1>2. BillingInit => PlanInv
  BY PlanBegun
<1>3. BillingInv /\ PlanInv /\ [BillingNext]_billingVars => PlanInv'
  BY PlanStep
<1> QED
  BY <1>1, <1>2, <1>3, BillingInvariant, PTL DEF BillingSpec
=============================================================================
