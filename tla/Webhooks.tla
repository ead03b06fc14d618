------------------------------ MODULE Webhooks ------------------------------
(***************************************************************************)
(* The webhooks of ONE endpoint: events dispatched as jobs of JobTracking, *)
(* and SendWebhookHandler, which looks for a recorded success, loads the   *)
(* endpoint, checks where its name resolves to, posts, and records the     *)
(* attempt.  The customer edits, disables or deletes the endpoint, whose   *)
(* answer may be lost after the event has arrived.                         *)
(***************************************************************************)
EXTENDS JobTracking, TLC

VARIABLES
    endpoint,   \* WebhookEndpoint: whether it exists, and is enabled
    sent,       \* events dispatched so far
    posts,      \* how often each event arrived at the customer's
    attempts,   \* WebhookDeliveryAttempt rows: for each event, the values of `success`
    unusable    \* events a handler could not deliver to the endpoint it found

vars == <<queueVars, endpoint, sent, posts, attempts, unusable>>
hookVars == <<endpoint, sent, posts, attempts, unusable>>

-----------------------------------------------------------------------------
(* Plausible bugs, each a form of a definition below (README.md, Mutants). *)

NeverAsked(e)   == FALSE            \* AlreadyDelivered: no replay guard
Swallowed(ok)   == "complete"       \* Outcome: does not throw

-----------------------------------------------------------------------------
(* The endpoint, and dispatchEvent or testEndpoint.                        *)

Send(e) ==
    /\ sent < NumEvents /\ Unsent # {}
    /\ boss' = Sent(e)
    /\ sent' = e
    /\ UNCHANGED <<row, worker, admin, faults, requeues, endpoint, posts, attempts, unusable>>

DispatchEvent == endpoint.enabled /\ Send(sent + 1)
TestEndpoint  == endpoint.exists /\ Send(sent + 1)

UpdateEndpoint ==
    /\ endpoint.exists
    /\ endpoint' = [endpoint EXCEPT !.enabled = ~@]
    /\ UNCHANGED <<queueVars, sent, posts, attempts, unusable>>

\* The attempts refer to it: one that was ever tried cannot be deleted.
DeleteEndpoint ==
    /\ endpoint.exists /\ \A e \in EventId : attempts[e] = {}
    /\ endpoint' = [exists |-> FALSE, enabled |-> FALSE]
    /\ UNCHANGED <<queueVars, sent, posts, attempts, unusable>>

-----------------------------------------------------------------------------
(* The handler.                                                            *)

Handler(w, from, to) == At(w, from) /\ Moved(w, to) /\ UNCHANGED <<boss, row, admin, requeues>>

AlreadyDelivered(e) == TRUE \in attempts[e]

ReplayGuard(w) ==
    /\ Handler(w, "handle", IF AlreadyDelivered(EventOf(w)) THEN "complete" ELSE "load")
    /\ UNCHANGED <<hookVars, faults>>

Usable == endpoint.exists /\ endpoint.enabled

\* Deleted or disabled: nothing to do, and no throw.  A name that resolves to
\* a private address is blocked.
LoadEndpoint(w) ==
    /\ IF Usable THEN Handler(w, "load", "post") \/ Handler(w, "load", "blocked")
       ELSE Handler(w, "load", "complete")
    /\ unusable' = IF Usable THEN unusable ELSE unusable \cup {EventOf(w)}
    /\ UNCHANGED <<endpoint, sent, posts, attempts, faults>>

\* 2xx, or not, or a timeout after the customer has the event all the same.
Post(w) ==
    /\ \E arrives, ok \in BOOLEAN :
          /\ ok => arrives
          /\ arrives /\ ~ok => faults < MaxFaults
          /\ faults' = IF arrives /\ ~ok THEN faults + 1 ELSE faults
          /\ Handler(w, "post", IF ok THEN "arrived" ELSE "refused")
          /\ posts' = IF arrives THEN [posts EXCEPT ![EventOf(w)] = @ + 1] ELSE posts
    /\ UNCHANGED <<endpoint, sent, attempts, unusable>>

Outcome(ok) == IF ok THEN "complete" ELSE "fail"

\* The row refers to the endpoint: without it, the insert throws.
Recorded(w, ok) ==
    attempts' = IF endpoint.exists THEN [attempts EXCEPT ![EventOf(w)] = @ \cup {ok}] ELSE attempts

RecordAttempt(w) ==
    /\ \E ok \in BOOLEAN :
          /\ Handler(w, IF ok THEN "arrived" ELSE "refused", IF endpoint.exists THEN Outcome(ok) ELSE "fail")
          /\ Recorded(w, ok)
    /\ UNCHANGED <<endpoint, sent, posts, unusable, faults>>

RecordBlocked(w) ==
    /\ Handler(w, "blocked", IF endpoint.exists THEN "complete" ELSE "fail")
    /\ Recorded(w, FALSE)
    /\ unusable' = IF endpoint.exists THEN unusable \cup {EventOf(w)} ELSE unusable
    /\ UNCHANGED <<endpoint, sent, posts, faults>>

HandlerFails(w) ==
    /\ faults < MaxFaults /\ faults' = faults + 1
    /\ \E from \in {"handle", "load", "arrived", "refused", "blocked"} : Handler(w, from, "fail")
    /\ UNCHANGED hookVars

-----------------------------------------------------------------------------
Init ==
    /\ QueueInit
    /\ endpoint = [exists |-> TRUE, enabled |-> TRUE]
    /\ sent = 0
    /\ posts = [e \in EventId |-> 0]
    /\ attempts = [e \in EventId |-> {}]
    /\ unusable = {}

Deliver(w) ==
    \/ ReplayGuard(w) \/ LoadEndpoint(w) \/ Post(w) \/ RecordAttempt(w)
    \/ RecordBlocked(w) \/ HandlerFails(w)

Queue ==
    \/ \E w \in Workers : Tracking(w)
    \/ \E b \in JobId : ExpireJob(b)
    \/ Administration

Next ==
    \/ DispatchEvent \/ TestEndpoint \/ UpdateEndpoint \/ DeleteEndpoint
    \/ \E w \in Workers : Deliver(w)
    \/ Queue /\ UNCHANGED hookVars

Spec == Init /\ [][Next]_vars

AnyWorker == Permutations(Workers)      \* symmetry, for TLC

-----------------------------------------------------------------------------
\* An event arrives twice only if a crash, a failed statement, an expiry or a
\* lost answer came in between, or an administrator requeued it: the batches
\* that pg-boss repeats as a whole do not repeat what was recorded.
DuplicatesArePaidFor == \A e \in EventId : posts[e] <= 1 + faults + requeues

\* COMPLETED is true: the success is on record, or the endpoint was found
\* deleted, disabled or blocked.
CompletedIsTrue ==
    \A r \in JobId :
        row[r].status = "COMPLETED" => TRUE \in attempts[row[r].event] \/ row[r].event \in unusable

\* The status a job ends with is true: what is dead is over, what is completed
\* was delivered or could not be.
FinalStatusIsTrue == DeadIsOver /\ CompletedIsTrue
=============================================================================
