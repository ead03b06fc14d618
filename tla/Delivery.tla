------------------------------ MODULE Delivery ------------------------------
(***************************************************************************)
(* The signing link of ONE offer, from send to its end: the e-mails of     *)
(* send, resend and the reminder sweep, the token each stores, the         *)
(* OfferDeliveryAttempt rows, and the ReminderSchedule with its sweep.     *)
(* send and resend store the token and then mail it; a reminder is mailed  *)
(* first.  Statements fail, and processes die, in between.  What the draft *)
(* says is Drafting's; here it is complete.                                *)
(***************************************************************************)
EXTENDS Integers, FiniteSets

CONSTANTS
    Procs,          \* requests, and sweeps, that may run at once
    MaxReminders,   \* reminders of a schedule (3)
    MaxTokens,      \* bound: signing tokens ever generated
    MaxResends,     \* bound: resends begun
    MaxFaults       \* bound: failed statements and crashes

ASSUME DeliveryAssumption ==
    /\ MaxReminders \in Nat \ {0} /\ MaxTokens \in Nat \ {0}
    /\ MaxResends \in Nat /\ MaxFaults \in Nat

Token      == 1..MaxTokens
DraftToken == 0                 \* the placeholder hash `draft_<id>`

VARIABLES
    status,     \* Offer.status
    recipient,  \* OfferRecipient: the token its hash belongs to, invalidated or not
    minted,     \* tokens generated so far
    mailed,     \* tokens whose link reached the recipient's inbox
    attempt,    \* outcome of the OfferDeliveryAttempt row of each token
    schedule,   \* ReminderSchedule: whether there is one, reminderCount, nextReminderAt passed
    req,        \* what each request or sweep has read, and does next
    unrecorded, \* tokens stored by a request that died before it created the attempt row
    resends, faults

vars == <<status, recipient, minted, mailed, attempt, schedule, req, unrecorded, resends, faults>>

-----------------------------------------------------------------------------
(* Plausible bugs, each a form of a definition below (README.md, Mutants). *)

MarkedAnyway  == "DELIVERED"                        \* Failure: not told
SentOnly      ==                                    \* Selected: stale rows filtered out
    schedule.exists /\ schedule.due /\ schedule.count < MaxReminders /\ status = "SENT"

-----------------------------------------------------------------------------
Idle       == [at |-> "idle", token |-> DraftToken, count |-> 0, first |-> FALSE]
NoSchedule == [exists |-> FALSE, count |-> 0, due |-> FALSE]

At(p, step)    == req[p].at = step
Moved(p, step) == [req EXCEPT ![p].at = step]
Done(p)        == [req EXCEPT ![p] = Idle]
Begun(p, step) == [req EXCEPT ![p] = [Idle EXCEPT !.at = step]]
Mint(p, step)  == [req EXCEPT ![p].at = step, ![p].token = minted + 1]

\* The row of a new or a replaced link.
Live(token) == [token |-> token, invalidated |-> FALSE]

-----------------------------------------------------------------------------
(* send() and resend(): the token first, then the e-mail.                  *)

StartSend(p) ==
    /\ At(p, "idle") /\ status = "DRAFT"
    /\ req' = [req EXCEPT ![p] = [Idle EXCEPT !.at = "freeze", !.first = TRUE]]
    /\ UNCHANGED <<status, recipient, minted, mailed, attempt, schedule, unrecorded, resends, faults>>

\* Compare-and-swap: the loser of two sends is rolled back, and mails nothing.
Freeze(p) ==
    /\ At(p, "freeze")
    /\ IF status = "DRAFT"
       THEN /\ status' = "SENT"
            /\ minted' = minted + 1
            /\ recipient' = Live(minted')
            /\ req' = Mint(p, "record")
       ELSE req' = Done(p) /\ UNCHANGED <<status, minted, recipient>>
    /\ UNCHANGED <<mailed, attempt, schedule, unrecorded, resends, faults>>

RecordAttempt(p) ==
    /\ At(p, "record")
    /\ attempt' = [attempt EXCEPT ![req[p].token] = "DISPATCHING"]
    /\ req' = Moved(p, "mail")
    /\ UNCHANGED <<status, recipient, minted, mailed, schedule, unrecorded, resends, faults>>

MailLink(p) ==
    /\ At(p, "mail")
    /\ \/ mailed' = mailed \cup {req[p].token} /\ req' = Moved(p, "delivered")
       \/ UNCHANGED mailed /\ req' = Moved(p, "failed")
    /\ UNCHANGED <<status, recipient, minted, attempt, schedule, unrecorded, resends, faults>>

\* Only the first link starts a schedule, whether or not it was delivered.
Outcome(p, outcome) ==
    /\ attempt' = [attempt EXCEPT ![req[p].token] = outcome]
    /\ req' = IF req[p].first THEN Moved(p, "schedule") ELSE Done(p)
    /\ UNCHANGED <<status, recipient, minted, mailed, schedule, unrecorded, resends, faults>>

Failure == "FAILED"

MarkDelivered(p) == At(p, "delivered") /\ Outcome(p, "DELIVERED")
MarkFailed(p)    == At(p, "failed") /\ Outcome(p, Failure)

\* By then the offer may be over: a schedule for an offer that is not SENT.
CreateSchedule(p) ==
    /\ At(p, "schedule")
    /\ schedule' = [exists |-> TRUE, count |-> 0, due |-> FALSE]
    /\ req' = Done(p)
    /\ UNCHANGED <<status, recipient, minted, mailed, attempt, unrecorded, resends, faults>>

StartResend(p) ==
    /\ At(p, "idle") /\ resends < MaxResends
    /\ status = "SENT" /\ ~recipient.invalidated
    /\ resends' = resends + 1
    /\ req' = [req EXCEPT ![p] = [Idle EXCEPT !.at = "replace"]]
    /\ UNCHANGED <<status, recipient, minted, mailed, attempt, schedule, unrecorded, faults>>

\* By id, and it clears tokenInvalidatedAt.
ReplaceToken(p) ==
    /\ At(p, "replace") /\ minted < MaxTokens
    /\ minted' = minted + 1
    /\ recipient' = Live(minted')
    /\ req' = Mint(p, "record")
    /\ UNCHANGED <<status, mailed, attempt, schedule, unrecorded, resends, faults>>

-----------------------------------------------------------------------------
(* The end of the offer: revoke, the recipient's decision, expiry.         *)

Close(end) == status' = end

StartClose(p, step) ==
    /\ At(p, "idle") /\ status = "SENT"
    /\ req' = Begun(p, step)
    /\ UNCHANGED <<status, recipient, minted, mailed, attempt, schedule, unrecorded, resends, faults>>

StartRevoke(p) == StartClose(p, "revoke")
StartExpire(p) == StartClose(p, "expire")

Revoke(p) ==
    /\ At(p, "revoke")
    /\ recipient' = [recipient EXCEPT !.invalidated = TRUE]
    /\ Close("REVOKED")
    /\ req' = Moved(p, "unschedule")
    /\ UNCHANGED <<minted, mailed, attempt, schedule, unrecorded, resends, faults>>

Expire(p) ==
    /\ At(p, "expire")
    /\ Close("EXPIRED")
    /\ req' = Moved(p, "unschedule")
    /\ UNCHANGED <<recipient, minted, mailed, attempt, schedule, unrecorded, resends, faults>>

\* A link that works leads to an acceptance, whose transaction also invalidates
\* the link and deletes the schedule, or to a decline, which deletes it afterwards.
LinkWorks == recipient.token \in mailed /\ ~recipient.invalidated

Accept ==
    /\ status = "SENT" /\ LinkWorks
    /\ Close("ACCEPTED")
    /\ recipient' = [recipient EXCEPT !.invalidated = TRUE]
    /\ schedule' = NoSchedule
    /\ UNCHANGED <<minted, mailed, attempt, req, unrecorded, resends, faults>>

Decline(p) ==
    /\ At(p, "idle") /\ status = "SENT" /\ LinkWorks
    /\ Close("DECLINED")
    /\ req' = Begun(p, "unschedule")
    /\ UNCHANGED <<recipient, minted, mailed, attempt, schedule, unrecorded, resends, faults>>

Unschedule(p) ==
    /\ At(p, "unschedule")
    /\ schedule' = NoSchedule
    /\ req' = Done(p)
    /\ UNCHANGED <<status, recipient, minted, mailed, attempt, unrecorded, resends, faults>>

-----------------------------------------------------------------------------
(* The reminder sweep.                                                     *)

Due == schedule.count < MaxReminders

\* nextReminderAt passes.
Tick ==
    /\ schedule.exists /\ ~schedule.due /\ Due
    /\ schedule' = [schedule EXCEPT !.due = TRUE]
    /\ UNCHANGED <<status, recipient, minted, mailed, attempt, req, unrecorded, resends, faults>>

\* Not by status: what an offer's end left behind is selected too.
Selected == schedule.exists /\ schedule.due /\ Due

Stale == status # "SENT"

\* The query, with the offer's status and the schedule's count as of now.
Sweep(p) ==
    /\ At(p, "idle") /\ Selected
    /\ req' = [req EXCEPT ![p] = [Idle EXCEPT !.at = IF Stale THEN "unschedule" ELSE "recheck",
                                              !.count = schedule.count]]
    /\ UNCHANGED <<status, recipient, minted, mailed, attempt, schedule, unrecorded, resends, faults>>

StillSent(p) == At(p, "recheck") /\ status = "SENT"

Recheck(p) ==
    /\ At(p, "recheck")
    /\ IF StillSent(p)
       THEN req' = Moved(p, "remind") /\ UNCHANGED schedule
       ELSE req' = Done(p) /\ schedule' = NoSchedule
    /\ UNCHANGED <<status, recipient, minted, mailed, attempt, unrecorded, resends, faults>>

Remind(p) ==
    /\ At(p, "remind")
    /\ \/ /\ minted < MaxTokens
          /\ minted' = minted + 1
          /\ mailed' = mailed \cup {minted'}
          /\ req' = Mint(p, "store")
       \/ req' = Done(p) /\ UNCHANGED <<minted, mailed>>
    /\ UNCHANGED <<status, recipient, attempt, schedule, unrecorded, resends, faults>>

\* By id: it leaves tokenInvalidatedAt alone.
Stored(p) == [recipient EXCEPT !.token = req[p].token]

StoreToken(p) ==
    /\ At(p, "store")
    /\ recipient' = Stored(p)
    /\ req' = Moved(p, "advance")
    /\ UNCHANGED <<status, minted, mailed, attempt, schedule, unrecorded, resends, faults>>

\* The count it read, plus one; the row may be gone (P2025).
Advance(p) ==
    /\ At(p, "advance")
    /\ schedule' = IF schedule.exists
                   THEN [exists |-> TRUE, count |-> req[p].count + 1, due |-> FALSE]
                   ELSE schedule
    /\ req' = Done(p)
    /\ UNCHANGED <<status, recipient, minted, mailed, attempt, unrecorded, resends, faults>>

-----------------------------------------------------------------------------
(* Faults: a request dies anywhere; where the code catches, it goes on.    *)

Caught(p) ==
    \/ At(p, "delivered") /\ req' = Moved(p, "failed")
    \/ At(p, "schedule") /\ req' = Done(p)

Abort(p) ==
    /\ ~At(p, "idle") /\ faults < MaxFaults
    /\ faults' = faults + 1
    /\ req' = Done(p) \/ Caught(p)
    /\ unrecorded' = IF At(p, "record") THEN unrecorded \cup {req[p].token} ELSE unrecorded
    /\ UNCHANGED <<status, recipient, minted, mailed, attempt, schedule, resends>>

-----------------------------------------------------------------------------
Init ==
    /\ status = "DRAFT"
    /\ recipient = Live(DraftToken) /\ minted = 0
    /\ mailed = {} /\ attempt = [t \in Token |-> "none"]
    /\ schedule = NoSchedule
    /\ req = [p \in Procs |-> Idle]
    /\ unrecorded = {} /\ resends = 0 /\ faults = 0

Send(p)   == StartSend(p) \/ Freeze(p) \/ RecordAttempt(p) \/ MailLink(p) \/ MarkDelivered(p) \/ MarkFailed(p) \/ CreateSchedule(p)
Resend(p) == StartResend(p) \/ ReplaceToken(p)
End(p)    == StartRevoke(p) \/ Revoke(p) \/ StartExpire(p) \/ Expire(p) \/ Decline(p) \/ Unschedule(p)
Remember(p) == Sweep(p) \/ Recheck(p) \/ Remind(p) \/ StoreToken(p) \/ Advance(p)

ProcStep(p) == Send(p) \/ Resend(p) \/ End(p) \/ Remember(p) \/ Abort(p)

Next == Accept \/ Tick \/ \E p \in Procs : ProcStep(p)

Spec == Init /\ [][Next]_vars

\* What fairness is about: a request in flight, and a sweep whose e-mail goes out.
Running(p) == ~At(p, "idle") /\ ProcStep(p)
Reaches(p) == Remind(p) /\ mailed' # mailed

-----------------------------------------------------------------------------
Status == {"DRAFT", "SENT", "ACCEPTED", "DECLINED", "EXPIRED", "REVOKED"}
Step ==
    {"idle", "freeze", "record", "mail", "delivered", "failed", "schedule", "replace", "revoke",
     "expire", "unschedule", "recheck", "remind", "store", "advance"}
Request ==
    [at : Step, token : 0..MaxTokens, count : 0..MaxReminders, first : BOOLEAN]

TypeOK ==
    /\ status \in Status
    /\ recipient \in [token : 0..MaxTokens, invalidated : BOOLEAN]
    /\ minted \in 0..MaxTokens
    /\ mailed \subseteq Token /\ unrecorded \subseteq Token
    /\ attempt \in [Token -> {"none", "DISPATCHING", "DELIVERED", "FAILED"}]
    /\ schedule \in [exists : BOOLEAN, count : 0..MaxReminders, due : BOOLEAN]
    /\ req \in [Procs -> Request]
    /\ faults \in 0..MaxFaults /\ resends \in 0..MaxResends

\* Whatever overlaps or dies, while the offer is open the stored token is one
\* the recipient was mailed, or the sender can see that it was not: its
\* request is in flight, its attempt is not DELIVERED, or it died in the one
\* window before the attempt row.
SomeLinkWorks ==
    (status = "SENT" /\ recipient.token \notin mailed) =>
        \/ attempt[recipient.token] \in {"DISPATCHING", "FAILED"}
        \/ recipient.token \in unrecorded
        \/ \E p \in Procs : At(p, "record") /\ req[p].token = recipient.token

\* As long as a reminder is left, the recipient of an open offer gets a link
\* that works.
LinkArrives ==
    (status = "SENT" /\ schedule.exists /\ Due /\ \A p \in Procs : ~At(p, "advance"))
        ~> (LinkWorks \/ status # "SENT")

\* A schedule that an offer's end left behind, or that was created after it, is
\* deleted, unless its reminders are used up.
ScheduleHeals ==
    (status \notin {"DRAFT", "SENT"} /\ schedule.exists) ~> (~schedule.exists \/ ~Due)

\* What the reminder sweep makes good, whatever became of the e-mails and the
\* writes of send, resend and the offer's end: links and schedules.
SweepMakesGood == LinkArrives /\ ScheduleHeals
=============================================================================
