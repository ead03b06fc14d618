-------------------------- MODULE Pipeline_proofs ---------------------------
(***************************************************************************)
(* What must reach the people of a deal: with any number of requests,      *)
(* tokens, resends, reminders and faults, the link to sign (Delivery); and *)
(* with any number of jobs, retries and crashes, the one certificate and   *)
(* the mails that name it (Completion).                                    *)
(***************************************************************************)
EXTENDS Completion, Delivery, FiniteSetTheorems, TLAPS

-----------------------------------------------------------------------------
(* The link.  The sender can see it when no link of an open offer reached  *)
(* the recipient.                                                          *)
(*                                                                         *)
(* The invariant adds what a request knows of its token: a sweep stores    *)
(* only one it has mailed, and DELIVERED is written only of one that was.  *)

Knows(row, inboxes, end) ==
    /\ row.at \in {"record", "mail", "delivered", "failed", "store"} => row.token \in Token
    /\ row.at \in {"delivered", "store"} => row.token \in inboxes
    /\ row.at \in {"replace", "remind"} => end # "DRAFT"
    /\ row.at \in {"recheck", "remind", "store", "advance"} => row.count < MaxReminders

DeliveryInv ==
    /\ TypeOK
    /\ status = "DRAFT" => minted = 0
    /\ \A p \in Procs : Knows(req[p], mailed, status)
    /\ SomeLinkWorks

-----------------------------------------------------------------------------
LEMMA Typed ==
    ASSUME DeliveryInv
    PROVE  /\ status \in Status /\ recipient \in [token : 0..MaxTokens, invalidated : BOOLEAN]
           /\ minted \in 0..MaxTokens /\ mailed \subseteq Token /\ unrecorded \subseteq Token
           /\ attempt \in [Token -> {"none", "DISPATCHING", "DELIVERED", "FAILED"}]
           /\ schedule \in [exists : BOOLEAN, count : 0..MaxReminders, due : BOOLEAN]
           /\ req \in [Procs -> Request] /\ faults \in 0..MaxFaults /\ resends \in 0..MaxResends
           /\ MaxTokens \in Nat \ {0} /\ MaxReminders \in Nat \ {0} /\ MaxFaults \in Nat /\ MaxResends \in Nat
           /\ 0 \in 0..MaxTokens /\ 0 \in 0..MaxReminders
           /\ \A p \in Procs : req[p] \in Request /\ Knows(req[p], mailed, status)
  BY DeliveryAssumption DEF DeliveryInv, TypeOK

LEMMA FirstState == ASSUME Init PROVE DeliveryInv
<1>1. /\ MaxTokens \in Nat \ {0} /\ MaxReminders \in Nat \ {0} /\ MaxFaults \in Nat /\ MaxResends \in Nat
      /\ 0 \in 0..MaxTokens /\ 0 \in 0..MaxReminders /\ 0 \in 0..MaxFaults /\ 0 \in 0..MaxResends
  BY DeliveryAssumption
<1>2. req \in [Procs -> Request] /\ \A p \in Procs : Knows(req[p], mailed, status)
  BY <1>1 DEF Init, Idle, Request, Step, DraftToken, Knows
<1>3. TypeOK
  BY <1>1, <1>2 DEF Init, TypeOK, Status, Live, DraftToken, NoSchedule, Token
<1>4. SomeLinkWorks
  BY DEF Init, SomeLinkWorks
<1> QED
  BY <1>2, <1>3, <1>4 DEF DeliveryInv, Init

\* Where a request is next is all that a step changes of the others' ground.
LEMMA ProcMoves ==
    ASSUME DeliveryInv, NEW p \in Procs, NEW row \in Request, req' = [req EXCEPT ![p] = row],
           mailed \subseteq mailed', Knows(row, mailed', status'),
           status' \in Status, recipient' \in [token : 0..MaxTokens, invalidated : BOOLEAN],
           minted' \in 0..MaxTokens, mailed' \subseteq Token, unrecorded' \subseteq Token,
           attempt' \in [Token -> {"none", "DISPATCHING", "DELIVERED", "FAILED"}],
           schedule' \in [exists : BOOLEAN, count : 0..MaxReminders, due : BOOLEAN],
           faults' \in 0..MaxFaults, resends' \in 0..MaxResends,
           status' = "DRAFT" => status = "DRAFT" /\ minted' = 0,
           SomeLinkWorks'
    PROVE  DeliveryInv'
<1>1. req \in [Procs -> Request] /\ \A q \in Procs : Knows(req[q], mailed, status)
  BY DEF DeliveryInv, TypeOK
<1>2. req' \in [Procs -> Request] /\ \A q \in Procs : req'[q] = IF q = p THEN row ELSE req[q]
  BY <1>1
<1>3. \A q \in Procs : Knows(req[q], mailed', status')
  BY <1>1 DEF Knows
<1>4. \A q \in Procs : Knows(req'[q], mailed', status')
  BY <1>2, <1>3
<1>5. TypeOK'
  BY <1>2 DEF TypeOK
<1> QED
  BY <1>4, <1>5 DEF DeliveryInv

\* A step that stores no token, and tells the sender no less.
LEMMA LinkKept ==
    ASSUME DeliveryInv, NEW p \in Procs, NEW row, req' = [req EXCEPT ![p] = row],
           req[p].at = "record" => req[p].token \in unrecorded',
           status' = "SENT" => status = "SENT", recipient'.token = recipient.token,
           mailed \subseteq mailed', unrecorded \subseteq unrecorded', attempt' = attempt
    PROVE  SomeLinkWorks'
<1>1. SUFFICES ASSUME status' = "SENT", recipient'.token \notin mailed'
               PROVE  \/ attempt'[recipient'.token] \in {"DISPATCHING", "FAILED"}
                      \/ recipient'.token \in unrecorded'
                      \/ \E q \in Procs : req'[q].at = "record" /\ req'[q].token = recipient'.token
  BY DEF SomeLinkWorks, At
<1>2. \/ attempt[recipient.token] \in {"DISPATCHING", "FAILED"}
      \/ recipient.token \in unrecorded
      \/ \E q \in Procs : req[q].at = "record" /\ req[q].token = recipient.token
  BY <1>1 DEF DeliveryInv, SomeLinkWorks, At
<1>3. CASE attempt[recipient.token] \in {"DISPATCHING", "FAILED"} \/ recipient.token \in unrecorded
  BY <1>3
<1>4. ASSUME NEW q \in Procs, req[q].at = "record", req[q].token = recipient.token
      PROVE  recipient.token \in unrecorded' \/ (req'[q].at = "record" /\ req'[q].token = recipient'.token)
  <2>1. CASE q = p
    BY <1>4, <2>1
  <2>2. CASE q # p
    BY <1>4, <2>2, Typed
  <2> QED
    BY <2>1, <2>2
<1> QED
  BY <1>2, <1>3, <1>4

\* A request that goes on, or ends, and touches at most the schedule and the faults.
LEMMA QuietMove ==
    ASSUME DeliveryInv, NEW p \in Procs, NEW row \in Request, req' = [req EXCEPT ![p] = row],
           Knows(row, mailed, status), req[p].at # "record",
           UNCHANGED <<status, recipient, minted, mailed, attempt, unrecorded>>,
           schedule' = schedule \/ schedule' = NoSchedule \/ schedule' = [exists |-> TRUE, count |-> 0, due |-> FALSE],
           faults' \in 0..MaxFaults, resends' \in 0..MaxResends
    PROVE  DeliveryInv'
<1>1. SomeLinkWorks'
  BY LinkKept
<1>2. schedule' \in [exists : BOOLEAN, count : 0..MaxReminders, due : BOOLEAN]
  <2>1. /\ NoSchedule \in [exists : BOOLEAN, count : 0..MaxReminders, due : BOOLEAN]
        /\ [exists |-> TRUE, count |-> 0, due |-> FALSE] \in [exists : BOOLEAN, count : 0..MaxReminders, due : BOOLEAN]
    BY Typed DEF NoSchedule
  <2>2. schedule \in [exists : BOOLEAN, count : 0..MaxReminders, due : BOOLEAN]
    BY Typed
  <2> QED
    BY <2>1, <2>2
<1>3. /\ mailed' = mailed /\ status' \in Status /\ recipient' \in [token : 0..MaxTokens, invalidated : BOOLEAN]
      /\ minted' \in 0..MaxTokens /\ mailed' \subseteq Token /\ unrecorded' \subseteq Token
      /\ attempt' \in [Token -> {"none", "DISPATCHING", "DELIVERED", "FAILED"}]
      /\ (status' = "DRAFT" => status = "DRAFT" /\ minted' = 0) /\ Knows(row, mailed', status') /\ mailed \subseteq mailed'
  BY Typed DEF DeliveryInv
<1> QED
  BY <1>1, <1>2, <1>3, ProcMoves

LEMMA IdleRow == ASSUME DeliveryInv PROVE Idle \in Request /\ Idle.at = "idle" /\ \A inboxes, end : Knows(Idle, inboxes, end)
  BY Typed DEF Idle, Request, Step, DraftToken, Knows

\* The rows that requests move to.
LEMMA MovedRow ==
    ASSUME DeliveryInv, NEW p \in Procs, NEW step \in Step
    PROVE  LET row == [req[p] EXCEPT !.at = step]
           IN  row \in Request /\ row.at = step /\ row.token = req[p].token /\ row.count = req[p].count
<1>1. req[p] \in Request
  BY Typed
<1> QED
  BY <1>1 DEF Request

LEMMA MintedRow ==
    ASSUME DeliveryInv, NEW p \in Procs, NEW step \in Step, minted < MaxTokens
    PROVE  LET row == [req[p] EXCEPT !.at = step, !.token = minted + 1]
           IN  row \in Request /\ row.at = step /\ row.token = minted + 1 /\ row.count = req[p].count
               /\ minted + 1 \in Token /\ minted + 1 \in 0..MaxTokens
<1>1. req[p] \in Request /\ minted + 1 \in 0..MaxTokens /\ minted + 1 \in Token
  BY Typed DEF Token
<1> QED
  BY <1>1 DEF Request

-----------------------------------------------------------------------------
(* send, resend.                                                           *)

LEMMA Starts ==
    ASSUME DeliveryInv, NEW p \in Procs,
           \/ StartSend(p) \/ StartResend(p) \/ StartRevoke(p) \/ StartExpire(p)
    PROVE  DeliveryInv'
<1>1. PICK row \in Request : /\ req' = [req EXCEPT ![p] = row] /\ row.at \in {"freeze", "replace", "revoke", "expire"}
                             /\ row.at = "replace" => status # "DRAFT"
  <2>1. CASE StartSend(p)
    <3>1. [Idle EXCEPT !.at = "freeze", !.first = TRUE] \in Request
      BY Typed DEF Idle, Request, Step, DraftToken
    <3>2. [Idle EXCEPT !.at = "freeze", !.first = TRUE].at = "freeze"
      BY DEF Idle
    <3> QED
      BY <2>1, <3>1, <3>2 DEF StartSend
  <2>2. \A step \in {"replace", "revoke", "expire"} :
           [Idle EXCEPT !.at = step] \in Request /\ [Idle EXCEPT !.at = step].at = step
    BY Typed DEF Idle, Request, Step, DraftToken
  <2>3. CASE StartResend(p)
    BY <2>2, <2>3 DEF StartResend
  <2>4. CASE StartRevoke(p) \/ StartExpire(p)
    BY <2>2, <2>4 DEF StartRevoke, StartExpire, StartClose, Begun
  <2> QED
    BY <2>1, <2>3, <2>4
<1>2. /\ req[p].at = "idle" /\ UNCHANGED <<status, recipient, minted, mailed, attempt, schedule, unrecorded, faults>>
      /\ resends' = resends \/ (resends < MaxResends /\ resends' = resends + 1)
  BY DEF StartSend, StartResend, StartRevoke, StartExpire, StartClose, At
<1>3. resends' \in 0..MaxResends /\ faults' \in 0..MaxFaults
  BY <1>2, Typed
<1>4. Knows(row, mailed, status)
  BY <1>1 DEF Knows
<1> QED
  BY <1>1, <1>2, <1>3, <1>4, QuietMove

\* A token is stored by a request that goes on to record the attempt.
LEMMA Mints ==
    ASSUME DeliveryInv, NEW p \in Procs, minted < MaxTokens, minted' = minted + 1, recipient' = Live(minted'),
           req' = Mint(p, "record"), status' \in Status, status' # "DRAFT",
           UNCHANGED <<mailed, attempt, schedule, unrecorded, resends, faults>>
    PROVE  DeliveryInv'
<1> DEFINE row == [req[p] EXCEPT !.at = "record", !.token = minted + 1]
<1>1. row \in Request /\ row.at = "record" /\ row.token = minted + 1 /\ minted + 1 \in Token /\ minted + 1 \in 0..MaxTokens
  BY MintedRow DEF Step
<1>2. req' = [req EXCEPT ![p] = row]
  BY DEF Mint
<1> HIDE DEF row
<1>3. recipient' \in [token : 0..MaxTokens, invalidated : BOOLEAN] /\ recipient'.token = minted + 1
  BY <1>1 DEF Live
<1>4. req'[p].at = "record" /\ req'[p].token = recipient'.token
  BY <1>1, <1>2, <1>3, Typed
<1>5. SomeLinkWorks'
  BY <1>4 DEF SomeLinkWorks, At
<1>6. Knows(row, mailed', status')
  BY <1>1 DEF Knows
<1> QED
  BY <1>1, <1>2, <1>3, <1>5, <1>6, Typed, ProcMoves

LEMMA FreezePreserves ==
    ASSUME DeliveryInv, NEW p \in Procs, Freeze(p) PROVE DeliveryInv'
<1>1. CASE status = "DRAFT"
  <2>1. minted < MaxTokens
    BY <1>1, Typed DEF DeliveryInv
  <2> QED
    BY <1>1, <2>1, Mints DEF Freeze, Status
<1>2. CASE status # "DRAFT"
  BY <1>2, IdleRow, Typed, QuietMove DEF Freeze, Done, At
<1> QED
  BY <1>1, <1>2

LEMMA ReplacePreserves ==
    ASSUME DeliveryInv, NEW p \in Procs, ReplaceToken(p) PROVE DeliveryInv'
<1>1. status' \in Status /\ status' # "DRAFT" /\ minted < MaxTokens
  BY Typed DEF ReplaceToken, At, Knows
<1> QED
  BY <1>1, Mints DEF ReplaceToken

\* What becomes of an attempt is recorded.
LEMMA AttemptWritten ==
    ASSUME DeliveryInv, NEW p \in Procs, NEW row \in Request, req' = [req EXCEPT ![p] = row],
           NEW outcome \in {"DISPATCHING", "DELIVERED", "FAILED"}, req[p].token \in Token,
           attempt' = [attempt EXCEPT ![req[p].token] = outcome],
           outcome = "DELIVERED" => req[p].token \in mailed,
           req[p].at = "record" => outcome = "DISPATCHING", Knows(row, mailed, status),
           UNCHANGED <<status, recipient, minted, mailed, schedule, unrecorded, resends, faults>>
    PROVE  DeliveryInv'
<1> DEFINE token == req[p].token
<1>1. /\ attempt' \in [Token -> {"none", "DISPATCHING", "DELIVERED", "FAILED"}]
      /\ \A t \in Token : t # token => attempt'[t] = attempt[t]
      /\ attempt'[token] = outcome
  BY Typed
<1>2. SUFFICES ASSUME status = "SENT", recipient.token \notin mailed
               PROVE  \/ attempt'[recipient.token] \in {"DISPATCHING", "FAILED"}
                      \/ recipient.token \in unrecorded
                      \/ \E q \in Procs : req'[q].at = "record" /\ req'[q].token = recipient.token
  <2>1. SomeLinkWorks'
    BY <1>2 DEF SomeLinkWorks, At
  <2>2. status' \in Status /\ (status' = "DRAFT" => status = "DRAFT" /\ minted' = 0) /\ Knows(row, mailed', status') /\ mailed \subseteq mailed'
    BY Typed DEF DeliveryInv
  <2> QED
    BY <1>1, <2>1, <2>2, Typed, ProcMoves
<1>3. CASE recipient.token = token
  BY <1>1, <1>2, <1>3
<1>4. CASE recipient.token # token
  <2>1. \/ attempt[recipient.token] \in {"DISPATCHING", "FAILED"}
        \/ recipient.token \in unrecorded
        \/ \E q \in Procs : req[q].at = "record" /\ req[q].token = recipient.token
    BY <1>2 DEF DeliveryInv, SomeLinkWorks, At
  <2>2. ASSUME NEW q \in Procs, req[q].at = "record", req[q].token = recipient.token
        PROVE  req'[q].at = "record" /\ req'[q].token = recipient.token
    BY <1>4, <2>2, Typed
  <2>3. CASE attempt[recipient.token] \in {"DISPATCHING", "FAILED"}
    <3>1. CASE recipient.token \in Token
      BY <1>1, <1>4, <2>3, <3>1
    <3>2. CASE recipient.token \notin Token
      BY <1>4, <2>3, <3>2, Typed
    <3> QED
      BY <3>1, <3>2
  <2> QED
    BY <2>1, <2>2, <2>3
<1> QED
  BY <1>3, <1>4

LEMMA RecordPreserves ==
    ASSUME DeliveryInv, NEW p \in Procs, RecordAttempt(p) PROVE DeliveryInv'
<1> DEFINE row == [req[p] EXCEPT !.at = "mail"]
<1>1. row \in Request /\ row.at = "mail" /\ row.token = req[p].token
  BY MovedRow DEF Step
<1>2. req' = [req EXCEPT ![p] = row] /\ req[p].at = "record"
  BY DEF RecordAttempt, Moved, At
<1> HIDE DEF row
<1>3. req[p].token \in Token /\ Knows(row, mailed, status)
  BY <1>1, <1>2, Typed DEF Knows
<1> QED
  BY <1>1, <1>2, <1>3, AttemptWritten DEF RecordAttempt

LEMMA MailPreserves ==
    ASSUME DeliveryInv, NEW p \in Procs, MailLink(p) PROVE DeliveryInv'
<1>1. /\ req[p].at = "mail" /\ req[p].token \in Token
      /\ UNCHANGED <<status, recipient, minted, attempt, schedule, unrecorded, resends, faults>>
  BY Typed DEF MailLink, At, Knows
<1>2. CASE mailed' = mailed \cup {req[p].token} /\ req' = Moved(p, "delivered")
  <2> DEFINE row == [req[p] EXCEPT !.at = "delivered"]
  <2>1. row \in Request /\ row.at = "delivered" /\ row.token = req[p].token
    BY MovedRow DEF Step
  <2>2. req' = [req EXCEPT ![p] = row]
    BY <1>2 DEF Moved
  <2> HIDE DEF row
  <2>3. Knows(row, mailed', status') /\ mailed \subseteq mailed' /\ mailed' \subseteq Token
    BY <1>1, <1>2, <2>1, Typed DEF Knows
  <2>4. SomeLinkWorks'
    BY <1>1, <2>2, <2>3, LinkKept
  <2>5. status' \in Status /\ (status' = "DRAFT" => status = "DRAFT" /\ minted' = 0)
    BY <1>1, Typed DEF DeliveryInv
  <2> QED
    BY <1>1, <2>1, <2>2, <2>3, <2>4, <2>5, Typed, ProcMoves
<1>3. CASE UNCHANGED mailed /\ req' = Moved(p, "failed")
  <2> DEFINE row == [req[p] EXCEPT !.at = "failed"]
  <2>1. row \in Request /\ row.at = "failed" /\ row.token = req[p].token
    BY MovedRow DEF Step
  <2>2. req' = [req EXCEPT ![p] = row]
    BY <1>3 DEF Moved
  <2> HIDE DEF row
  <2>3. Knows(row, mailed, status)
    BY <1>1, <2>1 DEF Knows
  <2> QED
    BY <1>1, <1>3, <2>1, <2>2, <2>3, Typed, QuietMove
<1> QED
  BY <1>2, <1>3 DEF MailLink

LEMMA OutcomePreserves ==
    ASSUME DeliveryInv, NEW p \in Procs, MarkDelivered(p) \/ MarkFailed(p) PROVE DeliveryInv'
<1>1. PICK outcome \in {"DELIVERED", "FAILED"} :
         /\ Outcome(p, outcome) /\ req[p].at = IF outcome = "DELIVERED" THEN "delivered" ELSE "failed"
  BY DEF MarkDelivered, MarkFailed, Failure, At
<1>2. req[p].token \in Token /\ (outcome = "DELIVERED" => req[p].token \in mailed)
  BY <1>1, Typed DEF Knows
<1>3. PICK row \in Request : req' = [req EXCEPT ![p] = row] /\ row.at \in {"schedule", "idle"}
  <2>1. CASE req' = Moved(p, "schedule")
    BY <2>1, MovedRow DEF Moved, Step
  <2>2. CASE req' = Done(p)
    BY <2>2, IdleRow DEF Done
  <2> QED
    BY <1>1, <2>1, <2>2 DEF Outcome
<1>4. Knows(row, mailed, status)
  BY <1>3 DEF Knows
<1>5. /\ attempt' = [attempt EXCEPT ![req[p].token] = outcome]
      /\ UNCHANGED <<status, recipient, minted, mailed, schedule, unrecorded, resends, faults>>
  BY <1>1 DEF Outcome
<1>6. outcome \in {"DISPATCHING", "DELIVERED", "FAILED"} /\ req[p].at # "record"
  BY <1>1
<1> QED
  BY <1>2, <1>3, <1>4, <1>5, <1>6, AttemptWritten

\* A schedule is created or deleted by a request that ends with it.
LEMMA SchedulePreserves ==
    ASSUME DeliveryInv, NEW p \in Procs, CreateSchedule(p) \/ Unschedule(p) PROVE DeliveryInv'
<1>1. /\ req' = [req EXCEPT ![p] = Idle] /\ req[p].at # "record"
      /\ schedule' = NoSchedule \/ schedule' = [exists |-> TRUE, count |-> 0, due |-> FALSE]
      /\ UNCHANGED <<status, recipient, minted, mailed, attempt, unrecorded, resends, faults>>
  BY DEF CreateSchedule, Unschedule, Done, At
<1> QED
  BY <1>1, IdleRow, Typed, QuietMove

-----------------------------------------------------------------------------
(* The end of the offer.                                                   *)

LEMMA Closes ==
    ASSUME DeliveryInv, NEW p \in Procs, Revoke(p) \/ Expire(p) \/ Decline(p) PROVE DeliveryInv'
<1>1. /\ status' \in {"REVOKED", "EXPIRED", "DECLINED"} /\ req[p].at # "record"
      /\ recipient' = recipient \/ recipient' = [recipient EXCEPT !.invalidated = TRUE]
      /\ UNCHANGED <<minted, mailed, attempt, schedule, unrecorded, resends, faults>>
  BY DEF Revoke, Expire, Decline, Close, At
<1>2. PICK row \in Request : req' = [req EXCEPT ![p] = row] /\ row.at = "unschedule"
  <2>1. CASE req' = Moved(p, "unschedule")
    BY <2>1, MovedRow DEF Moved, Step
  <2>2. CASE req' = Begun(p, "unschedule")
    <3>1. [Idle EXCEPT !.at = "unschedule"] \in Request
      BY Typed DEF Idle, Request, Step, DraftToken
    <3>2. [Idle EXCEPT !.at = "unschedule"].at = "unschedule"
      BY DEF Idle
    <3> QED
      BY <2>2, <3>1, <3>2 DEF Begun
  <2> QED
    BY <2>1, <2>2 DEF Revoke, Expire, Decline
<1>3. recipient' \in [token : 0..MaxTokens, invalidated : BOOLEAN]
  <2>1. recipient \in [token : 0..MaxTokens, invalidated : BOOLEAN]
    BY Typed
  <2> QED
    BY <1>1, <2>1
<1>4. SomeLinkWorks'
  BY <1>1 DEF SomeLinkWorks
<1>5. Knows(row, mailed', status') /\ mailed \subseteq mailed'
  BY <1>1, <1>2 DEF Knows
<1>6. status' \in Status /\ status' # "DRAFT"
  BY <1>1 DEF Status
<1> QED
  BY <1>1, <1>2, <1>3, <1>4, <1>5, <1>6, Typed, ProcMoves

\* Acceptance, and the passing of nextReminderAt, are of no request here.
LEMMA OutsidePreserves ==
    ASSUME DeliveryInv, Accept \/ Tick PROVE DeliveryInv'
<1>1. /\ status' = "ACCEPTED" \/ (status' = status /\ recipient' = recipient)
      /\ UNCHANGED <<minted, mailed, attempt, req, unrecorded, resends, faults>>
  BY DEF Accept, Tick, Close
<1>2. status' \in Status /\ recipient' \in [token : 0..MaxTokens, invalidated : BOOLEAN]
  BY Typed DEF Accept, Tick, Close, Status
<1>3. schedule' \in [exists : BOOLEAN, count : 0..MaxReminders, due : BOOLEAN]
  <2>1. schedule \in [exists : BOOLEAN, count : 0..MaxReminders, due : BOOLEAN]
    BY Typed
  <2>2. NoSchedule \in [exists : BOOLEAN, count : 0..MaxReminders, due : BOOLEAN]
    BY Typed DEF NoSchedule
  <2>3. [schedule EXCEPT !.due = TRUE] \in [exists : BOOLEAN, count : 0..MaxReminders, due : BOOLEAN]
    BY <2>1
  <2> QED
    BY <2>2, <2>3 DEF Accept, Tick
<1>4. SomeLinkWorks'
  BY <1>1 DEF DeliveryInv, SomeLinkWorks, At
<1>5. \A p \in Procs : Knows(req'[p], mailed', status')
  BY <1>1, Typed DEF Knows
<1>6. TypeOK'
  BY <1>1, <1>2, <1>3, Typed DEF TypeOK
<1> QED
  BY <1>1, <1>4, <1>5, <1>6 DEF DeliveryInv

-----------------------------------------------------------------------------
(* The sweep, and faults.                                                  *)

LEMMA SweepPreserves ==
    ASSUME DeliveryInv, NEW p \in Procs, Sweep(p) PROVE DeliveryInv'
<1> DEFINE step == IF Stale THEN "unschedule" ELSE "recheck"
           row == [Idle EXCEPT !.at = step, !.count = schedule.count]
<1>1. /\ req' = [req EXCEPT ![p] = row] /\ req[p].at = "idle" /\ schedule.count < MaxReminders
      /\ UNCHANGED <<status, recipient, minted, mailed, attempt, schedule, unrecorded, resends, faults>>
  BY DEF Sweep, Selected, Due, At
<1>2. step \in {"unschedule", "recheck"} /\ step \in Step /\ schedule.count \in 0..MaxReminders
  BY Typed DEF Step
<1> HIDE DEF step
<1>3. row \in Request /\ row.at = step /\ row.count = schedule.count
  BY <1>2, Typed DEF Idle, Request, DraftToken
<1> HIDE DEF row
<1>4. Knows(row, mailed, status)
  BY <1>1, <1>2, <1>3 DEF Knows
<1>5. faults' \in 0..MaxFaults /\ resends' \in 0..MaxResends
  BY <1>1, Typed
<1> QED
  BY <1>1, <1>3, <1>4, <1>5, QuietMove

LEMMA RecheckPreserves ==
    ASSUME DeliveryInv, NEW p \in Procs, Recheck(p) PROVE DeliveryInv'
<1>1. /\ req[p].at = "recheck" /\ req[p].count < MaxReminders
      /\ UNCHANGED <<status, recipient, minted, mailed, attempt, unrecorded, resends, faults>>
  BY Typed DEF Recheck, At, Knows
<1>2. faults' \in 0..MaxFaults /\ resends' \in 0..MaxResends
  BY <1>1, Typed
<1>3. CASE StillSent(p) /\ req' = Moved(p, "remind") /\ UNCHANGED schedule
  <2> DEFINE row == [req[p] EXCEPT !.at = "remind"]
  <2>1. row \in Request /\ row.at = "remind" /\ row.count = req[p].count
    BY MovedRow DEF Step
  <2>2. req' = [req EXCEPT ![p] = row]
    BY <1>3 DEF Moved
  <2> HIDE DEF row
  <2>3. Knows(row, mailed, status)
    BY <1>1, <1>3, <2>1 DEF Knows, StillSent
  <2> QED
    BY <1>1, <1>2, <1>3, <2>1, <2>2, <2>3, QuietMove
<1>4. CASE req' = Done(p) /\ schedule' = NoSchedule
  BY <1>1, <1>2, <1>4, IdleRow, QuietMove DEF Done
<1> QED
  BY <1>3, <1>4 DEF Recheck

LEMMA RemindPreserves ==
    ASSUME DeliveryInv, NEW p \in Procs, Remind(p) PROVE DeliveryInv'
<1>1. /\ req[p].at = "remind" /\ req[p].count < MaxReminders
      /\ UNCHANGED <<status, recipient, attempt, schedule, unrecorded, resends, faults>>
  BY Typed DEF Remind, At, Knows
<1>2. CASE /\ minted < MaxTokens /\ minted' = minted + 1
           /\ mailed' = mailed \cup {minted'} /\ req' = Mint(p, "store")
  <2> DEFINE row == [req[p] EXCEPT !.at = "store", !.token = minted + 1]
  <2>1. /\ row \in Request /\ row.at = "store" /\ row.token = minted + 1 /\ row.count = req[p].count
        /\ minted + 1 \in Token /\ minted + 1 \in 0..MaxTokens
    BY <1>2, MintedRow DEF Step
  <2>2. req' = [req EXCEPT ![p] = row]
    BY <1>2 DEF Mint
  <2> HIDE DEF row
  <2>3. Knows(row, mailed', status') /\ mailed \subseteq mailed' /\ mailed' \subseteq Token
    BY <1>1, <1>2, <2>1, Typed DEF Knows
  <2>4. SomeLinkWorks'
    BY <1>1, <2>2, <2>3, LinkKept
  <2>5. status' \in Status /\ (status' = "DRAFT" => status = "DRAFT" /\ minted' = 0)
    BY <1>1, Typed DEF Knows
  <2> QED
    BY <1>1, <1>2, <2>1, <2>2, <2>3, <2>4, <2>5, Typed, ProcMoves
<1>3. CASE req' = Done(p) /\ UNCHANGED <<minted, mailed>>
  BY <1>1, <1>3, IdleRow, Typed, QuietMove DEF Done
<1> QED
  BY <1>2, <1>3 DEF Remind

\* The token that a sweep stores is one it has mailed.
LEMMA StorePreserves ==
    ASSUME DeliveryInv, NEW p \in Procs, StoreToken(p) PROVE DeliveryInv'
<1> DEFINE row == [req[p] EXCEPT !.at = "advance"]
<1>1. /\ req[p].at = "store" /\ req[p].token \in mailed /\ req[p].token \in Token /\ req[p].count < MaxReminders
      /\ recipient' = [recipient EXCEPT !.token = req[p].token] /\ req' = [req EXCEPT ![p] = row]
      /\ UNCHANGED <<status, minted, mailed, attempt, schedule, unrecorded, resends, faults>>
  BY Typed DEF StoreToken, Stored, Moved, At, Knows
<1>2. row \in Request /\ row.at = "advance" /\ row.count = req[p].count
  BY MovedRow DEF Step
<1> HIDE DEF row
<1>3. recipient \in [token : 0..MaxTokens, invalidated : BOOLEAN] /\ req[p].token \in 0..MaxTokens
  BY <1>1, Typed DEF Token
<1>4. recipient' \in [token : 0..MaxTokens, invalidated : BOOLEAN] /\ recipient'.token = req[p].token
  BY <1>1, <1>3
<1>5. SomeLinkWorks'
  BY <1>1, <1>4 DEF SomeLinkWorks
<1>6. Knows(row, mailed', status')
  BY <1>1, <1>2 DEF Knows
<1>7. status' \in Status /\ (status' = "DRAFT" => status = "DRAFT" /\ minted' = 0) /\ mailed \subseteq mailed'
  BY <1>1, Typed DEF DeliveryInv
<1> QED
  BY <1>1, <1>2, <1>4, <1>5, <1>6, <1>7, Typed, ProcMoves

LEMMA AdvancePreserves ==
    ASSUME DeliveryInv, NEW p \in Procs, Advance(p) PROVE DeliveryInv'
<1>1. /\ req[p].at = "advance" /\ req[p].count < MaxReminders /\ req' = [req EXCEPT ![p] = Idle]
      /\ UNCHANGED <<status, recipient, minted, mailed, attempt, unrecorded, resends, faults>>
  BY Typed DEF Advance, Done, At, Knows
<1>2. req[p].count \in 0..MaxReminders /\ req[p].count + 1 \in 0..MaxReminders
  BY <1>1, Typed DEF Request
<1>3. schedule' \in [exists : BOOLEAN, count : 0..MaxReminders, due : BOOLEAN]
  <2>1. [exists |-> TRUE, count |-> req[p].count + 1, due |-> FALSE] \in [exists : BOOLEAN, count : 0..MaxReminders, due : BOOLEAN]
    BY <1>2
  <2> QED
    BY <2>1, Typed DEF Advance
<1>4. SomeLinkWorks'
  BY <1>1, LinkKept
<1>5. status' \in Status /\ (status' = "DRAFT" => status = "DRAFT" /\ minted' = 0) /\ mailed \subseteq mailed'
  BY <1>1, Typed DEF DeliveryInv
<1> QED
  BY <1>1, <1>3, <1>4, <1>5, IdleRow, Typed, ProcMoves

\* Before the attempt row is created, a death is what the sender cannot see.
LEMMA AbortPreserves ==
    ASSUME DeliveryInv, NEW p \in Procs, Abort(p) PROVE DeliveryInv'
<1>1. /\ faults < MaxFaults /\ faults' = faults + 1
      /\ unrecorded' = IF req[p].at = "record" THEN unrecorded \cup {req[p].token} ELSE unrecorded
      /\ UNCHANGED <<status, recipient, minted, mailed, attempt, schedule, resends>>
  BY DEF Abort, At
<1>2. PICK row \in Request : req' = [req EXCEPT ![p] = row] /\ Knows(row, mailed, status)
  <2>1. CASE req' = Done(p)
    BY <2>1, IdleRow DEF Done
  <2>2. CASE req[p].at = "delivered" /\ req' = Moved(p, "failed")
    <3> DEFINE row == [req[p] EXCEPT !.at = "failed"]
    <3>1. row \in Request /\ row.at = "failed" /\ row.token = req[p].token
      BY MovedRow DEF Step
    <3>2. req' = [req EXCEPT ![p] = row]
      BY <2>2 DEF Moved
    <3> HIDE DEF row
    <3>3. Knows(row, mailed, status)
      BY <2>2, <3>1, Typed DEF Knows
    <3> QED
      BY <3>1, <3>2, <3>3
  <2> QED
    BY <2>1, <2>2 DEF Abort, Caught, At
<1>3. faults' \in 0..MaxFaults /\ unrecorded \subseteq unrecorded' /\ unrecorded' \subseteq Token
  BY <1>1, Typed DEF Knows
<1>4. SomeLinkWorks'
  BY <1>1, <1>2, <1>3, LinkKept
<1>5. /\ status' \in Status /\ (status' = "DRAFT" => status = "DRAFT" /\ minted' = 0) /\ mailed \subseteq mailed'
      /\ Knows(row, mailed', status')
  BY <1>1, <1>2, Typed DEF DeliveryInv
<1> QED
  BY <1>1, <1>2, <1>3, <1>4, <1>5, Typed, ProcMoves

-----------------------------------------------------------------------------
LEMMA StepPreserves ==
    ASSUME DeliveryInv, [Next]_vars PROVE DeliveryInv'
<1>1. CASE Accept \/ Tick
  BY <1>1, OutsidePreserves
<1>2. ASSUME NEW p \in Procs, Send(p) PROVE DeliveryInv'
  BY <1>2, Starts, FreezePreserves, RecordPreserves, MailPreserves, OutcomePreserves, SchedulePreserves DEF Send
<1>3. ASSUME NEW p \in Procs, Resend(p) \/ End(p) PROVE DeliveryInv'
  BY <1>3, Starts, ReplacePreserves, Closes, SchedulePreserves DEF Resend, End
<1>4. ASSUME NEW p \in Procs, Remember(p) \/ Abort(p) PROVE DeliveryInv'
  BY <1>4, SweepPreserves, RecheckPreserves, RemindPreserves, StorePreserves, AdvancePreserves, AbortPreserves DEF Remember
<1>5. CASE UNCHANGED vars
  <2>1. UNCHANGED <<status, recipient, minted, mailed, attempt, schedule, req, unrecorded, resends, faults>>
    BY <1>5 DEF vars
  <2> QED
    BY <2>1 DEF DeliveryInv, TypeOK, SomeLinkWorks, At
<1> QED
  BY <1>1, <1>2, <1>3, <1>4, <1>5 DEF Next, ProcStep

LEMMA LinkInvariant == Spec => []DeliveryInv
<1>1. Init => DeliveryInv
  BY FirstState
<1>2. DeliveryInv /\ [Next]_vars => DeliveryInv'
  BY StepPreserves
<1> QED
  BY <1>1, <1>2, PTL DEF Spec

\* The variables keep their types; above all, no schedule counts more than the
\* reminders it may (the sweep writes the count it read, plus one).
THEOREM DeliveryTyped == Spec => []TypeOK
<1>1. DeliveryInv => TypeOK
  BY DEF DeliveryInv
<1> QED
  BY <1>1, LinkInvariant, PTL

\* However many sends, resends, reminders and crashes overlap, an open offer has
\* a link that was mailed or a sender who can see that it was not
\* (send-offer.service.ts records the attempt before it mails).
THEOREM SomeLinkAlwaysWorks == Spec => []SomeLinkWorks
<1>1. DeliveryInv => SomeLinkWorks
  BY DEF DeliveryInv
<1> QED
  BY <1>1, LinkInvariant, PTL
-----------------------------------------------------------------------------
(* The certificate.  Whoever issues it first, in whatever interleaving and *)
(* after whatever crashes, there is one, and everything sent on its behalf *)
(* names it.                                                               *)
(*                                                                         *)
(* The property is not inductive: what is sent is the id a task has got,   *)
(* so the invariant also says that a task past the issuing holds the id of *)
(* a certificate that exists.                                              *)

JobName == {"issue", "print", "notify"}
Past    == {"confirm", "deal_accepted", "certificate_issued", "print"}

\* A task in this row is consistent with the certificates there are.
RowOK(t, row, certs) ==
    /\ row.at \in Past => row.got \in certs
    /\ t \in Job /\ row.at # "none" => row.name \in JobName

Holds(tasks, certs) ==
    /\ tasks \in [Task -> TaskRow]
    /\ \A t \in Task : RowOK(t, tasks[t], certs)

AtMostOne == \A c, d \in certificate : c = d
SentNamed == \A s \in sent : s.what # "issue" => s.id \in certificate

CompletionInv == CompletionTypeOK /\ Holds(task, certificate) /\ AtMostOne /\ SentNamed

-----------------------------------------------------------------------------
(* The task list.                                                          *)

LEMMA Bounds ==
    /\ RetryLimit \in Nat /\ 0 \in 0..RetryLimit /\ MaxCrashes \in Nat
    /\ AcceptTask \in Task /\ AcceptTask \notin Job /\ Job \subseteq Task
    /\ \A t \in Task : FreshId(t) \in Certificate
  BY CompletionAssumption DEF AcceptTask, Task, Job, Certificate

\* One row changes.
LEMMA UpdateHolds ==
    ASSUME NEW certs, NEW tasks, Holds(tasks, certs),
           NEW t \in Task, NEW row \in TaskRow, RowOK(t, row, certs)
    PROVE  Holds([tasks EXCEPT ![t] = row], certs)
<1> DEFINE new == [tasks EXCEPT ![t] = row]
<1>1. new \in [Task -> TaskRow] /\ new[t] = row
  BY DEF Holds
<1>2. \A u \in Task : u # t => new[u] = tasks[u]
  BY DEF Holds
<1>3. \A u \in Task : RowOK(u, new[u], certs)
  BY <1>1, <1>2 DEF Holds
<1> QED
  BY <1>1, <1>3 DEF Holds

\* Certificates are only added.
LEMMA MoreHold ==
    ASSUME NEW certs, NEW more, certs \subseteq more, NEW tasks, Holds(tasks, certs)
    PROVE  Holds(tasks, more)
  BY DEF Holds, RowOK

LEMMA NoneRow == None \in TaskRow /\ None.at = "none"
  BY Bounds DEF None, TaskRow, TaskStep, RecordId

\* A pg-boss job freshly queued, on its first attempt or a later one.
LEMMA QueuedRow ==
    ASSUME NEW name \in JobName, NEW id \in Certificate \cup {RecordId}, NEW n \in 0..RetryLimit
    PROVE  /\ QueuedJob(name, id, n) \in TaskRow
           /\ QueuedJob(name, id, n).at = "queued" /\ QueuedJob(name, id, n).name = name
  BY DEF QueuedJob, TaskRow, TaskStep, JobName

LEMMA MovedHolds ==
    ASSUME NEW certs, Holds(task, certs), NEW t \in Task, NEW step \in TaskStep,
           step \in Past => task[t].got \in certs,
           task[t].at # "none"
    PROVE  Holds(MovedTo(t, step), certs)
<1> DEFINE row == [task[t] EXCEPT !.at = step]
<1>1. task[t] \in TaskRow /\ RowOK(t, task[t], certs)
  BY DEF Holds
<1>2. row \in TaskRow /\ row.at = step /\ row.got = task[t].got /\ row.name = task[t].name
  BY <1>1 DEF TaskRow
<1>3. RowOK(t, row, certs)
  BY <1>1, <1>2 DEF RowOK
<1>4. MovedTo(t, step) = [task EXCEPT ![t] = row]
  BY DEF MovedTo
<1> HIDE DEF row
<1>5. Holds([task EXCEPT ![t] = row], certs)
  BY <1>2, <1>3, UpdateHolds
<1> QED
  BY <1>4, <1>5

LEMMA EndedHolds ==
    ASSUME NEW certs, Holds(task, certs), NEW t \in Task
    PROVE  Holds(Ended(t), certs)
<1>1. RowOK(t, None, certs)
  BY NoneRow DEF RowOK, Past
<1> QED
  BY <1>1, NoneRow, UpdateHolds DEF Ended

LEMMA GotHolds ==
    ASSUME NEW certs, Holds(task, certs), NEW t \in Task, NEW id \in Certificate, id \in certs,
           task[t].at # "none"
    PROVE  Holds(Got(t, id), certs)
<1> DEFINE step == IF t = AcceptTask THEN "confirm" ELSE "print"
           row == [task[t] EXCEPT !.at = step, !.got = id]
<1>1. task[t] \in TaskRow /\ RowOK(t, task[t], certs)
  BY DEF Holds
<1>2. step \in TaskStep
  BY DEF TaskStep
<1>3. row \in TaskRow /\ row.at = step /\ row.got = id /\ row.name = task[t].name
  BY <1>1, <1>2 DEF TaskRow
<1>4. RowOK(t, row, certs)
  BY <1>1, <1>3 DEF RowOK
<1>5. Got(t, id) = [task EXCEPT ![t] = row]
  BY DEF Got
<1> HIDE DEF row, step
<1>6. Holds([task EXCEPT ![t] = row], certs)
  BY <1>3, <1>4, UpdateHolds
<1> QED
  BY <1>5, <1>6

LEMMA ThrownHolds ==
    ASSUME NEW certs, Holds(task, certs), NEW j \in Job, task[j].at # "none"
    PROVE  Holds(Thrown(j), certs)
<1>1. CASE ~Retries(j)
  BY <1>1, EndedHolds, Bounds DEF Thrown
<1>2. CASE Retries(j)
  <2> DEFINE n == task[j].tries + 1
             row == QueuedJob(task[j].name, task[j].id, n)
  <2>1. task[j] \in TaskRow /\ task[j].name \in JobName
    BY Bounds DEF Holds, RowOK
  <2>2. task[j].id \in Certificate \cup {RecordId} /\ task[j].tries \in 0..RetryLimit
    BY <2>1 DEF TaskRow
  <2>3. n \in 0..RetryLimit
    BY <1>2, <2>2, Bounds DEF Retries
  <2>4. row \in TaskRow /\ row.at = "queued" /\ row.name \in JobName
    BY <2>1, <2>2, <2>3, QueuedRow
  <2>5. RowOK(j, row, certs)
    BY <2>4 DEF RowOK, Past
  <2>6. Thrown(j) = [task EXCEPT ![j] = row]
    BY <1>2 DEF Thrown
  <2> HIDE DEF row, n
  <2>7. j \in Task
    BY Bounds
  <2>8. Holds([task EXCEPT ![j] = row], certs)
    BY <2>4, <2>5, <2>7, UpdateHolds
  <2> QED
    BY <2>6, <2>8
<1> QED
  BY <1>1, <1>2

LEMMA SendHolds ==
    ASSUME NEW certs, NEW tasks, Holds(tasks, certs), NEW name \in JobName,
           NEW id \in Certificate \cup {RecordId}, Enqueue(tasks, name, id)
    PROVE  /\ Holds(task', certs)
           /\ sent' = sent \cup {[what |-> name, id |-> id]}
           /\ [what |-> name, id |-> id] \in Message
<1>1. PICK j \in Job : task' = [tasks EXCEPT ![j] = QueuedJob(name, id, 0)]
  BY DEF Enqueue
<1>2. QueuedJob(name, id, 0) \in TaskRow /\ QueuedJob(name, id, 0).at = "queued" /\ QueuedJob(name, id, 0).name = name
  BY QueuedRow, Bounds
<1>3. RowOK(j, QueuedJob(name, id, 0), certs)
  BY <1>2 DEF RowOK, Past
<1>4. Holds(task', certs)
  BY <1>1, <1>2, <1>3, UpdateHolds, Bounds
<1>5. [what |-> name, id |-> id] \in Message
  BY DEF Message, JobName
<1> QED
  BY <1>4, <1>5 DEF Enqueue

-----------------------------------------------------------------------------
(* The invariant.                                                          *)

LEMMA InitHolds == CompletionInit => CompletionInv
<1> SUFFICES ASSUME CompletionInit PROVE CompletionInv
  OBVIOUS
<1>1. AcceptRequest \in TaskRow /\ AcceptRequest.at = "find"
  BY Bounds DEF AcceptRequest, TaskRow, TaskStep
<1>3. task = [t \in Task |-> IF t = AcceptTask THEN AcceptRequest ELSE None]
  BY DEF CompletionInit
<1>4. \A t \in Task : RowOK(t, task[t], certificate)
  BY <1>1, <1>3, NoneRow, Bounds DEF RowOK, Past
<1>5. task \in [Task -> TaskRow]
  BY <1>1, <1>3, NoneRow
<1>6. certificate = {} /\ sent = {} /\ told = {} /\ crashes = 0
      /\ pdf = FALSE /\ aged = FALSE /\ found = FALSE
  BY DEF CompletionInit
<1>7. CompletionTypeOK
  <2>1. crashes \in 0..MaxCrashes
    BY <1>6, Bounds
  <2>2. certificate \subseteq Certificate /\ sent \subseteq Message /\ told \subseteq {"sender", "recipient"}
    BY <1>6
  <2> QED
    BY <1>5, <1>6, <2>1, <2>2 DEF CompletionTypeOK
<1> QED
  BY <1>4, <1>5, <1>6, <1>7 DEF CompletionInv, Holds, AtMostOne, SentNamed

\* Every step but the insert of a certificate.
LEMMA SameCertificates ==
    ASSUME CompletionInv, UNCHANGED certificate,
           Holds(task', certificate),
           pdf' \in BOOLEAN, aged' \in BOOLEAN, found' \in BOOLEAN,
           told' \subseteq {"sender", "recipient"}, crashes' \in 0..MaxCrashes,
           \A s \in sent' : \/ s \in sent
                            \/ s \in Message /\ (s.what # "issue" => s.id \in certificate)
    PROVE  CompletionInv'
<1>1. Holds(task', certificate')
  OBVIOUS
<1>2. CompletionTypeOK'
  BY <1>1 DEF CompletionInv, CompletionTypeOK, Holds
<1>3. AtMostOne'
  BY DEF CompletionInv, AtMostOne
<1>4. SentNamed'
  BY DEF CompletionInv, SentNamed
<1> QED
  BY <1>1, <1>2, <1>3, <1>4 DEF CompletionInv

\* What a step starts from.
LEMMA InvFacts ==
    ASSUME CompletionInv
    PROVE  /\ Holds(task, certificate) /\ certificate \subseteq Certificate
           /\ task \in [Task -> TaskRow] /\ sent \subseteq Message
           /\ pdf \in BOOLEAN /\ aged \in BOOLEAN /\ found \in BOOLEAN
           /\ told \subseteq {"sender", "recipient"} /\ crashes \in 0..MaxCrashes
           /\ \A t \in Task :
                 /\ RowOK(t, task[t], certificate)
                 /\ task[t].id \in Certificate \cup {RecordId}
                 /\ task[t].got \in Certificate \cup {RecordId}
  BY DEF CompletionInv, CompletionTypeOK, Holds, TaskRow

LEMMA IssueHolds ==
    ASSUME CompletionInv, NEW t \in Task, Issue(t)
    PROVE  CompletionInv'
<1>1. CASE FindCertificate(t)
  <2>1. task[t].at = "find"
    BY <1>1 DEF FindCertificate, OnStep
  <2>2. CASE certificate = {}
    <3>1. task' = MovedTo(t, "create")
      BY <1>1, <2>2 DEF FindCertificate
    <3>2. Holds(task', certificate)
      BY <2>1, <3>1, InvFacts, MovedHolds DEF TaskStep, Past
    <3> QED
      BY <1>1, <3>2, InvFacts, SameCertificates DEF FindCertificate
  <2>3. CASE certificate # {}
    <3> DEFINE id == CHOOSE c \in certificate : TRUE
    <3>1. id \in certificate
      BY <2>3
    <3>2. task' = Got(t, id)
      BY <1>1, <2>3 DEF FindCertificate
    <3> HIDE DEF id
    <3>3. id \in Certificate
      BY <3>1, InvFacts
    <3>4. Holds(task', certificate)
      BY <2>1, <3>1, <3>2, <3>3, InvFacts, GotHolds
    <3> QED
      BY <1>1, <3>4, InvFacts, SameCertificates DEF FindCertificate
  <2> QED
    BY <2>2, <2>3
<1>2. CASE CreateCertificate(t)
  <2> DEFINE id == Winner(t)
  <2>1. task[t].at = "create" /\ task' = Got(t, id)
    BY <1>2 DEF CreateCertificate, OnStep
  <2>2. /\ certificate \subseteq certificate' /\ certificate' \subseteq Certificate
        /\ id \in certificate' /\ id \in Certificate
    <3>1. CASE certificate = {}
      BY <1>2, <3>1, Bounds DEF CreateCertificate, Unissued, Winner
    <3>2. CASE certificate # {}
      BY <1>2, <3>2, InvFacts DEF CreateCertificate, Unissued, Winner
    <3> QED
      BY <3>1, <3>2
  <2>3. AtMostOne'
    <3>1. CASE certificate = {}
      BY <1>2, <3>1 DEF CreateCertificate, Unissued, AtMostOne
    <3>2. CASE certificate # {}
      BY <1>2, <3>2 DEF CreateCertificate, Unissued, AtMostOne, CompletionInv
    <3> QED
      BY <3>1, <3>2
  <2>4. Holds(task, certificate')
    BY <2>2, InvFacts, MoreHold
  <2> HIDE DEF id
  <2>5. Holds(task', certificate')
    BY <2>1, <2>2, <2>4, GotHolds
  <2>6. sent' = sent /\ UNCHANGED <<pdf, aged, found, told, crashes>>
    BY <1>2 DEF CreateCertificate
  <2>7. CompletionTypeOK'
    BY <2>2, <2>5, <2>6, InvFacts DEF CompletionTypeOK, Holds
  <2>8. SentNamed'
    BY <2>2, <2>6 DEF CompletionInv, SentNamed
  <2> QED
    BY <2>3, <2>5, <2>7, <2>8 DEF CompletionInv
<1> QED
  BY <1>1, <1>2 DEF Issue

LEMMA RequestHolds ==
    ASSUME CompletionInv, AcceptGoesOn
    PROVE  CompletionInv'
<1> USE Bounds
<1>1. CASE Issue(AcceptTask)
  BY <1>1, IssueHolds
<1>2. CASE EnqueueConfirmation
  <2>1. task[AcceptTask].at = "confirm" /\ task[AcceptTask].got \in certificate
    BY <1>2, InvFacts DEF EnqueueConfirmation, OnStep, RowOK, Past
  <2>2. Holds(MovedTo(AcceptTask, "deal_accepted"), certificate)
    BY <2>1, InvFacts, MovedHolds DEF TaskStep
  <2>3. Enqueue(MovedTo(AcceptTask, "deal_accepted"), "notify", task[AcceptTask].got)
    BY <1>2 DEF EnqueueConfirmation
  <2>4. /\ Holds(task', certificate)
        /\ sent' = sent \cup {[what |-> "notify", id |-> task[AcceptTask].got]}
        /\ [what |-> "notify", id |-> task[AcceptTask].got] \in Message
    BY <2>2, <2>3, InvFacts, SendHolds DEF JobName
  <2> QED
    BY <1>2, <2>1, <2>4, InvFacts, SameCertificates DEF EnqueueConfirmation
<1>3. ASSUME NEW event \in {"deal_accepted", "certificate_issued"},
             NEW next \in {"certificate_issued", "none"}, DispatchWebhook(event, next)
      PROVE  CompletionInv'
  <2>1. task[AcceptTask].at = event /\ task[AcceptTask].got \in certificate
    BY <1>3, InvFacts DEF DispatchWebhook, OnStep, RowOK, Past
  <2>2. task' = MovedTo(AcceptTask, next)
    BY <1>3 DEF DispatchWebhook
  <2>3. Holds(task', certificate)
    BY <2>1, <2>2, InvFacts, MovedHolds DEF TaskStep
  <2>4. [what |-> event, id |-> task[AcceptTask].got] \in Message
    BY InvFacts DEF Message
  <2> QED
    BY <1>3, <2>1, <2>3, <2>4, InvFacts, SameCertificates DEF DispatchWebhook
<1> QED
  BY <1>1, <1>2, <1>3 DEF AcceptGoesOn, AnnounceAcceptance, AnnounceCertificate

LEMMA JobHolds ==
    ASSUME CompletionInv, NEW j \in Job, JobStep(j)
    PROVE  CompletionInv'
<1> USE Bounds
<1>0. j \in Task /\ (task[j].at # "none" => task[j].name \in JobName)
  BY InvFacts DEF RowOK
<1>1. CASE Work(j)
  <2>1. task[j].at = "queued" /\ task[j].name \in JobName
    BY <1>0, <1>1 DEF Work, OnStep
  <2>2. FirstStep[task[j].name] \in TaskStep \ Past
    BY <2>1 DEF FirstStep, JobName, TaskStep, Past
  <2>3. Holds(task', certificate)
    BY <1>0, <1>1, <2>1, <2>2, InvFacts, MovedHolds DEF Work
  <2> QED
    BY <1>1, <2>3, InvFacts, SameCertificates DEF Work
<1>2. CASE Issue(j)
  BY <1>0, <1>2, IssueHolds
<1>3. CASE EnqueuePdf(j)
  <2>1. task[j].at = "print" /\ task[j].got \in certificate
    BY <1>0, <1>3, InvFacts DEF EnqueuePdf, OnStep, RowOK, Past
  <2>2. Holds(Ended(j), certificate)
    BY <1>0, InvFacts, EndedHolds
  <2>3. CASE Enqueue(Ended(j), "print", task[j].got)
    <3>1. /\ Holds(task', certificate)
          /\ sent' = sent \cup {[what |-> "print", id |-> task[j].got]}
          /\ [what |-> "print", id |-> task[j].got] \in Message
      BY <1>0, <2>2, <2>3, InvFacts, SendHolds DEF JobName
    <3> QED
      BY <1>3, <2>1, <3>1, InvFacts, SameCertificates DEF EnqueuePdf
  <2>4. CASE task' = Ended(j) /\ UNCHANGED sent
    BY <1>3, <2>2, <2>4, InvFacts, SameCertificates DEF EnqueuePdf
  <2> QED
    BY <1>3, <2>3, <2>4 DEF EnqueuePdf
<1>4. CASE RenderPdf(j)
  <2>1. task[j].at # "none" /\ pdf' \in BOOLEAN /\ (task' = Ended(j) \/ task' = Thrown(j))
    BY <1>4, InvFacts DEF RenderPdf, OnStep
  <2>2. Holds(task', certificate)
    BY <1>0, <2>1, InvFacts, EndedHolds, ThrownHolds
  <2> QED
    BY <1>4, <2>1, <2>2, InvFacts, SameCertificates DEF RenderPdf
<1>5. ASSUME NEW who \in {"sender", "recipient"}, NEW next, Holds(next, certificate), Mail(j, who, next)
      PROVE  CompletionInv'
  <2>1. task' = next /\ told' \subseteq {"sender", "recipient"}
    BY <1>5, InvFacts DEF Mail
  <2> QED
    BY <1>5, <2>1, InvFacts, SameCertificates DEF Mail
<1>6. CASE MailSender(j)
  <2>1. task[j].at = "sender"
    BY <1>6 DEF MailSender, Mail, OnStep
  <2>2. Holds(MovedTo(j, "recipient"), certificate)
    BY <1>0, <2>1, InvFacts, MovedHolds DEF TaskStep, Past
  <2> QED
    BY <1>5, <1>6, <2>2 DEF MailSender
<1>7. CASE MailRecipient(j)
  <2>1. Holds(Ended(j), certificate)
    BY <1>0, InvFacts, EndedHolds
  <2> QED
    BY <1>5, <1>7, <2>1 DEF MailRecipient
<1> QED
  BY <1>1, <1>2, <1>3, <1>4, <1>6, <1>7 DEF JobStep

LEMMA SweepHolds ==
    ASSUME CompletionInv, Reconcile
    PROVE  CompletionInv'
<1>1. CASE FindMissing
  BY <1>1, InvFacts, SameCertificates DEF FindMissing
<1>2. CASE Requeue
  <2>1. RecordId \in Certificate \cup {RecordId} /\ Enqueue(task, "issue", RecordId)
    BY <1>2 DEF Requeue
  <2>2. /\ Holds(task', certificate)
        /\ sent' = sent \cup {[what |-> "issue", id |-> RecordId]}
        /\ [what |-> "issue", id |-> RecordId] \in Message
    BY <2>1, InvFacts, SendHolds DEF JobName
  <2>3. \A s \in sent' : s \in sent \/ (s \in Message /\ s.what = "issue")
    BY <2>2
  <2>4. found' \in BOOLEAN /\ UNCHANGED <<certificate, pdf, aged, told, crashes>>
    BY <1>2 DEF Requeue
  <2> QED
    BY <2>2, <2>3, <2>4, InvFacts, SameCertificates
<1> QED
  BY <1>1, <1>2 DEF Reconcile

LEMMA FaultHolds ==
    ASSUME CompletionInv, Crash
    PROVE  CompletionInv'
<1> USE Bounds
<1>1. crashes' \in 0..MaxCrashes
  BY InvFacts DEF Crash
<1>2. Holds(task', certificate) /\ found' \in BOOLEAN
  <2>1. CASE RequestFails
    <3>1. task[AcceptTask].at # "none" /\ found' = found
      BY <2>1 DEF RequestFails, Underway, OnStep
    <3>2. \E step \in TaskStep :
            /\ task' = MovedTo(AcceptTask, step)
            /\ step \in Past => task[AcceptTask].at \in Past
      <4>1. CASE \E step \in {"none", "thrown"} : task' = MovedTo(AcceptTask, step)
        BY <4>1 DEF TaskStep, Past
      <4>2. CASE task[AcceptTask].at \in Past /\ \E step \in {"deal_accepted", "certificate_issued"} :
                    task' = MovedTo(AcceptTask, step)
        BY <4>2 DEF TaskStep
      <4> QED
        BY <2>1, <4>1, <4>2 DEF RequestFails, Past, OnStep
    <3>3. PICK step \in TaskStep :
            /\ task' = MovedTo(AcceptTask, step)
            /\ step \in Past => task[AcceptTask].at \in Past
      BY <3>2
    <3> QED
      BY <3>1, <3>3, InvFacts, MovedHolds DEF RowOK
  <2>2. CASE JobFails
    <3>1. PICK j \in Job : Underway(j) /\ task' = Thrown(j) /\ found' = found
      BY <2>2 DEF JobFails
    <3> QED
      BY <3>1, InvFacts, ThrownHolds DEF Underway
  <2>3. CASE SweepFails
    BY <2>3, InvFacts DEF SweepFails
  <2> QED
    BY <2>1, <2>2, <2>3 DEF Crash
<1> QED
  BY <1>1, <1>2, InvFacts, SameCertificates DEF Crash

LEMMA NextHolds == CompletionInv /\ [CompletionNext]_completionVars => CompletionInv'
<1> SUFFICES ASSUME CompletionInv, [CompletionNext]_completionVars PROVE CompletionInv'
  OBVIOUS
<1>1. CASE AcceptGoesOn
  BY <1>1, RequestHolds
<1>2. CASE Reconcile
  BY <1>2, SweepHolds
<1>3. CASE Age
  BY <1>3, InvFacts, SameCertificates DEF Age
<1>4. CASE Crash
  BY <1>4, FaultHolds
<1>5. CASE \E j \in Job : JobStep(j)
  BY <1>5, JobHolds
<1>6. CASE UNCHANGED completionVars
  BY <1>6, InvFacts, SameCertificates DEF completionVars
<1> QED
  BY <1>1, <1>2, <1>3, <1>4, <1>5, <1>6 DEF CompletionNext

-----------------------------------------------------------------------------
LEMMA CertificateInvariant == CompletionSpec => []CompletionInv
  BY InitHolds, NextHolds, PTL DEF CompletionSpec

\* Rows, jobs and messages keep their types, and no job is retried more often
\* than its queue allows.
THEOREM CompletionTypes == CompletionSpec => []CompletionTypeOK
<1>1. CompletionInv => CompletionTypeOK
  BY DEF CompletionInv
<1> QED
  BY <1>1, CertificateInvariant, PTL

\* generateForAcceptance issues one certificate, whoever calls it and however
\* often, and every e-mail, webhook and PDF job names that one.
THEOREM OneCertificate == CompletionSpec => []OneCertificateNamed
<1>1. CompletionInv => OneCertificateNamed
  <2> SUFFICES ASSUME CompletionInv PROVE OneCertificateNamed
    OBVIOUS
  <2>1. Cardinality(certificate) <= 1
    <3>1. CASE certificate = {}
      BY <3>1, FS_EmptySet
    <3>2. CASE certificate # {}
      <4>1. PICK c \in certificate : certificate = {c}
        BY <3>2 DEF CompletionInv, AtMostOne
      <4>2. Cardinality({c}) = 1
        BY FS_Singleton
      <4> QED
        BY <4>1, <4>2
    <3> QED
      BY <3>1, <3>2
  <2> QED
    BY <2>1 DEF CompletionInv, SentNamed, OneCertificateNamed
<1> QED
  BY <1>1, CertificateInvariant, PTL

=============================================================================
