----------------------------- MODULE SenderFlow -----------------------------
(***************************************************************************)
(* SendOfferService: what the sender of the offer does.  Each operation    *)
(* reads and checks first and writes later, with awaits in between, so it  *)
(* is a Start action and the steps that follow it.                         *)
(***************************************************************************)
EXTENDS DealStore

-----------------------------------------------------------------------------
(* Plausible bugs of this code, each a form of a definition below.  No     *)
(* action uses them: in place of the definition each one corrupts, a       *)
(* checked property must fail (README.md, "Mutants").                      *)

RevocableOnceSent  == offer.status # "DRAFT"     \* Revocable: forgets terminal states

-----------------------------------------------------------------------------
(* send, resend and revoke.                                                *)

\* send(), up to its transaction.
StartSend(p) ==
    /\ At(p, "idle")
    /\ offer.status = "DRAFT"
    /\ Goto(p, "send")
    /\ UNCHANGED store

\* send(), the transaction: snapshot (unique per offer), a real token for the
\* recipient, and DRAFT -> SENT by compare-and-swap.
CommitSend(p) ==
    /\ At(p, "send")
    /\ ~snapshot
    /\ offer.status = "DRAFT"
    /\ snapshot' = TRUE
    /\ recipient' = [recipient EXCEPT !.token = "live", !.status = "PENDING"]
    /\ offer' = [offer EXCEPT !.status = "SENT"]
    /\ Goto(p, "schedule")
    /\ UNCHANGED <<session, challenge, record, chain, reminder>>

\* send(), after the email call returned or failed: the reminder schedule.
ScheduleReminders(p) ==
    /\ At(p, "schedule")
    /\ reminder' = TRUE
    /\ Finish(p)
    /\ UNCHANGED <<offer, snapshot, recipient, session, challenge, record, chain>>

\* resend(), its checks.
Resendable == offer.status = "SENT" /\ recipient.token # "dead"

StartResend(p) ==
    /\ At(p, "idle")
    /\ Resendable
    /\ Goto(p, "resend")
    /\ UNCHANGED store

\* resend(), the new token: written whatever became of the offer meanwhile.
ReplaceToken(p) ==
    /\ At(p, "resend")
    /\ recipient' = [recipient EXCEPT !.token = "live"]
    /\ Finish(p)
    /\ UNCHANGED <<offer, snapshot, session, challenge, record, chain, reminder>>

\* revoke(), its check.
Revocable == offer.status = "SENT"

StartRevoke(p) ==
    /\ At(p, "idle")
    /\ Revocable
    /\ Goto(p, "revoke")
    /\ UNCHANGED store

\* revoke(), the transaction: neither write asks for the status again.
CommitRevoke(p) ==
    /\ At(p, "revoke")
    /\ recipient' = [recipient EXCEPT !.token = "dead"]
    /\ offer' = [offer EXCEPT !.status = "REVOKED"]
    /\ Goto(p, "unschedule")
    /\ UNCHANGED <<snapshot, session, challenge, record, chain, reminder>>

\* revoke(), decline() and the offer sweep end by deleting the schedule.
CancelReminders(p) ==
    /\ At(p, "unschedule")
    /\ reminder' = FALSE
    /\ Finish(p)
    /\ UNCHANGED <<offer, snapshot, recipient, session, challenge, record, chain>>

SenderStep(p) ==
    \/ StartSend(p) \/ CommitSend(p) \/ ScheduleReminders(p)
    \/ StartResend(p) \/ ReplaceToken(p)
    \/ StartRevoke(p) \/ CommitRevoke(p) \/ CancelReminders(p)
=============================================================================
