---------------------------- MODULE RecipientFlow ----------------------------
(***************************************************************************)
(* What the recipient's requests do: requestOtp, recordDocumentView and    *)
(* verifyOtp (SigningOtpOrchestrator, SigningContextService,               *)
(* SigningOtpService), accept and decline (SigningDecisionOrchestrator,    *)
(* AcceptanceService).  GET of the offer context writes nothing.           *)
(*                                                                         *)
(* The reads before a write are one Start action; a transaction is one     *)
(* action, its compare-and-swaps among the guards.  A transaction that     *)
(* loses a compare-and-swap rolls back: SigningSystem's Abort.             *)
(***************************************************************************)
EXTENDS DealStore, Functions

CONSTANT MaxViews      \* bound: DOCUMENT_VIEWED events per session

-----------------------------------------------------------------------------
(* Plausible bugs of this code, each a form of a definition below.  No     *)
(* action uses them: in place of the definition each one corrupts, a       *)
(* checked property must fail (README.md, "Mutants").                      *)

NoCas       == TRUE                             \* StillSent: no WHERE status
CasOnRecord == record = {}                      \* StillSent: guards the record only
LogUnlessTerminal(s, type, c) ==                \* LogEvent: skips closed sessions
    chain' = IF SessionTerminal(s) THEN chain
             ELSE [chain EXCEPT ![s] = Append(@, [type |-> type, challenge |-> c])]
SupersededBefore(p, d) ==                       \* Superseded: keeps the newest
    challenge[d].session = req[p].s /\ challenge[d].status = "PENDING" /\ d < req[p].c
ForgottenIncrement(p)   == req[p].tries         \* CountedTries
NoVersionCheck(p)       == TRUE                 \* VersionsUnchanged
AnyAnsweredCode(c) ==                           \* ChallengeProves: a code merely closed
    challenge[c].status \in {"VERIFIED", "INVALIDATED"}

-----------------------------------------------------------------------------
(* Queries the requests share.                                             *)

\* verifyToken: the link is the recipient's newest, not invalidated, and not
\* expired (the token takes the offer's expiresAt).
TokenValid == recipient.token = "live" /\ ~offer.lapsed

\* findResumable returns the latest of the resumable sessions.
Resumable ==
    {s \in Session : session[s].status \in {"AWAITING_OTP", "OTP_VERIFIED"} /\ ~session[s].lapsed}

Latest(s) == \A t \in Resumable : t <= s

\* deriveOtpStatus trusts a stored terminal status, and derives the rest.
EffectiveOtpStatus(c) ==
    IF challenge[c].status # "PENDING" THEN challenge[c].status
    ELSE IF challenge[c].attempts >= MaxAttempts THEN "LOCKED"
    ELSE IF challenge[c].lapsed THEN "EXPIRED"
    ELSE "PENDING"

\* Row ids are handed out in order: the rows that exist are those up to n.
SessionsUpTo(n)   == \A s \in Session : session[s].status # "NONE" <=> s <= n
ChallengesUpTo(n) == \A c \in Challenge : challenge[c].status # "NONE" <=> c <= n

\* SigningEventService.append: the session's advisory lock makes reading the
\* tail and inserting the next sequenceNumber one step.
LogEvent(s, type, c) ==
    chain' = [chain EXCEPT ![s] = Append(@, [type |-> type, challenge |-> c])]

\* updateMany WHERE status = 'SENT': the compare-and-swap of both decisions.
StillSent == offer.status = "SENT"

-----------------------------------------------------------------------------
(* POST /sign/:token/otp                                                   *)

\* Only the first open of the link marks it VIEWED.
FirstOpen == recipient.status = "PENDING"

\* requestOtp, its reads.  The recipient's status is not read again.
StartOtpRequest(p) ==
    /\ At(p, "idle")
    /\ TokenValid
    /\ offer.status = "SENT"
    /\ Goto(p, IF FirstOpen THEN "view" ELSE "find")
    /\ UNCHANGED store

\* The recipient was PENDING when read: written VIEWED by id, unconditionally.
MarkViewed(p) ==
    /\ At(p, "view")
    /\ recipient' = [recipient EXCEPT !.status = "VIEWED"]
    /\ Goto(p, "find")
    /\ UNCHANGED <<offer, snapshot, session, challenge, record, chain, reminder>>

\* findResumable: the latest open session, or a new one.
FindSession(p) ==
    /\ At(p, "find")
    /\ \/ Resumable = {} /\ Goto(p, "create")
       \/ \E s \in Resumable : Latest(s) /\ GotoWith(p, "lockout", s)
    /\ UNCHANGED store

CreateSession(p) ==
    /\ At(p, "create")
    /\ \E s \in Session :
          /\ SessionsUpTo(s - 1)
          /\ session' = [session EXCEPT ![s].status = "AWAITING_OTP"]
          /\ LogEvent(s, "SESSION_STARTED", 0)
          /\ GotoWith(p, "lockout", s)
    /\ UNCHANGED <<offer, snapshot, recipient, challenge, record, reminder>>

\* issue, the failures of the last 30 minutes: those of every challenge still
\* running, and of any that lapsed (10 minutes) and may be out of the window.
RecentFailures ==
    {SumFunctionOnSet([c \in Challenge |-> challenge[c].attempts],
                      {c \in Challenge : ~challenge[c].lapsed} \cup old) :
        old \in SUBSET {c \in Challenge : challenge[c].lapsed}}

CheckLockout(p) ==
    /\ At(p, "lockout")
    /\ \E n \in RecentFailures :
          IF n >= LockoutThreshold THEN Finish(p) ELSE GotoWith(p, "issue", req[p].s)
    /\ UNCHANGED store

\* issue, the transaction's first statement invalidates the PENDING codes of
\* the session that are committed by then: ids up to n (read committed).
BeginIssue(p) ==
    /\ At(p, "issue")
    /\ \E n \in Challenge \cup {0} :
          /\ ChallengesUpTo(n)
          /\ req' = [req EXCEPT ![p].at = "insert", ![p].c = n]
    /\ UNCHANGED store

Superseded(p, d) ==
    /\ challenge[d].session = req[p].s
    /\ challenge[d].status = "PENDING"
    /\ d <= req[p].c

\* ...and it commits with the new code.  The session's status is not looked at.
IssueOtp(p) ==
    /\ At(p, "insert")
    /\ \E c \in Challenge :
          /\ ChallengesUpTo(c - 1)
          /\ challenge' = [d \in Challenge |->
                IF d = c THEN [NoChallenge EXCEPT !.status = "PENDING", !.session = req[p].s]
                ELSE IF Superseded(p, d) THEN [challenge[d] EXCEPT !.status = "INVALIDATED"]
                ELSE challenge[d]]
    /\ LogEvent(req[p].s, "OTP_ISSUED", 0)
    /\ Finish(p)
    /\ UNCHANGED <<offer, snapshot, recipient, session, record, reminder>>

-----------------------------------------------------------------------------
(* recordDocumentView                                                      *)

StartDocumentView(p) ==
    /\ At(p, "idle")
    /\ TokenValid
    /\ \E s \in Resumable : Latest(s) /\ GotoWith(p, "document", s)
    /\ UNCHANGED store

RecordDocumentView(p) ==
    /\ At(p, "document")
    /\ Len(SelectSeq(chain[req[p].s], LAMBDA e : e.type = "DOCUMENT_VIEWED")) < MaxViews
    /\ LogEvent(req[p].s, "DOCUMENT_VIEWED", 0)
    /\ Finish(p)
    /\ UNCHANGED <<offer, snapshot, recipient, session, challenge, record, reminder>>

-----------------------------------------------------------------------------
(* verifyAndAdvanceSession: the offer's status is not consulted.           *)

Verifiable(s) == session[s].status = "AWAITING_OTP" /\ ~session[s].lapsed

StartVerify(p) ==
    /\ At(p, "idle")
    /\ TokenValid
    /\ \E c \in Challenge, code \in {"wrong", "right"} :
          /\ EffectiveOtpStatus(c) = "PENDING"
          /\ LET s == challenge[c].session IN
             /\ Verifiable(s)
             /\ req' = [req EXCEPT ![p] =
                          [at |-> code, s |-> s, c |-> c, tries |-> challenge[c].attempts,
                           sver |-> session[s].version, rver |-> recipient.version]]
    /\ UNCHANGED store

\* A wrong code: the count is the one read plus one, written unconditionally.
CountedTries(p) == req[p].tries + 1

RecordFailure(p) ==
    /\ At(p, "wrong")
    /\ LET c == req[p].c
           tries == CountedTries(p)
           locked == tries >= MaxAttempts
       IN /\ challenge' = [challenge EXCEPT
                ![c].attempts = tries,
                ![c].status = IF locked THEN "LOCKED" ELSE @]
          /\ LogEvent(req[p].s, IF locked THEN "OTP_MAX_ATTEMPTS" ELSE "OTP_ATTEMPT_FAILED", c)
    /\ Finish(p)
    /\ UNCHANGED <<offer, snapshot, recipient, session, record, reminder>>

\* The right code: session and recipient advance only at the versions read.
VersionsUnchanged(p) ==
    session[req[p].s].version = req[p].sver /\ recipient.version = req[p].rver

AdvanceVerified(p) ==
    /\ At(p, "right")
    /\ VersionsUnchanged(p)
    /\ challenge' = [challenge EXCEPT ![req[p].c].status = "VERIFIED"]
    /\ session' = [session EXCEPT ![req[p].s].status = "OTP_VERIFIED", ![req[p].s].version = @ + 1]
    /\ recipient' = [recipient EXCEPT !.status = "OTP_VERIFIED", !.version = @ + 1]
    /\ LogEvent(req[p].s, "OTP_VERIFIED", req[p].c)
    /\ Finish(p)
    /\ UNCHANGED <<offer, snapshot, record, reminder>>

-----------------------------------------------------------------------------
(* accept and decline                                                      *)

ChallengeProves(c) == challenge[c].status = "VERIFIED"

\* verifyToken, getSessionFromVerifiedChallenge, and the checks both services
\* make before their transaction.
DecisionReads(c, verdict) ==
    /\ TokenValid
    /\ ChallengeProves(c)
    /\ ~session[challenge[c].session].lapsed
    /\ CanTransition(SessionTransitions, session[challenge[c].session].status, verdict)
    /\ CanTransition(OfferTransitions, offer.status, verdict)

Decide(p, c, step) ==
    req' = [req EXCEPT ![p] = [Idle EXCEPT !.at = step, !.s = challenge[c].session, !.c = c]]

StartAccept(p) ==
    /\ At(p, "idle")
    /\ \E c \in Challenge :
          /\ DecisionReads(c, "ACCEPTED")
          /\ CanTransition(RecipientTransitions, recipient.status, "ACCEPTED")
          /\ Decide(p, c, "accept")
    /\ UNCHANGED store

\* The reminder schedule goes in the same transaction.
DropSchedule == reminder' = FALSE

CommitAccept(p) ==
    /\ At(p, "accept")
    /\ StillSent
    /\ record = {}                      \* snapshotId is UNIQUE
    /\ offer' = [offer EXCEPT !.status = "ACCEPTED"]
    /\ record' = record \cup {[session |-> req[p].s, challenge |-> req[p].c]}
    /\ session' = [session EXCEPT ![req[p].s].status = "ACCEPTED"]
    /\ recipient' = [recipient EXCEPT !.status = "ACCEPTED", !.token = "dead"]
    /\ LogEvent(req[p].s, "OFFER_ACCEPTED", 0)
    /\ DropSchedule
    /\ Finish(p)
    /\ UNCHANGED <<snapshot, challenge>>

\* decline reads no recipient status and leaves the token live.
StartDecline(p) ==
    /\ At(p, "idle")
    /\ \E c \in Challenge : DecisionReads(c, "DECLINED") /\ Decide(p, c, "decline")
    /\ UNCHANGED store

CommitDecline(p) ==
    /\ At(p, "decline")
    /\ StillSent
    /\ offer' = [offer EXCEPT !.status = "DECLINED"]
    /\ session' = [session EXCEPT ![req[p].s].status = "DECLINED"]
    /\ recipient' = [recipient EXCEPT !.status = "DECLINED"]
    /\ LogEvent(req[p].s, "OFFER_DECLINED", 0)
    /\ Goto(p, "unschedule")
    /\ UNCHANGED <<snapshot, challenge, record, reminder>>

RecipientStep(p) ==
    \/ StartOtpRequest(p) \/ MarkViewed(p) \/ FindSession(p) \/ CreateSession(p)
    \/ CheckLockout(p) \/ BeginIssue(p) \/ IssueOtp(p)
    \/ StartDocumentView(p) \/ RecordDocumentView(p)
    \/ StartVerify(p) \/ RecordFailure(p) \/ AdvanceVerified(p)
    \/ StartAccept(p) \/ CommitAccept(p) \/ StartDecline(p) \/ CommitDecline(p)
=============================================================================
