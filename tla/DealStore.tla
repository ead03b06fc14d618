------------------------------ MODULE DealStore ------------------------------
(***************************************************************************)
(* The database rows the signing of ONE offer is made of, the state        *)
(* machines that govern their status columns, and the requests and jobs in *)
(* flight over them.  The operations are in SenderFlow, RecipientFlow and  *)
(* Sweeps; SigningSystem composes them.                                    *)
(*                                                                         *)
(* A row is a record that keeps the columns some guard reads.  A deadline  *)
(* column (expiresAt) is the flag "lapsed": FALSE until the clock passes   *)
(* it.  The one recipient holds the newest signing link, so a token is     *)
(* only "draft" (placeholder), "live" or "dead" (tokenInvalidatedAt set).  *)
(***************************************************************************)
EXTENDS Integers, Sequences, FiniteSets

CONSTANTS
    NumSessions,        \* bound: signing sessions ever created
    NumChallenges,      \* bound: OTP challenges ever issued
    Procs,              \* API requests and job workers that may run at once
    MaxAttempts,        \* MAX_ATTEMPTS: wrong codes that lock a challenge
    LockoutThreshold    \* RECIPIENT_LOCKOUT_THRESHOLD: wrong codes that stop issuing

ASSUME StoreAssumption ==
    /\ NumSessions \in Nat \ {0}
    /\ NumChallenges \in Nat \ {0}
    /\ MaxAttempts \in Nat \ {0}
    /\ LockoutThreshold \in Nat

Session   == 1..NumSessions     \* ids in creation (startedAt) order
Challenge == 1..NumChallenges

VARIABLES
    offer,      \* Offer: status, and whether expiresAt has passed
    snapshot,   \* TRUE once the offer's only OfferSnapshot exists
    recipient,  \* OfferRecipient: status, optimistic version, token
    session,    \* SigningSession rows by id
    challenge,  \* SigningOtpChallenge rows by id
    record,     \* set of AcceptanceRecord rows
    chain,      \* SigningEvent rows of each session, by sequenceNumber
    reminder,   \* TRUE while the offer has a ReminderSchedule row
    req         \* what each request or job in flight has read and does next

store == <<offer, snapshot, recipient, session, challenge, record, chain, reminder>>
vars  == <<offer, snapshot, recipient, session, challenge, record, chain, reminder, req>>

-----------------------------------------------------------------------------
(* Status columns: the transition tables of the four state machines.       *)

OfferTransitions ==
    [DRAFT |-> {"SENT"},
     SENT  |-> {"ACCEPTED", "DECLINED", "EXPIRED", "REVOKED"}]

RecipientTransitions ==
    [PENDING      |-> {"VIEWED", "EXPIRED"},
     VIEWED       |-> {"OTP_VERIFIED", "DECLINED", "EXPIRED"},
     OTP_VERIFIED |-> {"ACCEPTED", "DECLINED", "EXPIRED"}]

SessionTransitions ==
    [AWAITING_OTP |-> {"OTP_VERIFIED", "EXPIRED", "ABANDONED"},
     OTP_VERIFIED |-> {"ACCEPTED", "DECLINED", "EXPIRED", "ABANDONED"}]

OtpTransitions ==
    [PENDING |-> {"VERIFIED", "EXPIRED", "LOCKED", "INVALIDATED"}]

CanTransition(machine, from, to) ==
    from \in DOMAIN machine /\ to \in machine[from]

OfferStatus     == {"DRAFT", "SENT", "ACCEPTED", "DECLINED", "EXPIRED", "REVOKED"}
RecipientStatus == {"PENDING", "VIEWED", "OTP_VERIFIED", "ACCEPTED", "DECLINED", "EXPIRED"}
SessionStatus   == {"NONE", "AWAITING_OTP", "OTP_VERIFIED", "ACCEPTED", "DECLINED", "EXPIRED"}
OtpStatus       == {"NONE", "PENDING", "VERIFIED", "EXPIRED", "LOCKED", "INVALIDATED"}

EventType ==
    {"SESSION_STARTED", "DOCUMENT_VIEWED", "OTP_ISSUED", "OTP_ATTEMPT_FAILED",
     "OTP_MAX_ATTEMPTS", "OTP_VERIFIED", "OFFER_ACCEPTED", "OFFER_DECLINED"}

\* The challengeId a payload carries; 0 when it carries none.
Event == [type : EventType, challenge : Challenge \cup {0}]

-----------------------------------------------------------------------------
(* Requests in flight.  at names the next step; s, c, tries, sver and rver *)
(* are the session, the challenge, its attemptCount and the two optimistic *)
(* versions as the request read them.                                      *)

Step ==
    {"idle",
     "send", "schedule", "resend", "revoke", "unschedule",      \* SenderFlow
     "view", "find", "create", "lockout", "issue", "insert",    \* RecipientFlow
     "document", "wrong", "right", "accept", "decline",
     "expire", "otpsweep"}                                      \* Sweeps

Request ==
    [at : Step, s : Session \cup {0}, c : Challenge \cup {0},
     tries : 0..MaxAttempts, sver : Nat, rver : Nat]

Idle == [at |-> "idle", s |-> 0, c |-> 0, tries |-> 0, sver |-> 0, rver |-> 0]

At(p, step)   == req[p].at = step
Goto(p, step) == req' = [req EXCEPT ![p] = [Idle EXCEPT !.at = step]]
GotoWith(p, step, s) == req' = [req EXCEPT ![p] = [Idle EXCEPT !.at = step, !.s = s]]
Finish(p)     == req' = [req EXCEPT ![p] = Idle]

-----------------------------------------------------------------------------
\* sessionStateMachine.isTerminal, of rows that exist.
SessionTerminal(s) == session[s].status \in {"ACCEPTED", "DECLINED", "EXPIRED"}

-----------------------------------------------------------------------------
NoSession   == [status |-> "NONE", version |-> 1, lapsed |-> FALSE]
NoChallenge == [status |-> "NONE", session |-> 0, attempts |-> 0, lapsed |-> FALSE]

\* A complete draft: recipient set with the placeholder token, nothing sent.
StoreInit ==
    /\ offer = [status |-> "DRAFT", lapsed |-> FALSE]
    /\ snapshot = FALSE
    /\ recipient = [status |-> "PENDING", version |-> 1, token |-> "draft"]
    /\ session = [s \in Session |-> NoSession]
    /\ challenge = [c \in Challenge |-> NoChallenge]
    /\ record = {}
    /\ chain = [s \in Session |-> <<>>]
    /\ reminder = FALSE
    /\ req = [p \in Procs |-> Idle]

OfferRow     == [status : OfferStatus, lapsed : BOOLEAN]
RecipientRow == [status : RecipientStatus, version : Nat, token : {"draft", "live", "dead"}]
SessionRow   == [status : SessionStatus, version : Nat, lapsed : BOOLEAN]
ChallengeRow == [status : OtpStatus, session : Session \cup {0},
                 attempts : 0..MaxAttempts, lapsed : BOOLEAN]
RecordRow    == [session : Session, challenge : Challenge]

TypeOK ==
    /\ offer \in OfferRow
    /\ snapshot \in BOOLEAN
    /\ recipient \in RecipientRow
    /\ session \in [Session -> SessionRow]
    /\ challenge \in [Challenge -> ChallengeRow]
    /\ record \in SUBSET RecordRow
    /\ chain \in [Session -> Seq(Event)]
    /\ reminder \in BOOLEAN
    /\ req \in [Procs -> Request]
=============================================================================
