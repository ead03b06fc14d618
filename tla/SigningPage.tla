---------------------------- MODULE SigningPage ----------------------------
(***************************************************************************)
(* The page behind the signing link (web app/accept/[token]), in every tab *)
(* the recipient has it open in, against the signing API: SigningClient's  *)
(* reducer, its handlers and the answers they wait for.  A call of the API *)
(* is one step here; what happens inside it is RecipientFlow's.  An answer *)
(* may be lost after the server has done its work.                         *)
(***************************************************************************)
EXTENDS Integers

CONSTANTS
    Tabs,
    MaxAttempts,        \* wrong codes until a challenge is locked (5)
    LockoutThreshold,   \* wrong codes in 30 minutes until the recipient is (10)
    MaxDisturbances     \* bound: answers and mails lost, wrong codes, reloads, tabs changed, deadlines

ASSUME SigningPageAssumption ==
    MaxAttempts \in Nat \ {0} /\ LockoutThreshold \in Nat \ {0} /\ MaxDisturbances \in Nat

VARIABLES
    offer,      \* Offer.status
    link,       \* whether verifyToken finds the link's token
    session,    \* status of the session findResumable returns, or NONE
    code,       \* that session's newest challenge: status, attempts, whether its code was mailed
    failures,   \* wrong codes within the lockout window
    page,       \* per tab: the reducer's phase, the challenge it knows, the call it waits for
    focus,      \* the tab the recipient is looking at
    disturbances

vars == <<offer, link, session, code, failures, page, focus, disturbances>>

-----------------------------------------------------------------------------
(* Plausible bugs, each a form of a definition below (README.md, Mutants). *)

AssumeDeclined(t)  ==       \* DeclineFailed: the success screen all the same
    [page[t] EXCEPT !.at = "declined", !.prev = "none", !.call = "none", !.answer = "none"]
ResendIfUsable(t)  ==       \* Resend: hidden with the input
    /\ focus = t /\ page[t].at \in {"otp_entry", "otp_error"} /\ ~page[t].blocked
    /\ page' = [page EXCEPT ![t].at = "otp_requesting", ![t].call = "otp", ![t].prev = page[t].otp]
    /\ UNCHANGED <<offer, link, session, code, failures, focus, disturbances>>

-----------------------------------------------------------------------------
NoCode  == [status |-> "NONE", attempts |-> 0, mailed |-> FALSE]
Loading == [at |-> "loading", otp |-> "none", prev |-> "none", blocked |-> FALSE, call |-> "context", answer |-> "none"]

Disturbed == disturbances < MaxDisturbances /\ disturbances' = disturbances + 1
Server    == <<offer, link, session, code, failures>>

\* What a tab knows is the newest challenge, the one that was verified (the
\* proof), or one the server will refuse.
Outdated(which) ==
    [t \in Tabs |-> [page[t] EXCEPT !.otp = IF @ \in which THEN "old" ELSE @,
                                    !.prev = IF @ \in which THEN "old" ELSE @]]

Waiting(t, call) == page[t].call = call /\ page[t].answer = "none"
Answers(t, a)    == page' = [page EXCEPT ![t].answer = a]

-----------------------------------------------------------------------------
(* What the recipient does, in the tab she is looking at.                  *)

Acts(t, from, to, call) ==
    /\ focus = t /\ page[t].at \in from
    /\ page' = [page EXCEPT ![t].at = to, ![t].call = call, ![t].prev = page[t].otp]
    /\ UNCHANGED <<Server, focus>>

\* handleContinue; a resend from the code screen keeps the old challenge.
Continue(t) == Acts(t, {"offer_view"}, "otp_requesting", "otp") /\ UNCHANGED disturbances
Resend(t)   == Acts(t, {"otp_entry", "otp_error"}, "otp_requesting", "otp") /\ UNCHANGED disturbances

\* handleVerifyCode: the input is gone when the code is locked or expired.
CanSubmit(t) == page[t].at \in {"otp_entry", "otp_error"} /\ ~page[t].blocked

SubmitMailed(t) ==
    /\ CanSubmit(t) /\ code.mailed
    /\ Acts(t, {"otp_entry", "otp_error"}, "otp_verifying", "verify right") /\ UNCHANGED disturbances
SubmitWrong(t) ==
    /\ CanSubmit(t)
    /\ Acts(t, {"otp_entry", "otp_error"}, "otp_verifying", "verify wrong") /\ Disturbed

HandleAccept(t)  == Acts(t, {"acceptance"}, "accepting", "accept") /\ UNCHANGED disturbances
HandleDecline(t) == Acts(t, {"acceptance"}, "accepting", "decline") /\ UNCHANGED disturbances

\* A page that says the link is invalid is tried again.
Reload(t) ==
    /\ focus = t
    /\ IF page[t].at = "invalid_link" THEN UNCHANGED disturbances ELSE Disturbed
    /\ page' = [page EXCEPT ![t] = Loading]
    /\ UNCHANGED <<Server, focus>>

ChangeTab(t) ==
    /\ focus # t /\ focus' = t /\ Disturbed
    /\ UNCHANGED <<Server, page>>

\* The 700 ms timer of the otp_verified screen.
AdvanceToStatement(t) ==
    /\ page[t].at = "otp_verified"
    /\ page' = [page EXCEPT ![t].at = "acceptance"]
    /\ UNCHANGED <<Server, focus, disturbances>>

-----------------------------------------------------------------------------
(* The signing API.                                                        *)

\* getOfferContext looks for the token, and then at the offer.
FindToken(t) ==
    /\ Waiting(t, "context")
    /\ IF link THEN page' = [page EXCEPT ![t].call = "offer"] ELSE Answers(t, "TOKEN_INVALID")
    /\ UNCHANGED <<Server, focus, disturbances>>

\* By then it may be over, or past the deadline the token shares with it.
Found ==
    CASE offer = "ACCEPTED"             -> {"OFFER_ALREADY_ACCEPTED"}
      [] offer \in {"DECLINED", "CLOSED"} -> {"TOKEN_INVALID"}
      [] offer = "SENT" /\ link         -> {"ok"}
      [] offer = "SENT" /\ ~link        -> {"ok", "OFFER_EXPIRED"}

FindOffer(t) ==
    /\ Waiting(t, "offer")
    /\ \E a \in Found : Answers(t, a)
    /\ UNCHANGED <<Server, focus, disturbances>>

\* requestOtp: the open session, proven or not, or a new one; its codes are
\* replaced before the new one is mailed.
RequestOtp(t) ==
    /\ Waiting(t, "otp")
    /\ UNCHANGED <<offer, link, failures, focus>>
    /\ \/ /\ ~link \/ offer # "SENT"
          /\ Answers(t, "refused") /\ UNCHANGED <<session, code, disturbances>>
       \/ /\ link /\ offer = "SENT"
          /\ session' = IF session = "NONE" THEN "AWAITING_OTP" ELSE session
          /\ \/ failures >= LockoutThreshold
                /\ Answers(t, "refused") /\ UNCHANGED <<code, disturbances>>
             \/ failures < LockoutThreshold /\ \E mailed \in BOOLEAN :
                /\ IF mailed THEN UNCHANGED disturbances ELSE Disturbed
                /\ code' = [status |-> "PENDING", attempts |-> 0, mailed |-> mailed]
                /\ page' = [Outdated({"newest"}) EXCEPT ![t].otp = "newest",
                                                       ![t].answer = IF mailed THEN "ok" ELSE "refused"]

Verifiable(t) == page[t].otp = "newest" /\ code.status = "PENDING" /\ session = "AWAITING_OTP"

Refusal(t) ==
    IF page[t].otp = "newest" /\ code.status \in {"LOCKED", "EXPIRED"} THEN "blocked" ELSE "refused"

\* verifyOtp, with the code of the newest mail or another.
VerifyOtp(t) ==
    /\ page[t].call \in {"verify right", "verify wrong"} /\ page[t].answer = "none"
    /\ UNCHANGED <<offer, link, focus, disturbances>>
    /\ \/ ~link /\ Answers(t, "refused") /\ UNCHANGED <<session, code, failures>>
       \/ link /\ ~Verifiable(t) /\ Answers(t, Refusal(t)) /\ UNCHANGED <<session, code, failures>>
       \/ /\ link /\ Verifiable(t) /\ page[t].call = "verify right"
          /\ session' = "OTP_VERIFIED"
          /\ code' = [code EXCEPT !.status = "VERIFIED"]
          /\ page' = [page EXCEPT ![t].otp = "proof", ![t].answer = "ok"]
          /\ UNCHANGED failures
       \/ /\ link /\ Verifiable(t) /\ page[t].call = "verify wrong"
          /\ LET locked == code.attempts + 1 >= MaxAttempts
             IN  /\ code' = [code EXCEPT !.attempts = @ + 1, !.status = IF locked THEN "LOCKED" ELSE @]
                 /\ Answers(t, IF locked THEN "blocked" ELSE "refused")
          /\ failures' = failures + 1
          /\ UNCHANGED session

MayDecide(t) == link /\ page[t].otp = "proof" /\ session = "OTP_VERIFIED" /\ offer = "SENT"

\* An acceptance also ends the link; a decline leaves it.
Accept(t) ==
    /\ Waiting(t, "accept")
    /\ IF MayDecide(t)
       THEN offer' = "ACCEPTED" /\ link' = FALSE /\ session' = "NONE" /\ Answers(t, "ok")
       ELSE UNCHANGED <<offer, link, session>> /\ Answers(t, "refused")
    /\ UNCHANGED <<code, failures, focus, disturbances>>

Decline(t) ==
    /\ Waiting(t, "decline")
    /\ IF MayDecide(t) THEN offer' = "DECLINED" /\ session' = "NONE" /\ Answers(t, "ok")
       ELSE UNCHANGED <<offer, session>> /\ Answers(t, "refused")
    /\ UNCHANGED <<link, code, failures, focus, disturbances>>

-----------------------------------------------------------------------------
(* The reducer, on an answer or on its failure.                            *)

To(t, name) == [page[t] EXCEPT !.at = name, !.prev = "none", !.blocked = FALSE,
                              !.call = "none", !.answer = "none"]

ContextLoaded(t) == To(t, "offer_view")

\* Whatever else fails, the connection too, is shown as an invalid link.
LoadFailed(t) ==
    To(t, CASE page[t].answer = "OFFER_EXPIRED"          -> "offer_expired"
            [] page[t].answer = "OFFER_ALREADY_ACCEPTED" -> "already_terminal"
            [] OTHER                                     -> "invalid_link")

OtpSent(t)       == To(t, "otp_entry")
\* With the challenge it had, if it had one.
OtpSendFailed(t) ==
    [To(t, IF page[t].prev = "none" THEN "offer_view" ELSE "otp_entry") EXCEPT !.otp = page[t].prev]
OtpVerified(t)   == To(t, "otp_verified")
OtpFailed(t)     == [To(t, "otp_error") EXCEPT !.blocked = page[t].answer = "blocked"]
Accepted(t)      == To(t, "completed")
AcceptFailed(t)  == [To(t, "offer_view") EXCEPT !.otp = "none"]
Declined(t)      == To(t, "declined")
DeclineFailed(t) == [To(t, "offer_view") EXCEPT !.otp = "none"]

Reduced(t) ==
    LET ok == page[t].answer = "ok"
    IN  CASE page[t].at = "loading"        -> IF ok THEN ContextLoaded(t) ELSE LoadFailed(t)
          [] page[t].at = "otp_requesting" -> IF ok THEN OtpSent(t) ELSE OtpSendFailed(t)
          [] page[t].at = "otp_verifying"  -> IF ok THEN OtpVerified(t) ELSE OtpFailed(t)
          [] page[t].call = "accept"       -> IF ok THEN Accepted(t) ELSE AcceptFailed(t)
          [] page[t].call = "decline"      -> IF ok THEN Declined(t) ELSE DeclineFailed(t)

Receive(t) ==
    /\ page[t].answer # "none"
    /\ page' = [page EXCEPT ![t] = Reduced(t)]
    /\ UNCHANGED <<Server, focus, disturbances>>

\* The connection fails, before or after the server did its work.
Lost(t) ==
    /\ page[t].call # "none" /\ page[t].answer # "lost" /\ Disturbed
    /\ Answers(t, "lost")
    /\ UNCHANGED <<Server, focus>>

-----------------------------------------------------------------------------
(* Elsewhere, and time.                                                    *)

\* revoke, a resend that replaces the token, the deadline of the offer.
LinkEnds ==
    /\ link /\ link' = FALSE
    /\ offer' \in IF offer = "SENT" THEN {"SENT", "CLOSED"} ELSE {offer}
    /\ UNCHANGED <<session, code, failures, page, focus, disturbances>>

CodeExpires ==
    /\ code.status = "PENDING" /\ Disturbed
    /\ code' = [code EXCEPT !.status = "EXPIRED"]
    /\ UNCHANGED <<offer, link, session, failures, page, focus>>

\* No tab the recipient looks at can use the proof of the session.
ProofMislaid ==
    session = "OTP_VERIFIED" /\ page[focus].at \notin {"otp_verifying", "otp_verified", "acceptance", "accepting"}

\* Four hours pass: while nobody can use the session, or all the same.
SessionExpires ==
    /\ session # "NONE" /\ session' = "NONE"
    /\ IF ProofMislaid THEN UNCHANGED disturbances ELSE Disturbed
    /\ page' = Outdated({"newest", "proof"})
    /\ code' = NoCode
    /\ UNCHANGED <<offer, link, failures, focus>>

WindowPasses ==
    /\ failures > 0 /\ failures' = 0
    /\ UNCHANGED <<offer, link, session, code, page, focus, disturbances>>

-----------------------------------------------------------------------------
Init ==
    /\ offer = "SENT" /\ link = TRUE /\ session = "NONE" /\ code = NoCode /\ failures = 0
    /\ page = [t \in Tabs |-> Loading]
    /\ focus \in Tabs
    /\ disturbances = 0

Recipient(t) ==
    \/ Continue(t) \/ Resend(t) \/ SubmitMailed(t) \/ SubmitWrong(t) \/ HandleAccept(t) \/ HandleDecline(t)
    \/ Reload(t) \/ ChangeTab(t)
Api(t)  == FindToken(t) \/ FindOffer(t) \/ RequestOtp(t) \/ VerifyOtp(t) \/ Accept(t) \/ Decline(t)
Next ==
    \/ \E t \in Tabs : Recipient(t) \/ Api(t) \/ Receive(t) \/ Lost(t) \/ AdvanceToStatement(t)
    \/ LinkEnds \/ CodeExpires \/ SessionExpires \/ WindowPasses

Spec == Init /\ [][Next]_vars

\* Calls are answered and time passes; the recipient goes on in the tab she
\* looks at, and neither asks for codes only nor enters them only.
FairSpec ==
    /\ Spec
    /\ \A t \in Tabs :
          /\ WF_vars(Api(t)) /\ WF_vars(Receive(t)) /\ WF_vars(AdvanceToStatement(t))
          /\ WF_vars(Continue(t)) /\ WF_vars(page[t].at = "invalid_link" /\ Reload(t))
          /\ SF_vars(Resend(t)) /\ SF_vars(SubmitMailed(t))
          /\ WF_vars(HandleAccept(t) \/ HandleDecline(t))
    /\ SF_vars(SessionExpires /\ ProofMislaid) /\ WF_vars(WindowPasses)

-----------------------------------------------------------------------------
\* What a tab shows is so, whatever answers were lost and whatever the other
\* tabs did: accepted only if the offer is, declined only if the server has
\* recorded it, the statement only with a proof the session still has, unless
\* that session ended meanwhile.
ShownIsTrue ==
    \A t \in Tabs :
        /\ page[t].at \in {"completed", "already_terminal"} => offer = "ACCEPTED"
        /\ page[t].at = "declined" => offer = "DECLINED"
        /\ page[t].at \in {"otp_verified", "acceptance"} =>
              \/ page[t].otp = "proof" /\ (session = "OTP_VERIFIED" \/ offer # "SENT")
              \/ page[t].otp = "old" /\ disturbances > 0

\* A recipient who keeps trying decides, unless the link ends before: lost
\* answers, lost mails, locked and expired codes, reloads and other tabs only
\* delay it.  A proof that no tab can use any more delays it until its session
\* has expired, for till then every new code is refused.
DecidedInTheEnd == <>(offer # "SENT" \/ ~link)
=============================================================================
