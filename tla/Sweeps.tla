------------------------------- MODULE Sweeps -------------------------------
(***************************************************************************)
(* The two periodic jobs that close what ran out of time:                  *)
(* ExpireOffersHandler and ExpireSessionsHandler.                          *)
(***************************************************************************)
EXTENDS DealStore

-----------------------------------------------------------------------------
(* Plausible bugs of this code, each a form of a definition below.  No     *)
(* action uses them: in place of the definition each one corrupts, a       *)
(* checked property must fail (README.md, "Mutants").                      *)

NotYetLapsed == offer.status = "SENT" /\ ~offer.lapsed     \* OfferExpired: compared backwards
OnlyAwaitingRanOut(s) ==                                   \* SessionRanOut: half the statuses
    session[s].status = "AWAITING_OTP" /\ session[s].lapsed
CodeLapsedToo(c) ==                                        \* CodeRanOut: a filter too many
    /\ challenge[c].status = "PENDING" /\ challenge[c].lapsed
    /\ session[challenge[c].session].status = "EXPIRED"

-----------------------------------------------------------------------------
(* expire-offers and expire-sessions.                                      *)

\* expire-offers, step 1: find SENT offers whose expiresAt has passed.
OfferExpired == offer.status = "SENT" /\ offer.lapsed

FindExpiredOffer(p) ==
    /\ At(p, "idle")
    /\ OfferExpired
    /\ Goto(p, "expire")
    /\ UNCHANGED store

\* expire-offers, steps 2 and 3: one transaction selects the offers by id
\* alone, and the recipients that are not terminal yet.
CommitExpiry(p) ==
    /\ At(p, "expire")
    /\ offer' = [offer EXCEPT !.status = "EXPIRED"]
    /\ recipient' = [recipient EXCEPT !.status =
                        IF @ \in {"ACCEPTED", "DECLINED", "EXPIRED"} THEN @ ELSE "EXPIRED"]
    /\ Goto(p, "unschedule")
    /\ UNCHANGED <<snapshot, session, challenge, record, chain, reminder>>

\* What expire-sessions selects; a run that finds nothing writes nothing.
SessionRanOut(s) == session[s].status \in {"AWAITING_OTP", "OTP_VERIFIED"} /\ session[s].lapsed
CodeRanOut(c) ==
    challenge[c].status = "PENDING" /\ session[challenge[c].session].status = "EXPIRED"

SweepFindsRows ==
    \/ \E s \in Session : SessionRanOut(s)
    \/ \E c \in Challenge : CodeRanOut(c)

\* expire-sessions, first statement: no version is bumped, no event appended.
ExpireSessions(p) ==
    /\ At(p, "idle")
    /\ SweepFindsRows
    /\ session' = [s \in Session |->
                     IF SessionRanOut(s)
                     THEN [session[s] EXCEPT !.status = "EXPIRED"] ELSE session[s]]
    /\ Goto(p, "otpsweep")
    /\ UNCHANGED <<offer, snapshot, recipient, challenge, record, chain, reminder>>

\* expire-sessions, second statement: the codes pending in expired sessions.
ExpireChallenges(p) ==
    /\ At(p, "otpsweep")
    /\ challenge' = [c \in Challenge |->
                       IF CodeRanOut(c)
                       THEN [challenge[c] EXCEPT !.status = "EXPIRED"] ELSE challenge[c]]
    /\ Finish(p)
    /\ UNCHANGED <<offer, snapshot, recipient, session, record, chain, reminder>>

SweepStep(p) ==
    FindExpiredOffer(p) \/ CommitExpiry(p) \/ ExpireSessions(p) \/ ExpireChallenges(p)
=============================================================================
