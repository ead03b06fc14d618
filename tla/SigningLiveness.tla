--------------------------- MODULE SigningLiveness ---------------------------
(***************************************************************************)
(* What the expiry jobs get done in the end, although a worker may die     *)
(* between any two of their statements and requests keep racing them.      *)
(***************************************************************************)
EXTENDS SigningSystem

\* A request in flight goes on or ends.  The jobs run on a cron and are
\* retried, so a statement of theirs that keeps being possible is executed:
\* strong fairness, because workers are busy with other things in between.
FairSpec ==
    /\ Spec
    /\ \A p \in Procs : WF_vars(~At(p, "idle") /\ Act(p))
    /\ SF_vars(\E p \in Procs : FindExpiredOffer(p))
    /\ SF_vars(\E p \in Procs : CommitExpiry(p))
    /\ SF_vars(\E p \in Procs : ExpireSessions(p))
    /\ SF_vars(\E p \in Procs : ExpireChallenges(p))

\* An offer past its deadline does not stay open, whatever crashes
\* (ExpireOffersHandler finds it again until the transaction commits).
LapsedOfferCloses == offer.lapsed ~> [](offer.status # "SENT")

\* A session past its deadline ends up closed for good, although a
\* verification in flight can reopen one the sweep has just expired: its
\* version check does not see the sweep, which bumps no version.
LapsedSessionCloses ==
    \A s \in Session : session[s].lapsed ~> []SessionTerminal(s)

\* A code left pending in an expired session is closed: by the second
\* statement of the sweep that expired it, or by a later sweep when a worker
\* died between the two or the code was issued to a session already expired.
NoCodeLeftPending ==
    \A c \in Challenge :
        /\ challenge[c].status = "PENDING"
        /\ session[challenge[c].session].status = "EXPIRED"
        ~> challenge[c].status # "PENDING"
\* Nothing stays open past its deadline: offer, session, or code.
LapsedIsClosed == LapsedOfferCloses /\ LapsedSessionCloses /\ NoCodeLeftPending
=============================================================================
