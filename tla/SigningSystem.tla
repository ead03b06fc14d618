---------------------------- MODULE SigningSystem ----------------------------
(***************************************************************************)
(* The signing of one offer: sender requests, recipient requests and the   *)
(* expiry jobs running at once over the shared rows, the clock, and        *)
(* requests that stop half way.                                            *)
(***************************************************************************)
EXTENDS SenderFlow, RecipientFlow, Sweeps

CONSTANT Deadlines     \* bound: the kinds of deadline the clock may pass

ASSUME DeadlinesAssumption == Deadlines \subseteq {"offer", "session", "challenge"}

\* The clock passes a deadline: the offer's (which is also its token's), a
\* session's (4 hours), a challenge's (10 minutes).
LapseOffer ==
    /\ "offer" \in Deadlines
    /\ offer.status # "DRAFT" /\ ~offer.lapsed
    /\ offer' = [offer EXCEPT !.lapsed = TRUE]
    /\ UNCHANGED <<snapshot, recipient, session, challenge, record, chain, reminder, req>>

LapseSession(s) ==
    /\ "session" \in Deadlines
    /\ session[s].status # "NONE" /\ ~session[s].lapsed
    /\ session' = [session EXCEPT ![s].lapsed = TRUE]
    /\ UNCHANGED <<offer, snapshot, recipient, challenge, record, chain, reminder, req>>

LapseChallenge(c) ==
    /\ "challenge" \in Deadlines
    /\ challenge[c].status # "NONE" /\ ~challenge[c].lapsed
    /\ challenge' = [challenge EXCEPT ![c].lapsed = TRUE]
    /\ UNCHANGED <<offer, snapshot, recipient, session, record, chain, reminder, req>>

\* A request ends between two of its writes: a compare-and-swap found no row
\* and the transaction rolled back, a database call failed, the process died.
Abort(p) ==
    /\ ~At(p, "idle")
    /\ Finish(p)
    /\ UNCHANGED store

Tick == \/ LapseOffer
        \/ \E s \in Session : LapseSession(s)
        \/ \E c \in Challenge : LapseChallenge(c)

Act(p) == SenderStep(p) \/ RecipientStep(p) \/ SweepStep(p) \/ Abort(p)

Init == StoreInit
Next == Tick \/ \E p \in Procs : Act(p)
Spec == Init /\ [][Next]_vars

-----------------------------------------------------------------------------
(* What the rows promise together.                                         *)

Indices(s)   == DOMAIN chain[s]
Is(s, i, type) == chain[s][i].type = type
Occurrences(s, type) == {i \in Indices(s) : Is(s, i, type)}
Decision(e)  == e.type \in {"OFFER_ACCEPTED", "OFFER_DECLINED"}

\* Over all sessions and all races, the offer is decided at most once: never
\* two acceptances, never an acceptance and a decline (accept's and decline's
\* compare-and-swap on Offer.status; "only one can reach ACCEPTED").
OneDecision ==
    \A s, t \in Session : \A i \in Indices(s), j \in Indices(t) :
        Decision(chain[s][i]) /\ Decision(chain[t][j]) => s = t /\ i = j

\* The evidence a certificate is verified against is there whatever raced:
\* the record's own session shows its own challenge verified before the
\* OFFER_ACCEPTED event (certificate verification checks 5 and 6).
EvidenceOrdered ==
    \A r \in record : \E i, j \in Indices(r.session) :
        /\ i < j
        /\ chain[r.session][i] = [type |-> "OTP_VERIFIED", challenge |-> r.challenge]
        /\ Is(r.session, j, "OFFER_ACCEPTED")

\* A session's inbox is proven at most once, although several requests with
\* right codes of several challenges may run at once ("exactly once").
ProvenOnce ==
    \A s \in Session : \A i, j \in Indices(s) :
        Is(s, i, "OTP_VERIFIED") /\ Is(s, j, "OTP_VERIFIED") => i = j

\* What the acceptance rests on: an inbox proven, once, before the record.
ProofStands == EvidenceOrdered /\ ProvenOnce

\* An AcceptanceRecord and an OFFER_ACCEPTED event exist together or not at
\* all, and an offer shown as decided has its decision on file.
RecordMatchesChain ==
    /\ \A s \in Session : (\E i \in Indices(s) : Is(s, i, "OFFER_ACCEPTED"))
                             <=> (\E r \in record : r.session = s)
    /\ offer.status = "ACCEPTED" => record # {}
    /\ offer.status = "DECLINED" =>
          \E s \in Session : \E i \in Indices(s) : Is(s, i, "OFFER_DECLINED")

\* The session that decided the offer keeps saying so: accept and decline
\* bump no version, and yet no verification still in flight on the session,
\* and no sweep, takes the status away.
DecidedSessionStands ==
    [][\A s \in Session : session[s].status \in {"ACCEPTED", "DECLINED"}
         => session'[s].status = session[s].status]_vars

\* The rows implement the agreement, whatever later overwrites Offer.status.
Promise == INSTANCE Agreement WITH
    phase  <- IF offer.status = "DRAFT" THEN "unsent"
              ELSE IF offer.status = "SENT" THEN "open" ELSE "closed",
    proven <- \E s \in Session : Occurrences(s, "OTP_VERIFIED") # {},
    answer <- IF \E s \in Session : Occurrences(s, "OFFER_ACCEPTED") # {} THEN "accepted"
              ELSE IF \E s \in Session : Occurrences(s, "OFFER_DECLINED") # {} THEN "declined"
              ELSE "none"

ImplementsAgreement == Promise!Spec
=============================================================================
