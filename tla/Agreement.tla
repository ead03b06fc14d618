------------------------------ MODULE Agreement ------------------------------
(***************************************************************************)
(* What the signing of an offer promises both parties, with no sessions,   *)
(* codes, requests or jobs: an offer is open for a while, an answer is     *)
(* given at most once, only while it is open and only by someone who has   *)
(* proven the recipient's inbox, and an offer once closed stays closed.    *)
(***************************************************************************)
VARIABLES
    phase,      \* "unsent", "open" or "closed"
    proven,     \* whether the recipient's inbox was proven
    answer      \* "none", "accepted" or "declined"

agreement == <<phase, proven, answer>>

AgreementOK ==
    /\ phase \in {"unsent", "open", "closed"}
    /\ proven \in BOOLEAN
    /\ answer \in {"none", "accepted", "declined"}

Init == phase = "unsent" /\ proven = FALSE /\ answer = "none"

Open == phase = "unsent" /\ phase' = "open" /\ UNCHANGED <<proven, answer>>

Prove == phase # "unsent" /\ ~proven /\ proven' = TRUE /\ UNCHANGED <<phase, answer>>

Answer(a) ==
    /\ phase = "open" /\ proven /\ answer = "none"
    /\ answer' = a
    /\ phase' = "closed"
    /\ UNCHANGED proven

\* Revoked by the sender, or out of time.
Close == phase = "open" /\ phase' = "closed" /\ UNCHANGED <<proven, answer>>

Next == Open \/ Prove \/ Close \/ \E a \in {"accepted", "declined"} : Answer(a)

Spec == Init /\ [][Next]_agreement
=============================================================================
