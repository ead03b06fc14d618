----------------------------- MODULE Operations -----------------------------
(***************************************************************************)
(* What runs beside the deals: the webhook queue (Webhooks, over           *)
(* JobTracking), the back office (BackOffice), and the verification of     *)
(* certificates that anyone may ask for (Evidence).  They write no row in  *)
(* common, so a behaviour is one of the webhooks, one of a support desk    *)
(* with its cases, one of the desk where settings and erasure requests are *)
(* handled, or one of a certificate: the states are the sum of the four,   *)
(* not their product.                                                      *)
(***************************************************************************)
EXTENDS Webhooks, BackOffice, Evidence

VARIABLE part       \* which of the four moves

operationsVars == <<vars, officeVars, evidenceVars, part>>

\* Of the states a certificate's rows may begin in, one is enough for the others.
EvidenceRests == EvidenceInit /\ record.recipientName = 0 /\ events = Signed(TRUE)

OperationsInit ==
    /\ part \in {"webhooks", "cases", "desk", "evidence"}
    /\ Init /\ OfficeInit
    /\ IF part = "evidence" THEN EvidenceInit ELSE EvidenceRests

OperationsNext ==
    /\ \/ part = "webhooks" /\ Next /\ UNCHANGED <<officeVars, evidenceVars>>
       \/ part = "cases" /\ Support /\ UNCHANGED <<vars, evidenceVars>>
       \/ part = "desk" /\ Desk /\ UNCHANGED <<vars, evidenceVars>>
       \/ part = "evidence" /\ EvidenceNext /\ UNCHANGED <<vars, officeVars>>
    /\ UNCHANGED part

OperationsSpec == OperationsInit /\ [][OperationsNext]_operationsVars

=============================================================================
