------------------------------ MODULE Pipeline ------------------------------
(***************************************************************************)
(* The mail a deal begins and ends with: the link that brings the          *)
(* recipient to it, and the certificate and confirmations that follow the  *)
(* acceptance, each checked while the other rests.  Delivery ends where    *)
(* the offer is decided, Completion begins there.                          *)
(***************************************************************************)
EXTENDS Completion, Delivery

VARIABLE part   \* which of the two a behaviour is about

pipelineVars == <<completionVars, vars, part>>

PipelineInit == part \in {"link", "certificate"} /\ CompletionInit /\ Init

Link(Action)      == part = "link" /\ Action /\ UNCHANGED <<completionVars, part>>
Certified(Action) == part = "certificate" /\ Action /\ UNCHANGED <<vars, part>>

PipelineNext == Link(Next) \/ Certified(CompletionNext)

PipelineSpec == PipelineInit /\ [][PipelineNext]_pipelineVars

\* A request in flight goes on or dies, nextReminderAt passes, the sweep comes
\* every five minutes, and its e-mail goes out sometime.
LinkFairness ==
    /\ WF_pipelineVars(Link(Tick))
    /\ \A p \in Procs :
          /\ WF_pipelineVars(Link(Running(p)))
          /\ SF_pipelineVars(Link(Sweep(p)))
          /\ SF_pipelineVars(Link(Reaches(p)))

\* The request and the workers go on until they fail, and the cron keeps coming.
CertificateFairness ==
    /\ WF_pipelineVars(Certified(AcceptGoesOn))
    /\ WF_pipelineVars(Certified(Reconcile))
    /\ WF_pipelineVars(Certified(Age))
    /\ \A j \in Job : WF_pipelineVars(Certified(JobStep(j)))

FairSpec == PipelineSpec /\ LinkFairness /\ CertificateFairness

-----------------------------------------------------------------------------
\* What follows an acceptance gets done, whatever dies after its commit: the
\* certificate is issued, and the confirmation, once enqueued, reaches both.
CertificateFollows == part = "certificate" => CertifiedInTheEnd /\ ConfirmedInTheEnd
=============================================================================
