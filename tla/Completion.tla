----------------------------- MODULE Completion -----------------------------
(***************************************************************************)
(* What follows the commit of an acceptance: the accept request issues the *)
(* certificate itself and then enqueues the confirmation e-mails and the   *)
(* webhooks (SigningDecisionOrchestrator.accept); a reconcile sweep and    *)
(* issue-certificate jobs make up for a request that did not get so far    *)
(* (ReconcileCertificatesHandler, IssueCertificateHandler), and PDF and    *)
(* e-mail jobs follow.  One acceptance record; requests and workers throw, *)
(* or die, between any two steps.                                          *)
(***************************************************************************)
EXTENDS Integers, FiniteSets

CONSTANTS
    NumJobs,      \* bound: jobs pending at once (an ended job leaves its slot)
    RetryLimit,   \* retryLimit of the queues: retries after the first attempt
    MaxCrashes    \* bound: errors and crashes in a behaviour

ASSUME CompletionAssumption ==
    NumJobs \in Nat \ {0} /\ RetryLimit \in Nat /\ MaxCrashes \in Nat

Job        == 1..NumJobs
AcceptTask == 0                 \* the accept request, past its commit
Task       == Job \cup {AcceptTask}

\* Ids: the acceptance record's, and the certificate id each task generates.
RecordId    == 0
FreshId(t)  == t + 1
Certificate == {FreshId(t) : t \in Task}

VARIABLES
    certificate,  \* AcceptanceCertificate rows of the record, as a set of ids
    pdf,          \* TRUE once pdfStorageKey is set
    aged,         \* TRUE once acceptedAt is more than 30 minutes ago
    found,        \* TRUE while a sweep that found the record has not yet sent its job
    task,         \* the request and the pg-boss jobs: name, step, retries, payload id,
                  \* and the certificate it got
    sent,         \* every job and webhook ever enqueued: what it is, and the id it carries
    told,         \* who has had a confirmation e-mail
    crashes

completionVars == <<certificate, pdf, aged, found, task, sent, told, crashes>>

-----------------------------------------------------------------------------
(* Plausible bugs, each a form of a definition below (README.md, Mutants). *)

OwnId(t)             == FreshId(t)            \* Winner: the id that lost the race
RetriesLessOne(t)    == task[t].tries + 1 < RetryLimit      \* Retries: off by one

-----------------------------------------------------------------------------
None == [name |-> "none", at |-> "none", tries |-> 0, id |-> RecordId, got |-> RecordId]

QueuedJob(name, id, tries) ==
    [name |-> name, at |-> "queued", tries |-> tries, id |-> id, got |-> RecordId]

OnStep(t, step)  == task[t].at = step
Underway(t)      == task[t].at \notin {"none", "queued", "thrown"}
MovedTo(t, step) == [task EXCEPT ![t].at = step]
Ended(t)         == [task EXCEPT ![t] = None]

\* jobService.send, into a free slot, from a task list already moved on.
Enqueue(tasks, name, id) ==
    /\ \E j \in Job : task[j].at = "none" /\ task' = [tasks EXCEPT ![j] = QueuedJob(name, id, 0)]
    /\ sent' = sent \cup {[what |-> name, id |-> id]}

\* What pg-boss does when a handler throws or its worker dies: a retry from
\* the first step, or, after the last one, the archive.
Retries(t) == task[t].tries < RetryLimit

Thrown(j) ==
    IF Retries(j) THEN [task EXCEPT ![j] = QueuedJob(@.name, @.id, @.tries + 1)]
    ELSE Ended(j)

\* A worker takes a job.
FirstStep == [issue |-> "find", print |-> "render", notify |-> "sender"]

Work(j) ==
    /\ OnStep(j, "queued")
    /\ task' = MovedTo(j, FirstStep[task[j].name])
    /\ UNCHANGED <<certificate, pdf, aged, found, sent, told, crashes>>

-----------------------------------------------------------------------------
(* generateForAcceptance, as the request and the issue jobs call it.       *)

\* What the caller does once it has a certificate id.
Got(t, id) ==
    [task EXCEPT ![t].at = IF t = AcceptTask THEN "confirm" ELSE "print", ![t].got = id]

\* The idempotency check.
FindCertificate(t) ==
    /\ OnStep(t, "find")
    /\ task' = IF certificate = {} THEN MovedTo(t, "create")
               ELSE Got(t, CHOOSE c \in certificate : TRUE)
    /\ UNCHANGED <<certificate, pdf, aged, found, sent, told, crashes>>

\* acceptanceRecordId is UNIQUE: a second insert gets P2002, and its caller
\* the id that won.
Unissued  == certificate = {}
Winner(t) == IF certificate = {} THEN FreshId(t) ELSE CHOOSE c \in certificate : TRUE

CreateCertificate(t) ==
    /\ OnStep(t, "create")
    /\ certificate' = IF Unissued THEN certificate \cup {FreshId(t)} ELSE certificate
    /\ task' = Got(t, Winner(t))
    /\ UNCHANGED <<pdf, aged, found, sent, told, crashes>>

-----------------------------------------------------------------------------
(* The rest of the accept request.                                         *)

EnqueueConfirmation ==
    /\ OnStep(AcceptTask, "confirm")
    /\ Enqueue(MovedTo(AcceptTask, "deal_accepted"), "notify", task[AcceptTask].got)
    /\ UNCHANGED <<certificate, pdf, aged, found, told, crashes>>

DispatchWebhook(event, next) ==
    /\ OnStep(AcceptTask, event)
    /\ sent' = sent \cup {[what |-> event, id |-> task[AcceptTask].got]}
    /\ task' = MovedTo(AcceptTask, next)
    /\ UNCHANGED <<certificate, pdf, aged, found, told, crashes>>

AnnounceAcceptance  == DispatchWebhook("deal_accepted", "certificate_issued")
AnnounceCertificate == DispatchWebhook("certificate_issued", "none")

-----------------------------------------------------------------------------
(* Sweep and jobs.                                                         *)

\* findMissingCertificates.
Missing == certificate = {} /\ aged

FindMissing ==
    /\ ~found /\ Missing
    /\ found' = TRUE
    /\ UNCHANGED <<certificate, pdf, aged, task, sent, told, crashes>>

\* No singletonKey: a sweep may find a job of an earlier one still pending.
Requeue ==
    /\ found
    /\ Enqueue(task, "issue", RecordId)
    /\ found' = FALSE
    /\ UNCHANGED <<certificate, pdf, aged, told, crashes>>

\* The issue job enqueues the PDF; its singletonKey may merge the job with one
\* that is pending.
EnqueuePdf(j) ==
    /\ OnStep(j, "print")
    /\ \/ Enqueue(Ended(j), "print", task[j].got)
       \/ /\ \E k \in Job : task[k].name = "print" /\ task[k].id = task[j].got
          /\ task' = Ended(j)
          /\ UNCHANGED sent
    /\ UNCHANGED <<certificate, pdf, aged, found, told, crashes>>

\* CertificatePayloadBuilder.build finds the record by the id it is given.
Builds(id) == id = RecordId

\* getExportForJob hands the certificate's id to the builder, before it looks
\* at pdfStorageKey.
RenderPdf(j) ==
    /\ OnStep(j, "render")
    /\ IF Builds(task[j].id) THEN pdf' = TRUE /\ task' = Ended(j)
       ELSE task' = Thrown(j) /\ UNCHANGED pdf
    /\ UNCHANGED <<certificate, aged, found, sent, told, crashes>>

\* notify-deal-accepted: the sender's e-mail, then the recipient's.
Mail(j, who, next) ==
    /\ OnStep(j, who)
    /\ told' = told \cup {who}
    /\ task' = next
    /\ UNCHANGED <<certificate, pdf, aged, found, sent, crashes>>

MailSender(j)    == Mail(j, "sender", MovedTo(j, "recipient"))
MailRecipient(j) == Mail(j, "recipient", Ended(j))

-----------------------------------------------------------------------------
(* Time and crashes.                                                       *)

Age ==
    /\ ~aged
    /\ aged' = TRUE
    /\ UNCHANGED <<certificate, pdf, found, task, sent, told, crashes>>

\* The request dies anywhere; it throws if no certificate is issued; after that
\* errors are caught, and it goes on without the confirmation or the webhook
\* (an error in finding the endpoints ends it: the same as to die).
RequestFails ==
    /\ \/ Underway(AcceptTask) /\ task' = MovedTo(AcceptTask, "none")
       \/ task[AcceptTask].at \in {"find", "create"} /\ task' = MovedTo(AcceptTask, "thrown")
       \/ OnStep(AcceptTask, "confirm") /\ task' = MovedTo(AcceptTask, "deal_accepted")
       \/ OnStep(AcceptTask, "deal_accepted") /\ task' = MovedTo(AcceptTask, "certificate_issued")
    /\ UNCHANGED found

JobFails   == \E j \in Job : Underway(j) /\ task' = Thrown(j) /\ UNCHANGED found
SweepFails == found /\ found' = FALSE /\ UNCHANGED task

Crash ==
    /\ crashes < MaxCrashes
    /\ crashes' = crashes + 1
    /\ RequestFails \/ JobFails \/ SweepFails
    /\ UNCHANGED <<certificate, pdf, aged, sent, told>>

-----------------------------------------------------------------------------
AcceptRequest ==
    [name |-> "accept", at |-> "find", tries |-> 0, id |-> RecordId, got |-> RecordId]

CompletionInit ==
    /\ certificate = {} /\ pdf = FALSE /\ aged = FALSE /\ found = FALSE
    /\ task = [t \in Task |-> IF t = AcceptTask THEN AcceptRequest ELSE None]
    /\ sent = {} /\ told = {} /\ crashes = 0

Issue(t)     == FindCertificate(t) \/ CreateCertificate(t)
AcceptGoesOn == Issue(AcceptTask) \/ EnqueueConfirmation \/ AnnounceAcceptance \/ AnnounceCertificate
JobStep(j)   == Work(j) \/ Issue(j) \/ EnqueuePdf(j) \/ RenderPdf(j) \/ MailSender(j) \/ MailRecipient(j)
Reconcile    == FindMissing \/ Requeue

CompletionNext == AcceptGoesOn \/ Reconcile \/ Age \/ Crash \/ \E j \in Job : JobStep(j)

CompletionSpec == CompletionInit /\ [][CompletionNext]_completionVars

-----------------------------------------------------------------------------
TaskStep ==
    {"none", "queued", "thrown", "find", "create", "confirm", "deal_accepted",
     "certificate_issued", "print", "render", "sender", "recipient"}
TaskRow ==
    [name : {"none", "accept", "issue", "print", "notify"}, at : TaskStep,
     tries : 0..RetryLimit, id : Certificate \cup {RecordId}, got : Certificate \cup {RecordId}]
Message ==
    [what : {"issue", "print", "notify", "deal_accepted", "certificate_issued"},
     id : Certificate \cup {RecordId}]

CompletionTypeOK ==
    /\ certificate \subseteq Certificate
    /\ pdf \in BOOLEAN /\ aged \in BOOLEAN /\ found \in BOOLEAN
    /\ task \in [Task -> TaskRow]
    /\ sent \subseteq Message
    /\ told \subseteq {"sender", "recipient"}
    /\ crashes \in 0..MaxCrashes

\* Request, sweep and retried jobs issue at once, and the record still has one
\* certificate, which every e-mail, webhook and PDF job names.
OneCertificateNamed ==
    /\ Cardinality(certificate) <= 1
    /\ \A s \in sent : s.what # "issue" => s.id \in certificate

\* Whatever dies after the acceptance committed, the certificate is issued: by
\* the request, or by the sweep and its jobs.
CertifiedInTheEnd == <>(certificate # {})

\* Once enqueued, the confirmation reaches both parties, unless its job fails
\* more often than it is retried.
ConfirmedInTheEnd ==
    (\E s \in sent : s.what = "notify")
        ~> (told = {"sender", "recipient"} \/ crashes > RetryLimit)

=============================================================================
