# Verification of OfferAccept

TLA+ models of the OfferAccept API (`src/apps/api`) and of the web pages that
drive it (`src/apps/web`), the TLC configurations that check them, and TLAPS
proofs. Every definition is translated from the source; the `map` of PROJECT.json
names the lines.

An organization drafts an offer, sends it to one recipient as a link, the
recipient proves the inbox with a one-time code and accepts or declines, and an
acceptance is turned into a certificate. All of it is PostgreSQL rows, written by
API processes that handle requests concurrently (READ COMMITTED transactions,
awaits between reads and writes) and by pg-boss workers that run cron sweeps and
retried jobs. There are few locks: correctness rests on conditional updates
(`updateMany ... WHERE status = 'SENT'`, optimistic `version` columns), on unique
columns and on retries. That is what is modelled here.

1. [Inventory](#1-inventory)
2. [Modules](#2-modules)
3. [What is checked](#3-what-is-checked)
4. [What the models show of the code](#4-what-the-models-show-of-the-code)
5. [What is proved](#5-what-is-proved)
6. [Only model-checked](#6-only-model-checked)
7. [Not modelled](#7-not-modelled)

## 1. Inventory

| component | state | operations | what is hard | what makes it correct |
|---|---|---|---|---|
| Signing (`signing/`) | `SigningSession`, `SigningOtpChallenge`, `SigningEvent`, `AcceptanceRecord`, `OfferRecipient` | requestOtp, recordDocumentView, verifyOtp, accept, decline | tabs and devices race each other, the sender and the sweeps; reads long before writes | one decision per offer, on a code verified before it; record and event chain agree; a decision keeps its session |
| Offers (`offers/`) | `Offer`, `OfferSnapshot`, documents, recipient token | draft edits, send, resend, revoke, computed status | edits check DRAFT and write later; revoke and resend write on a stale check | what is sent is what was reviewed, and stays what the snapshot says |
| Link delivery, reminders | `ReminderSchedule`, `OfferDeliveryAttempt` | send, resend, send-reminders | a reminder is mailed before its token is stored | the stored link was mailed, or is known not to be |
| Expiry jobs | – | expire-offers, expire-sessions | select first, update by id later; workers die between | everything lapsed is closed in the end |
| Certificates, completion (`certificates/`, four handlers) | `AcceptanceCertificate`, pg-boss jobs | generateForAcceptance, reconcile, confirmations, PDF | crash after the commit; request, sweep and retries issue at once | one certificate, issued in the end, named by all that is sent |
| Evidence (`certificates/`, verify page) | the hashed rows | verify, export, the page's verdict | rows of five tables, one mutable; late answers | valid as long as, and only if, nothing vouched for has changed |
| Deal events, archive (`deal-events/`) | `DealEvent` hash chain, archive | emit (not awaited), verifyChain, archive | events land in any order; two sweeps | nothing lost or doubled by a race; computed status agrees |
| Job queue (`jobs/`) | `Job` rows beside pg-boss's | claim, complete, fail, restart, requeue | the two disagree after a crash; a batch fails as a whole | a final status is true |
| Webhooks (`enterprise/`) | endpoints, `WebhookDeliveryAttempt` | dispatch, deliver, edit | delivered but not recorded | delivered again only for a fault |
| Billing (`billing/`) | `Subscription`, monthly counter, Redis lock | check, count, checkout, Stripe events, reset | check-then-count; events in any order, failing halfway | the plan follows Stripe, usage within the plan, one customer |
| Authentication (`auth/`, web `lib/auth`) | refresh `Session` families, links, lockout in Redis | signup, login, refresh, logout, switch organization, passwords | two tabs present one token; a password changes under a refresh | one live token per family; a replay or a new password ends what it should |
| Organizations | memberships, invitations | invite, accept, transfer, remove | two calls read, then both write | one owner; an invitation lets in one, while it is open |
| Rate limiting | sliding windows in Redis | consume | dates out of order, no answer | no more than the limit per window |
| Files | `File` rows, S3 | presign, complete | two completions; a PUT past the server | READY is what was uploaded |
| Back office (`support/`, `admin/`, `account/`) | audit rows, settings, erasure requests | case view, audited acts, settings | audit first, act later; a case is read table by table | no act without its row; the rows shown agree |
| Retention purge | old codes and sessions | nightly batches | foreign keys restrict deletion | sessions past the period go |
| Web pages | React state | signing page, new-deal wizard, verify page | answers late, lost, out of order | what is shown is so; the recipient can decide |
| State machines | – | canTransition | – | the tables every guard uses |

How they interact: requests and jobs share rows, never memory. A recipient's
request runs token check → read → transaction. An accept request, after its
commit, calls the certificate service and enqueues jobs; sweeps find rows a
request or a job left behind. The pages call the API and cannot tell a lost answer
from a lost request. E-mail provider, S3, Redis, Stripe and the customers' webhook
receivers are outside.

## 2. Modules

```
DealStore ── SenderFlow ────┐
   │ ├────── RecipientFlow ─┼─ SigningSystem ── SigningClaims ── MCSigning
   │ └────── Sweeps ────────┘   │  │  │
   │                Agreement ◄─┘  │  └─ SigningLiveness
   │     (Promise == INSTANCE)     └─ Signing_proofs

Drafting ── DealWizard ─┐       Organization ─┐
DealLog ────────────────┼ Deals Credentials ──┼ Accounts   Completion ─┐
Uploads ────────────────┘       RateLimit ────┘            Delivery ───┴ Pipeline

                                              JobTracking ── Webhooks ─┐
                                                           BackOffice ─┼ Operations
SigningPage   Sessions   Billing   Retention               Evidence ───┘

Deals_proofs (over DealWizard, DealLog, Uploads)    Pipeline_proofs (Completion, Delivery)
Accounts_proofs (Sessions, Organization,            Operations_proofs (BackOffice,
                 Credentials, RateLimit)                               Evidence)
SigningPage_proofs    Billing_proofs                Webhooks_proofs
```

**Deals**, **Accounts**, **Pipeline** and **Operations** put components that write
no common row into one specification: a variable `part` says which of them a
behaviour is about, so the states are the sum of the parts and not their product.
They add no behaviour of their own; each component keeps its own Init and Next.

In every module an action is the stretch of code between two awaits that matter:

* a read or check before a write is an action that keeps, in the request's row, what
  the code keeps in local variables;
* a database transaction is one action; its conditional updates are guards, and one
  that finds no row rolls back;
* a write by id has no guard, whatever became of the row since it was read;
* two statements outside a transaction are two actions, with a failure or the death
  of the process between them;
* what is not this code (pg-boss, Stripe, S3, Redis, the people) is an action that may
  happen whenever its contract allows, marked external in the map.

### Signing

**DealStore** – the rows of ONE offer: `offer`, `snapshot`, `recipient`, `session`,
`challenge`, `record`, `chain` (the `SigningEvent` rows of each session by
sequenceNumber), `reminder`; the transition tables; and `req`, what each request or
job in flight has read and does next. A row keeps the columns some guard reads. A
deadline column is a flag *lapsed* that the clock sets at any time; TTLs are
independent of each other, which allows every order the real clock allows, and
more. A token is the newest link: `draft`, `live` or `dead`.

**SenderFlow**, **RecipientFlow**, **Sweeps** – the actions of the three kinds of
request. Two things that look like one step are two: the first statement of `issue`
(which invalidates older codes) and its insert, because READ COMMITTED lets another
issue commit in between; and a sweep, which is no transaction. One thing is one
step: `SigningEventService.append` takes an advisory lock per session (`LogEvent`).

**SigningSystem** composes them with the clock (`Tick`) and `Abort`: any request
ends between any two of its steps (error, rollback, process death). **Agreement**
is the abstract promise: open → closed, an answer at most once, only while open and
only after the inbox was proven; `ImplementsAgreement` is the refinement.
**SigningClaims** states what comments claim, **SigningLiveness** what the sweeps
get done, **MCSigning** adds the symmetry set and the state constraint.

**SigningPage** – `SigningClient`'s reducer and handlers in every open tab. A call of
the API is one step (its inside is RecipientFlow's); its answer may be lost after
the server did its work. Codes are locked, expire, or are superseded; the link ends.

### Deals

**Drafting** – the draft endpoints and `send`'s transaction. Each edit checks DRAFT
(`requireDraft`) and writes by id; `overlapped` is a history variable naming the
offers where an edit was under way during the send. **DealWizard** – the four steps
of `dashboard/deals/new` and `FileUploadFlow`, with calls whose answers come late, out
of order or never, retyped fields, abandoned drafts, and another tab that edits the
same draft. **DealLog** – `DealEventService.emit` (called by everyone, awaited by no
one), the chain, `verifyChain`, the archive sweep, and `DealStatusService`. Clocks
of different processes disagree by at most the order of two rows. **Uploads** – the
presigned upload of one file.

### Delivery and completion

**Delivery** – the link of one offer: `send`, `resend` and `send-reminders`, the
attempt rows and the schedule. Tokens are numbers in the order they were generated;
`mailed` are those that reached the inbox. **Completion** – what follows the commit
of an acceptance: the rest of the accept request, the reconcile sweep, and the jobs
*issue-certificate*, *generate-certificate-pdf*, *notify-deal-accepted*. `task[0]`
is the request, `task[1..NumJobs]` are slots for pending jobs. `Crash` throws or kills
any of them; a job is retried from its first step or, after RetryLimit retries,
archived; the request is not retried. A unique `acceptanceRecordId` decides who
issues (`Unissued`); the loser goes on with the winner's id (`Winner`).

### Accounts

**Sessions** – the refresh tokens of one user: login, refresh with rotation and
replay detection, logout, switching the organization, changing and resetting the
password, in tabs that share a browser's cookies. switchOrg reads the membership,
revokes the access token's session and creates another, three statements; a logout
whose answer is lost erases the indicator all the same. Two history variables say
what the properties except: `late`, the sessions opened by a request that had looked
before a revocation or a new password, and `unwiped`, whether the server died between
storing a password and revoking. **Credentials** – signup, login
with its lockout, and the links that verify an e-mail address or reset a password.
`stranded` is set when a signup dies just before it stores the terms.
**Organization** – members and invitations with their guard; whoever is signed in and
holds an invitation's link may accept it. `stale` is set by a write on a role that is
not what the call read, `overtaken` has the invitations that were settled while an
acceptance that had found them open was about to write; two calls that merely overlap
set neither. **RateLimit** – one key
of the sliding window.

### Operations

**JobTracking** – the `jobs` table beside pg-boss's own rows: batches, restart,
requeue. **Webhooks** – the handler that runs on it, and the endpoint's edits.
**BackOffice** – support agents who open a case or act after their audit row,
administrators who change a setting, a user who asks to be erased. **Evidence** –
what `computeCertificateHash`, the canonical hash, the snapshot hash, the statement
hash and the event chain cover, the checks of `verify`, the export, and the verify
page with its timeout. A hash is the record of what went into it (`Sha256` is
injective); one environment action per field or row alters or loses it past the
application, at most once per behaviour.

**Billing** – the subscription of one organization between sends, checkouts,
Stripe's events and the reset. **Retention** – the nightly purge.

## 3. What is checked

| run | question | bounds |
|---|---|---|
| signing_races | Is the offer decided once (`OneDecision`), on an inbox proven once and before (`ProofStands`); do record and chain agree (`RecordMatchesChain`); does the deciding session keep its status (`DecidedSessionStands`); do the rows implement Agreement (`ImplementsAgreement`)? | 2 requests at a time, 2 sessions, 2 codes; deadlines pass while there is one session |
| signing_one_at_a_time | Do comments hold while no requests overlap: nothing final is taken back (`NothingRegresses`), one active code and every wrong one counted (`ChallengesInOrder`)? | 1 process, 2 sessions, 2 codes, two wrong codes lock |
| signing_expiry | Is everything lapsed – offer, session, code – closed in the end (`LapsedIsClosed`)? | 2 processes, 1 session, 1 code |
| signing_page | Is what a tab shows so (`ShownIsTrue`); does a recipient who goes on decide (`DecidedInTheEnd`)? | 2 tabs, 3 disturbances |
| pipeline | Was the stored link mailed, or can the sender see it was not (`SomeLinkWorks`); does the sweep make good a failed mail and a schedule left behind (`SweepMakesGood`); is there one certificate, named by all (`OneCertificateNamed`), issued and confirmed in the end (`CertificateFollows`)? | 2 requests, 5 tokens, 1 fault; 2 jobs, 1 retry, 3 crashes |
| deals | Is what was reviewed what is sent (`ReviewedIsSent`) and does it stay so (`DriftNeedsOverlap`); are events neither lost nor doubled (`EventsKept`), the computed status the offer's (`StatusAgrees`), the chain intact until archived (`VerifiesUntilArchived`); is READY what was uploaded (`ReadyIsAsUploaded`)? | 2 calls, 2 drafts, 1 kind of disturbance; 5 events, 2 sweeps of 1 row; 2 completions, 2 uploads |
| sessions | Has a family one live token (`OneLivePerFamily`), ended by a replay (`ReplayEndsFamily`) or a new password (`PasswordChangeSignsOut`), but for the sessions of requests that had looked before? | 2 tabs, 2 browsers, 3 sessions, 2 passwords, 1 loss |
| accounts | Is there one owner until a call writes on a role that changed (`OneOwner`); does an invitation let in no more than were let through while it was open (`AcceptedWhileOpen`)? Are guesses limited (`GuessesLimited`), links usable (`LinksWork`), nobody in without terms (`LetInWithTerms`), windows respected (`WindowRespected`)? | 2 users, 2 calls, 2 invitations; 2 visitors, 2 links, 1 minute; 4 requests |
| background | Is a final job status true (`FinalStatusIsTrue`), a delivery repeated only for a fault (`DuplicatesArePaidFor`)? Is every act of support audited (`ActsAreAudited`), do a case's rows agree (`CaseAgrees`), do checks before writes hold unless they overlap (`ChecksHold`)? Is the verdict on a certificate true (`VerdictIsTrue`), and on the page (`ValidIsIntact`)? | 2 workers, 2 jobs, 2 events, batch of 2, 1 retry, 1 fault, 1 requeue; 2 agents, 2 cases, 1 act; 2 calls, 2 changes; 1 alteration, 2 tries |
| billing | Does the plan follow Stripe (`PlanFollowsStripe`), is the limit passed only by overlap (`OverLimitNeedsOverlap`), is there one customer (`OneCustomer`), does the quota refresh (`QuotaRefreshes`)? | 2 requests, 2 events, 2 months, 4 sends, 1 fault |
| retention (violation) | `SessionsArePurged`: sessions past the period are deleted | 2 sessions, batches of 1 |
| accepted_ends (violation) | `AcceptedIsTerminal`: an offer with an acceptance record reads ACCEPTED | 2 processes, 1 session, 1 code |

**Bounds.** Nearly every hazard here is a pair: one request reads, another writes, the
first writes. Two processes show each pair, and aborted or completed requests free their
process for a third and a fourth, so sequences are unbounded. Two codes in one session
show supersession and a wrong code racing a right one; two sessions show decisions from
two devices. Limits are small but reached: `MaxAttempts` 1 or 2 for 5,
`LockoutThreshold` 2 or 3 for 10, `RetryLimit` 1, batches of 2 jobs, plan limits 1 and
2. Two jobs are two events, or one and its requeue. Two users leave out two transfers of
one owner, which the theorem of Organization covers. Tabs and browsers of Sessions
are interchangeable, which its symmetry set uses. In signing_races the constraint
`LapseOrRace` lets deadlines pass while there is one session: both at once is out of
reach, and deadlines and second sessions meet only in the rows of the offer, which one
session already contends for. Three crashes in Completion archive a job and leave one
over, so that a second sweep is needed; five tokens in Delivery are a send, a resend and
three reminders. Faults bounded by 1 excuse exactly what the properties excuse
(`disturbances`, `deaths`). The proofs do without the bounds.

**Deadlock** is not checked except in retention: a decided deal with nothing in
flight, an organization with its invitations used, a bounded counter at its bound
are where these systems stop.

**Fairness.** Requests in flight go on or end (WF): the process runs or dies. Cron
jobs come back and are retried, so a statement of a sweep that is possible again
and again is executed (SF): weak fairness would be lost whenever the worker is busy
with another job. Customers, senders and recipients owe nothing, with two
exceptions: in `pipeline` a mail repeated by the sweep reaches the inbox sometime
(SF on `Reaches`), and in `signing_page` the recipient is one who goes on in the tab
she looks at (SF on asking for a code and entering the mailed one), because
`DecidedInTheEnd` asks whether the page ever leaves such a person stuck. `QuotaRefreshes`
rests on the reset cron alone. Faults are bounded, which is what "in the end" means.

**Mutants.** Each component has a section of plausible bugs, each a form of one
definition (a dropped guard, a missing filter, an off-by-one, a swapped order). No
action uses them; with one in place of the definition it corrupts, TLC must find the
property listed for it in PROJECT.json violated. So each property notices a bug.

## 4. What the models show of the code

Where a property carries an exception, the exception is a behaviour of the code;
dropping it gives the counterexample. These are the ones worth knowing.

**Findings** (PROJECT.json, `findings`, each a violation run):

* *Sessions are never purged.* `signing_events` refers to every session ON DELETE
  RESTRICT and may not be deleted from, so the first batch fails every night. Codes
  older than a year are deleted before that.
* *An accepted offer can read REVOKED or EXPIRED.* `revoke` (send-offer.service.ts:493)
  writes by id over an ACCEPTED that committed after its check, and expire-offers
  (line 69) likewise: the certificate exists, the offer reads otherwise. No second
  decision follows.

The second is what `NothingRegresses` leaves out: signing_one_at_a_time shows that
without overlap nothing regresses, accepted_ends that with overlap an acceptance does.

**Signing, with overlapping requests** (SigningClaims holds without them):

* `resend` (line 377) stores a live token after its check and revives the link of an
  offer closed meanwhile, although revoke's comment (line 486) says the link no longer
  works; the offer's own status still refuses it.
* Overlapping wrong codes are counted once (signing-otp.service.ts:205); overlapping
  issues do not see each other's insert and leave two active codes (line 83), of which
  schema.prisma:530 allows one; LOCKED may be written over VERIFIED.
* A session the sweep has expired comes back: the sweep bumps no version, so the version
  check of a verification in flight does not notice it. A later sweep closes it again.
* VIEWED is written by id and takes back a recipient who has verified
  (signing-otp.orchestrator.ts:36). Events may follow OFFER_ACCEPTED in its session,
  although acceptance.service.ts:198 says otherwise.
* A new session asks a proven inbox to be proven again. An old one in OTP_VERIFIED is
  reused, and no code issued to it can be verified: a recipient who reloads the page
  after proving waits until that session expires.

**Signing page.** A lost answer to accept returns to the offer silently, and a reload
says "Link not found"; a network error at load shows an invalid link; when only the
mail of a code failed, the old code has been invalidated all the same.

**Links.** A reminder is mailed before its token is stored: if the storing fails the
mailed link does not work, and the previous one still does. An e-mail that failed
leaves a stored link nobody has, marked as not delivered; the next reminder mends it.

**Completion.** A failed certificate leaves the acceptance unconfirmed
(signing-decision.orchestrator.ts:47): neither the sweep nor its jobs enqueue the
confirmation. `getExportForJob` (certificate.service.ts:625) passes the certificate's
id where the builder looks up an acceptance record, so the PDF job never succeeds.

**Certificates.** `verify` notices every altered or lost row that a hash covers. Not
covered: an event's address and user agent, the statement's version, the record's copy
of the snapshot hash, and events after OFFER_ACCEPTED, which can be lost unnoticed.
Verification reads the mutable `Offer` for its metadata and, for old records, the
recipient's name, although a comment says it reads immutable tables only.
`acceptance_certificates` has no append-only trigger. getCertificate's comment says
"returns stored hash" (certificates.controller.ts:146); the export recomputes it. The
verify page reads `integrityChecksPass`, which the controller's answer does not contain
(certificates.controller.ts:207): an unaltered legacy certificate is shown as failed and
not amber (docs/security/legacy-certificate-policy.md:40), and even a valid one shows
its fourth check as FAIL (page.tsx:178).

**Wizard.** Enter is not guarded while a call is in flight and the inputs stay
enabled; a template's message is saved only by step 1's Continue; an upload
abandoned by leaving the page leaves the wizard believing it uploads; a client
timeout leaves the server's write pending. `offers-api.ts:203` calls
`/offers/:id/documents/upload-url`, which no controller has; `offer-editor.tsx` is
used by no page.

**Deal events.** `emit` is not awaited: events land in any order or are lost with the
process. A crossing revocation and expiry may show the other end. Archiving the head
of the chain breaks `verifyChain`, and archiving all of it restarts the sequence;
`verifyChain` has no caller but tests. The archive's checkpoint is written outside
the transaction its header claims.

**Files.** A bucket without checksums, or an object that is not there, makes the
client's hash the truth: READY with nothing uploaded. A PUT within the five minutes
of the URL replaces the content after completion. A completion that finds a mismatch
deletes a PENDING row another is about to confirm. The "background job" of
file.service.ts:134 does not exist.

**Jobs and webhooks.** One handler that throws fails every job of its batch. A slow
worker can dead-letter a row that a second run then completes. RUNNING rows of a dead
worker are recovered only at startup and only if five minutes old; a crash in the
last attempt is never dead-lettered. A requeue loses its race with the worker on the
UNIQUE pgBossId, and the row stays dead while the job runs.

**Billing.** An event is marked in Redis before it is applied (billing.service.ts:229)
and stays marked when its handler throws, so that Stripe's retry is answered as a
duplicate; events out of order leave a stale plan. The customer lock is released by key,
whoever holds it. A canceled organization's counter is never reset. The limits in the
handler's comments (3/25/100) are not those of the settings (5/50/200).

**Accounts.** Two tabs' 401s present one token twice: a fork of the family or its end;
and a refresh that found its token live before a replay ended the family rotates after
it (session.service.ts:97). Logout with an expired access token revokes nothing.
Switching organizations opens a new family from an access token whose session may be
revoked, and the next refresh goes back to the primary membership. A login between
storing a new password and `revokeAll` is ended too. changePassword's comment says "keep
the user logged in"; `revokeAll` ends that session as well. A removed member's login
creates a session and then throws. A role and the number of owners are read before a
removal is written: a transfer in between makes the member removed the only owner. An
invitation and an e-mailed link are consumed by id after a check outside the transaction
(org.repository.ts:201, auth.repository.ts:217): one may let in two, the other be used
twice. A shorter lock may be written over a longer one, and a lock over a cleared count,
although login-lockout.service.ts:17 says each failure extends it. Two requests for a
link leave two valid ones. A signup that dies leaves an account without its terms. The
limiter admits too many where requests reach the script out of the order of their dates,
and, on profiles of low risk, while Redis is silent.

**Back office.** The case of a draft shows another offer's acceptance record, for
`findFirst` with `snapshotId: undefined` has no filter (support.service.ts:236). Two
requests to be erased may both find none pending (account.service.ts:123). A revocation
by support can hit an accepted offer (it is `revoke`), although support.controller.ts:96
says domain rules prevent it. Audit rows of reads are not awaited and may be lost. Two
administrators at once log an old value that was never current before their change. The
timeline labels every resend "support" (support.service.ts:372).

## 5. What is proved

For every value of the constants, from the named assumptions alone (naturals,
finite sets of processes, distinct model values). Of SHA-256 the proofs take only that
it has no collisions, of the database's NULL that it is none of the values beside it
(`NullAssumption`):

| theorem | states | the strengthening |
|---|---|---|
| Signing_proofs!TypeCorrect | `TypeOK`, and that what a request holds refers to rows that exist and belong together | `Refers`: a wrong code writes tries + 1, in range only because `StartVerify` read a challenge below its limit |
| Signing_proofs!DecidedOnce, EvidenceComplete | `OneDecision`, `RecordMatchesChain` | `DecisionInv`: while the offer is DRAFT or SENT there is no record and no decision on any chain. Nearly every step is *quiet* (`QuietKeeps`); only the two commits are not, and both start from SENT |
| Signing_proofs!InboxProven, DecisionKept | `ProofStands`, `DecidedSessionStands` (an action property) | a session's version, once read and still current, means nobody verified since; a session that decided is past every status a write looks for |
| Signing_proofs!RefinesAgreement | `ImplementsAgreement` | each action is mapped to a step of Agreement or to a stutter, under the invariants above |
| Signing_proofs!NeverRegressesAlone, CodesOrderedAlone | `NothingRegresses`, `ChallengesInOrder`, of the behaviours in which no two requests are in flight at once (`[]OneAtATime`): with overlap they fail, section 4 | `AloneInv`: what the one request has read is still so when it writes; one session is open, none once the deal is decided; failures logged are the attempts counted |
| Deals_proofs!DriftAlwaysNeedsOverlap | `DriftNeedsOverlap` | `DraftInv`: an edit between its check and its write either finds a draft or has marked the offer as overlapped; over the whole wizard |
| Deals_proofs!ReviewedIsAlwaysSent | `ReviewedIsSent` | `ReviewInv`: what the page shows of the documents is what the rows hold while the wizard is alone with the offer, and what it shows of name and address while nothing disturbs; one answer is awaited at a time |
| Deals_proofs!EventsAlwaysKept, StatusAlwaysAgrees, AlwaysVerifiesUntilArchived | `EventsKept`, `StatusAgrees`, `VerifiesUntilArchived` | `LogInv`: an emitted type is in one place only, and what a sweep holds is in a table; what a status rests on was emitted; hot rows hang on each other by number until one is archived |
| Deals_proofs!ReadyAlwaysAsUploaded | `ReadyIsAsUploaded` | a completion past its look holds what S3 held, unless the object was replaced |
| SigningPage_proofs!ShownIsAlwaysTrue | `ShownIsTrue` | `PageInv`: each tab waits for the answer its phase is about, an answer that says yes was true when given and stays true; undisturbed, the recipient has used one tab only |
| Pipeline_proofs!CompletionTypes, OneCertificate | `CompletionTypeOK`, `OneCertificateNamed` | a task past the issuing holds the id of a certificate that exists, which is what `Winner` is for |
| Pipeline_proofs!DeliveryTyped, SomeLinkAlwaysWorks | `TypeOK`, `SomeLinkWorks` | `DeliveryInv`: what each request knows of its token, step by step |
| Webhooks_proofs!FinalStatusAlwaysTrue | `FinalStatusIsTrue` | `HookInv`: what each worker, row and requeue knows of the job; `CountInv`: a row's attempts and the claims still to come are no more than the tries of its job, so what is buried is exhausted |
| Webhooks_proofs!DuplicatesAlwaysPaidFor | `DuplicatesArePaidFor` | `BudgetInv`: arrivals, *tickets* (a worker that may still post the event) and waiting jobs are together at most one more than the faults and requeues. Nearly every step trades one for another; a crash gives back one more than it takes, the job in hand |
| Operations_proofs!CaseAlwaysAgrees, ActsAlwaysAudited, ChecksAlwaysHold | `CaseAgrees`, `ActsAreAudited`, `ChecksHold` | what an agent has read still holds while nothing moved, and an offer once read as accepted has its record for good (`LastingInv`); acts done and in flight are counted against the audit; a change that read before another wrote is late |
| Operations_proofs!VerdictAlwaysTrue, ValidAlwaysIntact | `VerdictIsTrue`, `ValidIsIntact` | `EvidenceInv`: till something is altered the rows are as written, the chain complete; then each alteration changes what one hash was taken of, or breaks the chain. The page asked about nothing altered or about what was |
| Accounts_proofs!OneLiveAlways, ReplayAlwaysEnds, PasswordAlwaysSignsOut | the three properties of refresh tokens | `SessionsInv`: every token held and every family is of a session that was opened; a request past its look either still finds what it saw or what it opens is late |
| Accounts_proofs!OneOwnerAlways, AcceptedWhileOpenAlways | `OneOwner`, `AcceptedWhileOpen` | `OrgInv`: while nothing stale was written the owner is one, and a removal about to be written is of someone who was no owner; an invitation used has been settled, and an acceptance about to write one that was settled has it overtaken |
| Accounts_proofs!LetInAlwaysWithTerms | `LetInWithTerms` | `TermsInv`: an account without terms is one whose signup is about to record them, or died just there |
| Accounts_proofs!LinksAlwaysWork | `LinksWork` | `LinksInv`: links are issued in order; the newest of a kind is dead only if it was used, a request died, or its replacement is on the way; uses and requests about to use are no more than the visitors |
| Accounts_proofs!GuessesAlwaysLimited | `GuessesLimited` | `GuessInv`: below the limit a guess has been counted or is about to be; above it, guesses made and those who may still guess before the lock shuts them out are within the bound |
| Accounts_proofs!WindowAlwaysRespected | `WindowRespected` | `RateInv`: the log has every orderly request that a later date can still count, so the script counts at least those the property counts |
| Billing_proofs!OneCustomerAlways, OverLimitAlwaysNeedsOverlap | `OneCustomer`, `OverLimitNeedsOverlap` | counting: those about to create a customer and the next to take a free lock are at most one more than the faults; what is sent is counted or about to be |
| Billing_proofs!PlanAlwaysFollowsStripe | `PlanFollowsStripe` | `PlanInv`, while undisturbed: the lock lets one request near the customer, so every checkout is of the one there is; events are handled in order, so the last one open carries the subscription as it is |

The argument is always the same: the first state satisfies the invariant, each action
keeps it (one lemma per action or per group that writes the same rows), the invariant
implies the property, and PTL combines them. The careless writes of revoke and of the
offer sweep are in Signing_proofs: they move the status only away from SENT, which
is why they cannot cause a second decision.

The invariants were checked by TLC before they were proved. The three type invariants
(`TypeOK` of SigningSystem and Delivery, `CompletionTypeOK`) are proved and so need no
run.

## 6. Only model-checked

Every liveness property (`LapsedIsClosed`, `CertificateFollows`, `SweepMakesGood`,
`DecidedInTheEnd`, `QuotaRefreshes`, `SessionsArePurged`): liveness under fairness and
ENABLED are beyond TLAPS. Every safety property that a passing run checks is proved.

## 7. Not modelled

* **Several offers** in Signing and Delivery: no row of one offer is read by the
  signing of another. Drafting has several.
* **Row locks**: transactions are single steps. revoke and accept lock recipient and
  offer in opposite orders and can deadlock; PostgreSQL then fails one, which is an
  Abort.
* **Time** beyond order: deadlines are flags, windows small integers; the refresh
  token's thirty days pass with no one using it, and sessions from before families
  were recorded (`familyId` null) do not occur.
* **pg-boss, Redis, Stripe, S3, the e-mail provider**: external, as far as the code
  relies on them. **AI** and **e-mail adapters**, **notifications**: calls that may fail.
* **Queries**: search and timeline of support, analytics, lists, insights, health,
  acceptance pages' data, the customer portal, account export. They write nothing.
* **Single transactions that nothing races**: document packages, DPA acceptance,
  renaming and creating an organization, API keys (a lookup by hash), the expiry
  warnings of send-reminders (a mail and a flag).
* **HTTP layer**: controllers' validation, guards, filters, interceptors, configuration.
* **Migrations and seeds**, except the constraints the code relies on.
* `SigningSessionService.transition`, the OTP service's `verify`, ABANDONED sessions:
  nothing calls or sets them.
* **The rest of the web application**: dashboard pages that show a query or write and
  reload, the landing, pricing, help, demo, legal and marketing pages in two languages,
  e-mail templates, the PDF layout, UI components.

The map covers about a sixth of the lines. What is left is, for the most part, text
and markup (landing, legal, help, demo and pricing pages alone are some seven thousand
lines), templates, type declarations, queries and request plumbing: there is no state
to model in it, and widening the lines of existing definitions would not change that.
