------------------------------ MODULE DealLog ------------------------------
(***************************************************************************)
(* The DealEvent log of ONE offer: emit, which every service calls and     *)
(* none awaits, so events land in any order or not at all; the hash chain  *)
(* that emit builds under a per-deal lock; the status DealStatusService    *)
(* computes from whatever has landed; and the sweep that moves rows past   *)
(* the retention period to deal_events_archive.  The clocks of the         *)
(* processes that emit need not agree.                                     *)
(***************************************************************************)
EXTENDS Integers, FiniteSets

CONSTANTS
    Sweepers,       \* workers that may run the archive sweep at once
    BatchSize,      \* DEAL_EVENT_ARCHIVE_BATCH_SIZE
    MaxEvents,      \* bound: events emitted
    MaxInFlight,    \* bound: events emitted and not landed
    MaxSweeps,      \* bound: batches selected
    MaxDisturbances \* bound: emits that fail, sweeps that die, rows dated by a slow clock

ASSUME DealLogAssumption ==
    BatchSize \in Nat \ {0} /\ MaxEvents \in Nat /\ MaxInFlight \in Nat
    /\ MaxSweeps \in Nat /\ MaxDisturbances \in Nat

Type == {"deal_created", "deal_sent", "deal_opened", "otp_verified", "deal_accepted", "deal_declined",
         "deal_expired", "deal_revoked", "deal_reminder_sent", "certificate_issued"}
Nothing == "nothing"

VARIABLES
    status,     \* Offer.status
    ending,     \* what revoke and the expiry sweep, having read SENT, are about to write
    begun,      \* types of the events emitted so far
    waiting,    \* those whose transaction has not begun
    writing,    \* per emit in its transaction: type and the tail of the chain it read
    failed,     \* types of the emits that failed
    hot,        \* deal_events: type, sequenceNumber, the row whose hash it holds, createdAt
    cold,       \* deal_events_archive
    sweep,      \* per worker: the rows it selected and has yet to move
    sweeps, disturbances

logVars == <<status, ending, begun, waiting, writing, failed, hot, cold, sweep, sweeps, disturbances>>

-----------------------------------------------------------------------------
(* Plausible bugs, each a form of a definition below (README.md, Mutants). *)

LockFree            == TRUE     \* Unlocked: no advisory lock
Unlinked(w, at) ==              \* Chained: no previous hash
    [type |-> w.type, seq |-> w.tail.seq + 1, prev |-> Nothing, at |-> at]
ByCourse    ==                  \* StatusRank: an acceptance outranks every other end
    [CREATED |-> 0, SENT |-> 1, OPENED |-> 2, OTP_VERIFIED |-> 4, DECLINED |-> 5, EXPIRED |-> 6, REVOKED |-> 7,
     ACCEPTED |-> 8]

-----------------------------------------------------------------------------
(* The offer, as far as it emits: SenderFlow, RecipientFlow and Sweeps     *)
(* have the rest.  An event is emitted once the row is written; of each    *)
(* type one (a bound: three reminders and several codes repeat theirs).    *)

Emit(type) ==
    /\ Cardinality(begun) < MaxEvents /\ Cardinality(waiting) + Cardinality(writing) < MaxInFlight
    /\ begun' = begun \cup {type} /\ waiting' = waiting \cup {type}

LogUnchanged == UNCHANGED <<writing, failed, hot, cold, sweep, sweeps, disturbances>>

Goes(from, to, type) ==
    /\ status = from /\ status' = to
    /\ Emit(type)
    /\ UNCHANGED ending /\ LogUnchanged

Notes(from, type) ==
    /\ status = from /\ type \notin begun
    /\ Emit(type)
    /\ UNCHANGED <<status, ending>> /\ LogUnchanged

\* Without the event: the first link could not be mailed.
SendUndelivered ==
    /\ status = "DRAFT" /\ status' = "SENT"
    /\ UNCHANGED <<ending, begun, waiting>> /\ LogUnchanged

CreateOffer  == Goes("NONE", "DRAFT", "deal_created")
SendOffer    == Goes("DRAFT", "SENT", "deal_sent") \/ SendUndelivered
Accept       == "otp_verified" \in begun /\ Goes("SENT", "ACCEPTED", "deal_accepted")
Decline      == "otp_verified" \in begun /\ Goes("SENT", "DECLINED", "deal_declined")
Open         == Notes("SENT", "deal_opened")
VerifyOtp    == "deal_opened" \in begun /\ Notes("SENT", "otp_verified")
Remind       == Notes("SENT", "deal_reminder_sent")

\* Issued for the acceptance, whatever the offer has become since.
IssueCertificate ==
    /\ "deal_accepted" \in begun /\ "certificate_issued" \notin begun
    /\ Emit("certificate_issued")
    /\ UNCHANGED <<status, ending>> /\ LogUnchanged

\* revoke and the expiry sweep look for SENT, and write without looking again.
FindEnding(to) ==
    /\ status = "SENT" /\ to \notin ending
    /\ ending' = ending \cup {to}
    /\ UNCHANGED <<status, begun, waiting>> /\ LogUnchanged

CommitEnding(to, type) ==
    /\ to \in ending /\ type \notin begun
    /\ status' = to
    /\ Emit(type)
    /\ UNCHANGED ending /\ LogUnchanged

OfferStep ==
    \/ CreateOffer \/ SendOffer \/ Open \/ VerifyOtp \/ Remind \/ Accept \/ Decline \/ IssueCertificate
    \/ FindEnding("REVOKED") \/ FindEnding("EXPIRED")
    \/ CommitEnding("REVOKED", "deal_revoked") \/ CommitEnding("EXPIRED", "deal_expired")

-----------------------------------------------------------------------------
(* DealEventService.emit: one transaction, serialized by an advisory lock. *)

OfferUnchanged == UNCHANGED <<status, ending, begun>>

Unlocked == writing = {}

\* findFirst by descending sequenceNumber, among the hot rows.
Newest == IF hot = {} THEN [seq |-> 0, type |-> Nothing]
        ELSE LET last == CHOOSE e \in hot : \A d \in hot : d.seq <= e.seq
             IN  [seq |-> last.seq, type |-> last.type]

ReadTail(type) ==
    /\ type \in waiting /\ Unlocked
    /\ waiting' = waiting \ {type}
    /\ writing' = writing \cup {[type |-> type, tail |-> Newest]}
    /\ OfferUnchanged /\ UNCHANGED <<failed, hot, cold, sweep, sweeps, disturbances>>

\* The row, which holds the hash of the tail, dated by this process's clock:
\* after every row there is, or, where that clock is slow, before the n-th.
\* Its sequence number is unique among the hot rows, or the insert fails.
Chained(w, at) == [type |-> w.type, seq |-> w.tail.seq + 1, prev |-> w.tail.type, at |-> at]
OnTime(w) == 2 * (w.tail.seq + 1)

WriteEvent(w) ==
    /\ w \in writing /\ writing' = writing \ {w}
    /\ IF \E e \in hot : e.seq = w.tail.seq + 1
       THEN failed' = failed \cup {w.type} /\ UNCHANGED <<hot, disturbances>>
       ELSE UNCHANGED failed /\
            \/ hot' = hot \cup {Chained(w, OnTime(w))} /\ UNCHANGED disturbances
            \/ /\ \E n \in 1..w.tail.seq :
                     /\ \A e \in hot : e.at # 2 * n - 1
                     /\ hot' = hot \cup {Chained(w, 2 * n - 1)}
               /\ disturbances < MaxDisturbances /\ disturbances' = disturbances + 1
    /\ OfferUnchanged /\ UNCHANGED <<waiting, cold, sweep, sweeps>>

\* Swallowed by emit's catch, or the process died before it came to it.
EmitFails(type) ==
    /\ disturbances < MaxDisturbances /\ disturbances' = disturbances + 1
    /\ type \in waiting \cup {w.type : w \in writing}
    /\ waiting' = waiting \ {type}
    /\ writing' = {w \in writing : w.type # type}
    /\ failed' = failed \cup {type}
    /\ OfferUnchanged /\ UNCHANGED <<hot, cold, sweep, sweeps>>

-----------------------------------------------------------------------------
(* ArchiveDealEventsHandler.                                               *)

\* The oldest rows, as many as are past the retention period by now.
SelectBatch(w) ==
    /\ sweep[w] = {}
    /\ sweeps < MaxSweeps /\ sweeps' = sweeps + 1
    /\ \E rows \in (SUBSET hot) \ {{}} :
          /\ Cardinality(rows) <= BatchSize
          /\ \A e \in rows, d \in hot : d.at < e.at => d \in rows
          /\ sweep' = [sweep EXCEPT ![w] = rows]
    /\ OfferUnchanged /\ UNCHANGED <<waiting, writing, failed, hot, cold, disturbances>>

Deleted(rows) == rows

\* One transaction: copied, unless there by id, and deleted by id.  The
\* checkpoint, updated after it and read by nobody, is left out.
Archive(w) ==
    /\ sweep[w] # {} /\ sweep' = [sweep EXCEPT ![w] = {}]
    /\ cold' = cold \cup sweep[w]
    /\ hot' = hot \ Deleted(sweep[w])
    /\ OfferUnchanged /\ UNCHANGED <<waiting, writing, failed, sweeps, disturbances>>

\* The worker dies, or a statement of its transaction fails.
SweepDies(w) ==
    /\ sweep[w] # {} /\ sweep' = [sweep EXCEPT ![w] = {}]
    /\ disturbances < MaxDisturbances /\ disturbances' = disturbances + 1
    /\ OfferUnchanged /\ UNCHANGED <<waiting, writing, failed, hot, cold, sweeps>>

-----------------------------------------------------------------------------
LogInit ==
    /\ status = "NONE" /\ ending = {}
    /\ begun = {} /\ waiting = {} /\ writing = {} /\ failed = {}
    /\ hot = {} /\ cold = {}
    /\ sweep = [w \in Sweepers |-> {}]
    /\ sweeps = 0 /\ disturbances = 0

LogNext ==
    \/ OfferStep
    \/ \E type \in Type : ReadTail(type) \/ EmitFails(type)
    \/ \E w \in writing : WriteEvent(w)
    \/ \E w \in Sweepers : SelectBatch(w) \/ Archive(w) \/ SweepDies(w)

LogSpec == LogInit /\ [][LogNext]_logVars

-----------------------------------------------------------------------------
(* DealStatusService.getDealStatus.                                        *)

StatusOf == [deal_created |-> "CREATED", deal_sent |-> "SENT", deal_opened |-> "OPENED",
             otp_verified |-> "OTP_VERIFIED", deal_accepted |-> "ACCEPTED", certificate_issued |-> "ACCEPTED",
             deal_reminder_sent |-> "SENT", deal_revoked |-> "REVOKED", deal_expired |-> "EXPIRED",
             deal_declined |-> "DECLINED"]

StatusRank == [CREATED |-> 0, SENT |-> 1, OPENED |-> 2, OTP_VERIFIED |-> 4, ACCEPTED |-> 5, DECLINED |-> 6,
               EXPIRED |-> 7, REVOKED |-> 8]

\* The highest of what has landed, in whatever order.
ComputedStatus ==
    LET seen == {"CREATED"} \cup {StatusOf[e.type] : e \in hot}
    IN  CHOOSE s \in seen : \A r \in seen : StatusRank[r] <= StatusRank[s]

\* verifyChain: by createdAt, every row has the hash of the one before it,
\* and the first has none.
Before(e) == {d \in hot : d.at < e.at}
Follows(e, d) == d \in Before(e) /\ \A c \in Before(e) : c.at <= d.at
Verifies ==
    \A e \in hot : IF Before(e) = {} THEN e.prev = Nothing
                   ELSE \E d \in hot : Follows(e, d) /\ e.prev = d.type

-----------------------------------------------------------------------------
\* An event that was emitted is on its way, or in one of the two tables and
\* only once, unless its emit failed for a reason of its own: no race between
\* emits and no pair of sweeps loses or doubles one.
EventsKept ==
    \A type \in begun :
        LET rows == {e \in hot \cup cold : e.type = type}
        IN  /\ Cardinality(rows) <= 1 /\ hot \cap cold = {}
            /\ type \in failed => rows = {}
            /\ rows = {} => type \in waiting \cup failed \cup {w.type : w \in writing}
            /\ Cardinality(failed) <= disturbances

\* Once everything emitted has landed and nothing is archived, the computed
\* status of a deal that has ended is the offer's, although events land in
\* any order and an end may overwrite another.  Only where a revocation and an
\* expiry crossed may it name the other of the two.
StatusAgrees ==
    /\ waiting = {} /\ writing = {} /\ failed = {} /\ cold = {}
    /\ status \in {"ACCEPTED", "DECLINED", "EXPIRED", "REVOKED"}
    => ComputedStatus = status \/ {"deal_revoked", "deal_expired"} \subseteq begun

\* The chain verifies as long as nothing has been archived and the clocks
\* dated the rows in the order they were written.
VerifiesUntilArchived ==
    cold = {} /\ (\A d, e \in hot : d.at < e.at => d.seq < e.seq) => Verifies
=============================================================================
