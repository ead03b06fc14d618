---------------------------- MODULE JobTracking ----------------------------
(***************************************************************************)
(* The jobs of ONE queue: pg-boss's own rows (external), the `jobs` table  *)
(* kept beside them by JobTrackingService, the workers that run batches    *)
(* (JobWorker.trackAndHandle), and the administrator who requeues what is  *)
(* dead-lettered.  pg-boss knows a batch as a whole: one job that throws   *)
(* fails all of them.  Processes die, statements fail, jobs expire while   *)
(* their handler still runs.  What a handler does is its own module's.     *)
(***************************************************************************)
EXTENDS Integers, FiniteSets

CONSTANTS
    Workers,        \* handlers that poll the queue
    NumJobs,        \* bound: pg-boss jobs ever sent
    NumEvents,      \* bound: payloads ever sent
    BatchSize,      \* jobs fetched at once
    RetryLimit,     \* retries of the queue
    MaxFaults,      \* bound: crashes, failed statements, expiries and lost answers
    MaxRequeues     \* bound: requeues begun

ASSUME JobTrackingAssumption ==
    /\ NumJobs \in Nat \ {0} /\ NumEvents \in Nat \ {0} /\ BatchSize \in Nat \ {0}
    /\ RetryLimit \in Nat /\ MaxFaults \in Nat /\ MaxRequeues \in Nat

JobId    == 1..NumJobs
NoJob    == 0
EventId  == 1..NumEvents
NoEvent  == 0

VARIABLES
    boss,       \* pg-boss: state of each job, payload, how often it was fetched
    row,        \* the jobs table, by the pg-boss id a row was created for
    worker,     \* what each worker is at, its batch, and what is left of it
    admin,      \* the administrator's requeue in flight
    faults, requeues

queueVars == <<boss, row, worker, admin, faults, requeues>>

-----------------------------------------------------------------------------
(* Plausible bugs, each a form of a definition below (README.md, Mutants). *)

OneTooEarly(attempts) == attempts >= RetryLimit         \* Exhausted: off by one

-----------------------------------------------------------------------------
NoBossJob == [state |-> "none", event |-> NoEvent, tries |-> 0]
NoRow     == [boss |-> NoJob, event |-> NoEvent, status |-> "NONE", attempts |-> 0, dead |-> FALSE]
Resting   == [at |-> "idle", batch |-> {}, todo |-> {}]
NoRequeue == [at |-> "idle", row |-> NoJob, boss |-> NoJob]

At(w, step)    == worker[w].at = step
Moved(w, step) == worker' = [worker EXCEPT ![w].at = step]
Current(w)     == CHOOSE b \in worker[w].todo : \A c \in worker[w].todo : b <= c
EventOf(w)     == boss[Current(w)].event
Rows(b)        == {r \in JobId : row[r].status # "NONE" /\ row[r].boss = b}

\* The statement by pgBossId: it finds one row (UNIQUE), or throws.
Tracked(w) == Rows(Current(w)) # {}
SetRow(w, status, dead) ==
    row' = [r \in JobId |->
              IF r \in Rows(Current(w))
              THEN [row[r] EXCEPT !.status = status, !.dead = dead \/ row[r].dead]
              ELSE row[r]]

-----------------------------------------------------------------------------
(* pg-boss.                                                                *)

Unsent == {b \in JobId : boss[b].state = "none"}

Sent(event) ==
    LET b == CHOOSE u \in Unsent : \A v \in Unsent : u <= v
    IN  [boss EXCEPT ![b] = [state |-> "created", event |-> event, tries |-> 0]]

Retried(b) == [boss[b] EXCEPT !.state = IF boss[b].tries <= RetryLimit THEN "created" ELSE "failed"]

\* By id, and only what is active.
Ended(batch, completed) ==
    [b \in JobId |->
        IF b \notin batch \/ boss[b].state # "active" THEN boss[b]
        ELSE IF completed THEN [boss[b] EXCEPT !.state = "completed"]
        ELSE Retried(b)]

Fetch(w) ==
    /\ At(w, "idle")
    /\ \E batch \in SUBSET {b \in JobId : boss[b].state = "created"} :
          /\ batch # {} /\ Cardinality(batch) <= BatchSize
          /\ boss' = [b \in JobId |->
                        IF b \in batch
                        THEN [boss[b] EXCEPT !.state = "active", !.tries = @ + 1] ELSE boss[b]]
          /\ worker' = [worker EXCEPT ![w] = [at |-> "claim", batch |-> batch, todo |-> batch]]
    /\ UNCHANGED <<row, admin, faults, requeues>>

\* expireInSeconds: a dead worker's job, or that of one that still runs.
Held(b) == \E w \in Workers : b \in worker[w].batch

ExpireJob(b) ==
    /\ boss[b].state = "active"
    /\ Held(b) => faults < MaxFaults
    /\ faults' = IF Held(b) THEN faults + 1 ELSE faults
    /\ boss' = [boss EXCEPT ![b] = Retried(b)]
    /\ UNCHANGED <<row, worker, admin, requeues>>

-----------------------------------------------------------------------------
(* trackAndHandle: one job of the batch after the other.                   *)

\* An upsert; the handler comes next.  It leaves deadLetteredAt alone.
ClaimJob(w) ==
    /\ At(w, "claim")
    /\ IF Tracked(w)
       THEN row' = [r \in JobId |->
                      IF r \in Rows(Current(w))
                      THEN [row[r] EXCEPT !.status = "RUNNING", !.attempts = @ + 1] ELSE row[r]]
       ELSE row' = [row EXCEPT ![Current(w)] =
                      [boss |-> Current(w), event |-> EventOf(w), status |-> "RUNNING",
                       attempts |-> 1, dead |-> FALSE]]
    /\ Moved(w, "handle")
    /\ UNCHANGED <<boss, admin, faults, requeues>>

\* completeJob; a row that is gone throws into the catch.
CompleteJob(w) ==
    /\ At(w, "complete")
    /\ IF Tracked(w)
       THEN /\ SetRow(w, "COMPLETED", FALSE)
            /\ LET left == worker[w].todo \ {Current(w)}
               IN  worker' = [worker EXCEPT ![w].todo = left,
                                            ![w].at = IF left = {} THEN "done" ELSE "claim"]
       ELSE Moved(w, "fail") /\ UNCHANGED row
    /\ UNCHANGED <<boss, admin, faults, requeues>>

Exhausted(attempts) == attempts >= RetryLimit + 1

\* failJob reads the attempts, and writes later.
ReadAttempts(w) ==
    /\ At(w, "fail")
    /\ Moved(w, IF \E r \in Rows(Current(w)) : Exhausted(row[r].attempts) THEN "bury" ELSE "mark")
    /\ UNCHANGED <<boss, row, admin, faults, requeues>>

FailJob(w) ==
    /\ \/ At(w, "bury") /\ SetRow(w, "DEAD_LETTERED", TRUE)
       \/ At(w, "mark") /\ SetRow(w, "FAILED", FALSE)
    /\ Moved(w, "throw")
    /\ UNCHANGED <<boss, admin, faults, requeues>>

\* The rethrow ends the loop: pg-boss fails the whole batch.
EndBatch(w) ==
    /\ At(w, "done") \/ At(w, "throw")
    /\ boss' = Ended(worker[w].batch, At(w, "done"))
    /\ worker' = [worker EXCEPT ![w] = Resting]
    /\ UNCHANGED <<row, admin, faults, requeues>>

\* Outside the try for claimJob; into the catch from the handler on.
StatementFails(w) ==
    /\ faults < MaxFaults /\ faults' = faults + 1
    /\ \/ At(w, "claim") /\ Moved(w, "throw")
       \/ At(w, "complete") /\ Moved(w, "fail")
       \/ worker[w].at \in {"fail", "bury", "mark"} /\ Moved(w, "throw")
    /\ UNCHANGED <<boss, row, admin, requeues>>

Crash(w) ==
    /\ worker[w].at \notin {"idle", "down"} /\ faults < MaxFaults
    /\ faults' = faults + 1
    /\ worker' = [worker EXCEPT ![w] = [Resting EXCEPT !.at = "down"]]
    /\ UNCHANGED <<boss, row, admin, requeues>>

\* Rows of dead workers, if their lock is five minutes old by then.
Restart(w) ==
    /\ At(w, "down")
    /\ \E stale \in SUBSET {r \in JobId : row[r].status = "RUNNING" /\ ~Held(row[r].boss)} :
          row' = [r \in JobId |-> IF r \in stale THEN [row[r] EXCEPT !.status = "FAILED"] ELSE row[r]]
    /\ Moved(w, "idle")
    /\ UNCHANGED <<boss, admin, faults, requeues>>

-----------------------------------------------------------------------------
(* AdminJobsService.requeue: a new pg-boss job first, then the row.        *)

Requeue ==
    /\ admin.at = "idle" /\ requeues < MaxRequeues /\ Unsent # {}
    /\ \E r \in JobId :
          /\ row[r].dead
          /\ boss' = Sent(row[r].event)
          /\ admin' = [at |-> "mark", row |-> r, boss |-> CHOOSE b \in Unsent : \A c \in Unsent : b <= c]
    /\ requeues' = requeues + 1
    /\ UNCHANGED <<row, worker, faults>>

\* pgBossId is UNIQUE: it fails when a worker has claimed the new job already.
MarkRequeued ==
    /\ admin.at = "mark"
    /\ row' = IF Rows(admin.boss) # {} THEN row
              ELSE [row EXCEPT ![admin.row] = [boss |-> admin.boss, event |-> row[admin.row].event,
                                               status |-> "PENDING", attempts |-> 0, dead |-> FALSE]]
    /\ admin' = NoRequeue
    /\ UNCHANGED <<boss, worker, faults, requeues>>

AdminDies ==
    /\ admin.at = "mark" /\ faults < MaxFaults
    /\ faults' = faults + 1 /\ admin' = NoRequeue
    /\ UNCHANGED <<boss, row, worker, requeues>>

-----------------------------------------------------------------------------
QueueInit ==
    /\ boss = [b \in JobId |-> NoBossJob]
    /\ row = [r \in JobId |-> NoRow]
    /\ worker = [w \in Workers |-> Resting]
    /\ admin = NoRequeue
    /\ faults = 0 /\ requeues = 0

Tracking(w) ==
    \/ Fetch(w) \/ ClaimJob(w) \/ CompleteJob(w) \/ ReadAttempts(w) \/ FailJob(w) \/ EndBatch(w)
    \/ StatementFails(w) \/ Crash(w) \/ Restart(w)

Administration == Requeue \/ MarkRequeued \/ AdminDies

-----------------------------------------------------------------------------
\* What the dead-letter list shows is over: pg-boss will not try it again by
\* itself, whatever the batches, crashes and overlapping requeues.
DeadIsOver ==
    \A r \in JobId : row[r].dead => boss[row[r].boss].state # "created"
=============================================================================
